# A TLA+ model of ParaQL

ParaQL runs SQLite (libSQL) on top of Autobee: every write is an operation in an
append-only log of one writer, the logs of all writers are linearised, and an
apply callback executes the operations on a database whose pages live in the
replicated view. This directory holds TLA+ modules for the parts of ParaQL that
are its own, the TLC configurations that check them on small instances, and
TLAPS proofs that state every safety property of the passing runs, and the refinement, for all values of
the constants. Paths below are relative to the repository.

## 1. Inventory

| Component | Code | State it keeps | Operations | Model |
| --- | --- | --- | --- | --- |
| Write path | `lib/vfs.js` (`exec`, `run`, `flush`, `addWriter`, `removeWriter`, `_apply`, `_write`), `lib/deferred.js`, `Operation` in `lib/codecs.js`, `lib/statement.js` (`batch`, `run`, `flush`) | the queue of a batching statement, `_interactive`, `_view`, `_files`; the local variables of a running `_apply` | calls of the application, operations applied, batches of other writers | `WritePath`, proofs in `WritePathProofs` |
| Page files | `lib/vfs.js` (`_xRead` ... `_xSize`, `_get`, `_last`, `_tryPut`, `_tryDelete`, `_flush`), `lib/encryption.js`, `deflate` and `inflate` | pages by file and index in the view or in RocksDB, one unflushed batch per file | the seven VFS methods, close | `PageFiles`, implements `ByteFile`, proofs in `PageFilesProofs` |
| Native bridge | `binding.c` | requests on the libuv pool, VFS call records, one semaphore per VFS, the connection mutex | eleven kinds of request, seven VFS calls with their call and done halves | `VfsBridge`, proofs in `VfsBridgeProofs` |
| Statement cache | `index.js` (`prepare`, `_close`), `lib/statement.js` (`_open`, `_close`, `finalize`) | the Map from SQL to statement, the life cycle of each statement | prepare, finalize, close | `StatementCache`, proofs in `StatementCacheProofs` |
| Statement use | `lib/statement.js` (`get`, `all`, `iterate`, `_run`, `_bind`), `binding.c` (bind in its two passes, step, run, reset, finalize) | bindings and cursor of a statement shared through the cache; values and row of each request | get, all, iterate, _run, finalize | `StatementUse` with `BindParams`, proofs in `StatementUseProofs` and `BindParamsProofs` |
| Statement list | `binding.c:1051-1219`, prepare and finalize there | a doubly linked list of a database's statements, changed on pool threads | prepare, finalize, the collector's finalizers of statements and databases | `StatementList`, proofs in `StatementListProofs` |
| VFS registration, life cycle | `binding.c:926-1049`, open and close there, `index.js:54-79`, `lib/vfs.js:83-113` | SQLite's registry of VFSes, one connection per instance | ready, close, reopening, apply in between | `Instances`, proofs in `InstancesProofs` |
| Replication | Autobee, outside the repository | logs of all writers | append, linearise, truncate, apply | seen by one instance in `WritePath` |
| compact, info, errors, constants, build, tests | | none of the program's | | not modelled |

How they interact. A call such as `stmt.run()` puts a Deferred in the slot
`_interactive`, appends an operation, and waits. Autobee calls `_apply`, which
sets `_view`, prepares the SQL through the cache of `index.js`, and runs it with
requests to the binding. On a pool thread SQLite calls the VFS; the bridge sends a
record to the JavaScript thread, where `_xRead` and the others read pages from the
view and collect writes in a batch that `_xSync` flushes. Back in `_apply` the
outcome settles whatever the slot holds.

What is hard here: two threads that hand over stack frames through one semaphore;
JavaScript calls that interleave at every `await` and share single slots
(`_interactive`, `_view`, `_files`, the cache) and single statements; instances that share
one name in SQLite's registry; a list changed by threads without a lock; operations of other writers that
are applied at any moment and again after a reorder; a thread pool that waits for
itself; pages that are both pending and stored. `PROJECT.json` lists each hazard
at its line with the properties that cover it.

What makes each component correct:

- Write path: a call returns the outcome of its own operation, after the view
  holds it; no queued row is lost or repeated; the view is a replay of the log;
  calls return.
- Page files: SQLite finds in a file what it wrote; what it synced survives; a
  partial write keeps the rest of its page; temporary pages are stored encrypted;
  SQLite's buffers are left alone (which they are not, section 3).
- Bridge: a VFS call returns with its own completion; JavaScript never writes to a
  frame that was left; every request settles.
- Cache: one open statement per SQL, at most `cacheSize` of them, the least
  recently prepared one evicted; no hit on a finalized statement; all finalized
  after close; nobody waits for ever.
- Statement use: each parameter gets the value meant for it; a call gets the rows of one
  execution with its own parameters; apply executes the rows of the log; the statement
  is left reset and unbound.
- Statement list: it holds the statements that live, each once; no freed memory is
  used; every statement is finalized once.
- Instances: a connection uses the VFS of its own instance; what counts as applied is
  in the instance's store; close leaves no user of the VFS behind; ready and close settle.

## 2. Modules

### WritePath

One instance that calls, its slot, its apply callback, and Autobee as it sees it.
`queue`, `interactive`, `view` and `files` are the fields of the same names;
`pc`, `sent`, `waitOn`, `promise` and `ret` hold the local state of each running
call; `ap` that of `_apply`: a cursor (`b`, `k`) into the batches of `log` up to `upto`, and
the totals; `log`, `applied`, `bee`, `writable` belong to Autobee;
`accepted` and `db` are histories. One action per stretch between awaits:

- `BatchOn`, `BatchOff`, `RunQueued`: `statement.js` `batch`, `finalize`, `run`. `BatchOff` also stands for
  the eviction of a batching statement by the `prepare()` of another one, which drops the queued rows
  unasked (`index.js:136`).
- `CallExec`, `CallRun`, `CallFlush`, `FlushNotBatching`, `CallWriter`: the calls, up to
  their first await. `Start` is the part that `exec`, `run` and `flush` share.
- `Deflated`: the await of deflate resolved; the operation is appended and the slot
  read **again**, as the code does. `Return`: Deferred and append are settled.
- `ApplyStart`, `ApplyWriter`, `ApplyBadStmt`, `ApplyBegin`, `ApplyEnd`, `ApplyFlush`,
  `ApplyDone`: `_apply` over a group of batches, `Die` where it throws.
  `ApplyBegin` and `ApplyEnd` are `_write(view)` and `_write(null)` with what lies
  between; `STMT` falls through to `BATCH` in the code and so does the model: it
  counts one error in every flush (`Counted`, and the `+ 1` in `FlushTotals`).
- `RemoteBatch`, `DirectWrite`, `DirectSync`: a batch of another writer takes a place
  in the log, and applied batches behind it will be applied again; SQL run
  through `get`, `all` or `iterate` that writes.

Abstracted: SQL and parameters are rows, and whether SQLite refuses a row depends
on the row only (`BadParams`). `ASSUME NullAssumption` says that NULL is none of the records `ap` may be. External, from how the code uses Autobee: `append` is
asynchronous and atomic for an array of operations, `apply` runs one call at a time
and never while the log is being reordered, a failed `apply` stops the instance.

### VfsBridge

`pc` of a request goes idle, queued, run (on a pool thread), locked (inside
SQLite), sem (in `uv_sem_wait`), awake (let through), locked again, after, settled.
`stage` is where the record of its VFS call is: queued in a threadsafe function,
in the handler, in zlib (pooled, working, ready), done. Each exported binding function is
an action with the number of SQLite calls its "before" half may make; each VFS
method is an action; `Dispatch`, `OnDone`, `OnAfter` and `OnAfterParse` are the halves
that run on the JavaScript thread. External: libuv's pool is first in, first out;
an SQLite call holds the mutex of its connection (`SQLITE_THREADSAFE` at its default);
`uv_sem_wait` lets any waiter through. `OneConnectionPerVfs` is an assumption: each instance
registers a VFS and opens one connection on it. `Instances` shows when the code keeps that:
`OwnVfsOneByOne`, as long as no two instances open at the same time.

Left out of this module: what the values are (`StatementUse`), the list of statements
(`StatementList`), registration and teardown of a VFS (`Instances`).

### PageFiles and ByteFile

`store` is the view (main file) or RocksDB (all others), `files` is `this._files`, each
VFS method one action. Methods are atomic here because `VfsBridge` proves
`OneOutstanding`: no two VFS calls of a connection overlap. A stored page is its data
under a stack of layers: deflate puts `"z"` on, inflate fails unless `"z"` is on
top; the XOR cipher puts `"x"` on or takes it off. `XTruncate` fails when a file
shrinks because `_xTruncate` reads the undefined `lastIndex` before it changes anything.

`ByteFile` is what SQLite expects of a file: reads see the last write, sync makes it
durable, close loses the rest, any operation may fail without effect. It is not mapped
to code. The refinement mapping reads a file as its store with its batch applied.
Because `_get` looks at the store only, the mapping is an implementation only for a
client that does not come back to an unsynced page. `Disciplined` is the set of files with such
a client. SQLite is one for the main file: it writes whole pages (its page size
is `PAGE_SIZE`), and keeps them in its cache until it syncs, as long as a
transaction fits the cache. It is not one for rollback journals, whose records are
several small writes; what happens then is under "Further disagreements".

### StatementCache

`cache` is the Map as a sequence of pairs in insertion order; `state` is the life cycle
of each statement; the callers are the application and `_apply`. `PrepareMiss` and
`Opened` are the code before and after `await stmt.ready()`, `Resume` what follows
`await oldest.finalize()`, `Finalized` the end of a statement's `_close`, which deletes the entry of
its SQL whichever statement that holds. `CloseNext` is one round of the loop over
the Map, whose entries vanish under the iterator. External: a ReadyResource opens and
closes once; a Map iterator skips deleted entries and visits added ones.

A prepare whose `binding.prepare` resolves after close is part of the model: nothing
orders the two.

`overlapped` records that a call was made while another was in progress. What the cache
promises to calls one after the other is stated under `~overlapped`, so that one
run of two callers checks both the promises and what is left of them when callers overlap.

### BindParams and StatementUse

`BindParams` is the algorithm that assigns values to parameters: `Scan` is the loop of
`paraql__on_after_parse` over the parameters (a recursive function), `Known` its loop over
the keys, `ParseValue` is `paraql__parse_value`, `Handed` and `HandedAll` are the two loops of `_bind`. `Intended` is the reference, a definition
without loops of what README.md and `statement.d.ts` promise: by rank for the nameless, by
name with or without the sigil for the named, nothing left over. A call whose values include a bigint is
in the run, and excepted from the agreement (`PlainNamed`, `PlainPositional`; section 3). Keys of 256 bytes
or more are not represented (section 3).

`StatementUse` is one statement and its callers. `pc` of a call goes through parse, parsed,
bind, bound, then step, stepped, yield or run, ran, then reset, resetted; each
`OnBefore...` action is the half of a request on a pool thread, each `OnAfter...` the half on
the JavaScript thread with the JavaScript that its promise resumes. `stmt` is what
SQLite holds: phase, row, bindings. `fresh` says whether what a request points at in
SQLite (names, columns) is still there when the JavaScript half reads it. `Request` and
`Finally` are the calls of the binding with `this._handle`, which is null once the
statement is finalized: the binding asserts a handle and the process ends ("crash").
`blank` is a statement of empty or comment-only SQL, which SQLite prepares without a handle; `NoHandle` joins
it with a freed one, and `MakeError` is what the binding makes of an error without a message (an error, or a crash).

Nothing in the code keeps two calls on one statement apart. `alone` records the calls that
nobody disturbed; what the code promises to a call is stated for those, after any
history of overlaps, failures and breaks of others. Abstracted: a row is its number and
the bindings behind it; one half of a request is one step.

### Instances

Several instances in one process. `life` is where `ready()` or `close()` of each is,
`registry` SQLite's list of VFSes named "paravfs" (by stamps: the highest is found first),
`conn` and `uses` the connection and the VFS it calls, `apply` what `_apply` awaits. A step is
the stretch between two awaits, or a pool half. `ApplyExec` and `ApplyRun` differ as the code
does: EXEC hands `_handle` to the binding as it is, RUN prepares, which waits for `ready()`.
`OnBeforeExec` is where SQLite answers MISUSE to a NULL connection and `_apply` counts the
operation as done. `LoseStatement` is what `OneLivePerSql` of `StatementCache` fails to
exclude when calls overlap. A store outlives its instance (`Reopen`).

`mishaps` records what the code makes no provision for: `opens` (two instances open at the
same time), `failed` (an open fails), `busy` (an instance is closed while an apply runs, or
applies while it closes), `stray` (a lost statement). Each property names those it excepts;
without any one of them it is violated (section 3).

### StatementList

The linked list as its fields, one C statement per step, on threads without a lock;
`job` is what each pool thread runs. `mem` is the allocator: a step that touches freed
memory sets `fault`. `js` and `dbJs` are what JavaScript still reaches: the collector may
take a statement or database once no request is in flight on it. `listed` and
`finals` are histories of what the list should hold and of calls of
`sqlite3_finalize`. `overlapped` records that two jobs ran at the same time.

### MC modules

Each `MC...` module extends one of these for TLC: symmetry where no liveness is checked, the
functions from requests to connections, the data written, the parameters and calls, a view
without the result of the last operation, and two constraints: `OneOrder` (calls
begin with a given one; all are alike) and `FewMishaps` (at most two kinds of mishap in one
behaviour).

## 3. Runs

| Run | Bounds | What it shows |
| --- | --- | --- |
| `write_path` | 2 calls made one after the other, 2 rows (one refused), 2 queued rows, 1 remote batch, one batch per apply | The results of a lone writer's calls are its own (`ResultIsOwnAlone`, `FlushTotals`: calls made one after the other, no other writer's batch in the log); with another writer whose batch sorts anywhere, no row is lost while no append is refused (`NoRowLost`), the view holds the writes of all applied batches in the order of the log (`ViewIsReplay`), calls return (`CallsReturn`). 420 240 states. |
| `write_path_shared` | 2 overlapping calls, a remote batch, a direct write, every fault, groups of 2, compressed | `AckedAfterApply` holds whoever settles a call: the second await of each call, on the append, is what carries it. 2 571 087 states. |
| `write_path_foreign_result` | 1 call, 1 remote batch | **Violation** of `ResultIsOwn`: the slot is settled by the remote operation (`vfs.js:153`). |
| `bridge` | 3 requests, 2 connections, 4 pool threads, handlers that may need one; one SQLite call per pass (bind has two passes), one VFS call per request | Completions reach their own worker (`OwnCompletion`), records outlive handlers (`CallerWaits`), one record per VFS (`OneOutstanding`), every request settles. |
| `bridge_pool_exhausted` | 2 requests, 1 connection, 2 pool threads, the same handlers | **Violation** of `EveryRequestSettles`: one worker waits for inflate, the other for the connection mutex, and inflate waits for a thread (`codecs.js:120`). |
| `page_files` | 2 files of 2 pages of 2 bytes, 2 writes within, of and across pages, compressed and encrypted | `ImplementsByteFile` for the main file; pages of both files are stored under the right layers (`PagesProtected`); in both files a write changes what it covers, and any other byte keeps its value or falls back to that of the last flush (`BytesKept`). 16 310 states. |
| `cache` | 2 callers, 3 SQL texts, 3 statements, room for 2 | Until calls overlap a bounded least-recently-prepared cache (`CacheBound`, `LeastRecentFirst`: the entries are in the order of their last preparation) with one open statement per SQL, `prepare` returns an open one, all finalized after close. Whatever overlaps, a hit never finds a finalized statement (`HitsAreLive`), and nobody waits for ever. |
| `statement_use` | 2 callers (application and apply) and finalize; 8 statements with nameless and named parameters, objects and arrays of values of every kind, a bigint among them; one statement that both use, with 3 calls; 2 rows; the statement without parameters also as one of empty SQL | `BindsExactly` against the reference; `OwnOutcome`, `PointersLive` for undisturbed calls after any history, with empty SQL an error and no row; `CleanWhenIdle` after any overlap; calls return. 34 879 states. |
| `statement_use_overlap` | the shared statement | **Violation** of `AppliedAsLogged`: a `get()` between apply's bind and its run (`statement.js:93`). |
| `instances` | 2 instances, 2 operations, 1 reopening, 2 kinds of mishap in one behaviour | Each connection on its own VFS when opened one by one (`OwnVfsOneByOne`), applied is stored (`AppliedIsStored`), no call on a destroyed VFS (`NoDeadVfs`), no NULL handle from a prepare (`NoNullHandle`), ready and close settle (`OpensAndCloses`). |
| `instances_open_together` | 2 instances | **Violation** of `OwnVfs`: both register, then both find the second (`binding.c:997`). |
| `statement_list` | 2 threads, 3 statements | Jobs one after the other, in any order, keep the list (`ListIntact`) and touch no freed memory (`NoUseAfterFree`); no statement is finalized twice while the database lives, and none is forgotten (`FinalizedOnce`). |

Why the bounds are enough. Slots, batches and the semaphore are single: two actors
that compete for one show every order of two, and a third request shows that
another connection does not help or harm. Two calls make every overlap of a call with
its successor; two queued rows put one before or in a flush and one after it. Two pages of
two bytes have every alignment of a write to a page: inside, whole, across. Two
entries and three SQL texts make eviction and reuse after it happen. Statements of up to
three parameters mix every kind; two rows are the first and a next one. Two instances
compete for one name, a reopened one makes the registry change under the other. Three statements
give the list a head, a middle and an end to remove from. For safety the bounds do not
matter in the end: what the runs check the proofs show for every bound (section 5).

Deadlock is checked in `bridge` (`Quiet` is the idle event loop) and in `page_files`; the other
systems may really stop, when the application makes no more calls.

Further disagreements, each seen by changing a configuration or dropping a condition:

- `CallsReturn` fails in `write_path` with `Sequential = FALSE`: the second of two overlapping calls
  overwrites the Deferred of the first (`vfs.js:274`), which never returns; the second gets the result of the first. It fails, too,
  without its condition on rejected appends: a call that Autobee refuses waits for a
  Deferred nobody will settle (`vfs.js:283`).
- `BytesKept` fails in `page_files` when a byte that is not written must keep its value (`KeptBut` with
  `{ByteNow(f, n)}` alone): `_get` looks at the store only, so the second of two partial writes of a journal
  page drops the first (`vfs.js:487`). What was flushed before is kept, and that is what `BytesKept` says.
- `OneLivePerSql` and `AllFinalized` fail in `cache` without `~overlapped`: two overlapping misses of one SQL
  give two statements (`index.js:132`), of which the replaced one is not finalized; neither is one that is
  cached while close is under way (`index.js:67`). README.md:161 promises the cached one.
  `CacheBound` fails without it when moreover `cacheSize = 1`: two prepares evict one entry (`index.js:136`).
- `BufferIntact` of `PageFiles` is an invariant of no run. With compression it says nothing, as deflate copies.
  Added to `PageFiles.cfg` with `Compressed = FALSE` it fails: a whole page is handed
  to `encrypt` as a view of SQLite's own buffer, declared `const` in `binding.c:447`, and
  is XORed in place (`vfs.js:382`). Without encryption, too, the page in the batch is that view
  until the flush (`vfs.js:484`), which the model, with pages as values, does not show.
- `ViewIsReplay` fails without `direct = 0`, with the constants of `write_path_shared`: SQL that writes through
  `get`, `all` or `iterate` during an apply reaches the view and not the log (`vfs.js:372`).
- `ImplementsByteFile` fails in `page_files` with `Disciplined = {main, journal}` and
  the conjunct `Synced(f)` of `XDelete` dropped: a file that is deleted before its first sync
  comes into being, since `_xDelete` flushes the pending pages it did not delete (`vfs.js:422`).
- `flush()` reports one error more than the rows that failed, in every state
  (`FlushTotals`; `case OPERATION.STMT` at `vfs.js:160` has no `break`). Flushes that are applied in one call of `_apply`
  add up (`vfs.js:180`): `FlushTotals` is about a lone writer, of whose flushes an apply holds one.
- `OwnOutcome` and `PointersLive` fail in `statement_use` without `alone`: overlapping calls get each other's rows,
  `MISUSE`, or read names and texts that are gone; a `get()` whose statement is finalized or evicted
  meanwhile calls the binding with a null handle, which asserts (`statement.js:100`). When that statement is one apply uses,
  the row counts as failed on this instance only.
- `paraql__parse_value` has no `break` after a bigint and reads it as a string (`binding.c:1857`; `ParseValue`
  calls it "garbled"), although `statement.d.ts:35` allows bigint. `BindsExactly` fails without its exception (`Plain`) for the calls that have one.
- `ReturnsOpen` fails in `cache` with `cacheSize = 0` without its condition `cacheSize > 0`: the entry evicted is the
  statement `prepare` is about to return (`index.js:136`).
- `NoRowLost` is not stated for overlapping calls of a compressed database: two flushes that deflate at the same
  time append in the order in which deflate resolves, so the rows may reach the log in another order than that of
  the calls (`vfs.js:302`).
- A statement of empty or comment-only SQL is prepared (`binding.c:1584`), and then every `get`, `all`, `iterate` and `_run` on
  it fails, undisturbed: bind finds no handle and fails with an uninitialised message, then the reset in `finally`
  fails with "Statement has already been finalized" (`binding.c:1770`), which is what the caller gets of a
  statement that is open (`OwnOutcome`).
- `paraql__on_before_parse` answers a statement without a handle, blank or finalized, without a message: `errmsg` is
  uninitialised when `paraql__make_error` reads it (`binding.c:2243`; "unset" or "crash" in `StatementUse`).
- A key of an object of parameters is read into 256 bytes (`binding.c:2195`): a longer one is cut, and refused even if
  the statement has that parameter. Not in the model. `paraql__cancel_bind` leaves two references.
- `ListIntact` and `NoUseAfterFree` fail in `statement_list` without `~overlapped`: two prepares, or a prepare and a
  finalize, of the application and apply at the same time lose a statement or leave a
  freed one on the list (`binding.c:1055`); so does the collector's job beside either.
- `OwnVfsOneByOne`, `AppliedIsStored` and `NoDeadVfs` fail in `instances` without any one of the mishaps they
  except: an apply that runs while `close()` destroys the VFS calls it, or finds a NULL connection, gets
  MISUSE, and counts the operation as applied (`vfs.js:142`); a statement lost from the cache keeps the connection and
  calls the destroyed VFS. An EXEC that is applied before `_handle` is set ends in an assertion
  (fault "assert"; `vfs.js:140`).
- `paraql__on_after_open` reads the message of a failed open after `paraql__on_before_open` closed the connection (`binding.c:1271`).

## 4. Fairness

- `WritePath`: weak fairness of apply, deflate and return. The event loop runs
  what is ready and Autobee applies what was appended. No fairness on calls, on other
  writers or on direct writes.
- `VfsBridge`: weak fairness of taking a job and of each request's next step: threads are
  scheduled, and a released mutex or posted semaphore is taken, since the waiters are bounded.
  None on the binding calls.
- `StatementCache`: weak fairness of what the binding and the event loop finish
  (that requests settle is `EveryRequestSettles`). None on prepare, finalize, close.
- `StatementUse`: weak fairness of the next half of each call. None on calls, on finalize,
  or on the consumer of `iterate`, which may keep a row and never ask for the next.
- `Instances`: weak fairness of each instance's own next step (opening, closing, applying).
  None on `ready()`, `close()`, reopening, arrivals, or on an open that fails.

`CallsReturn` of `WritePath` promises nothing to a call whose append was refused, or
once apply threw: the code does not either (`vfs.js:283` waits for the Deferred first).

## 5. Proofs

Every invariant and action property of the passing runs is the statement of a theorem, each as
`Spec => []Inv` (or `Spec => P`) for all values of the constants that the named ASSUMEs of the module admit.
Each proof module begins with the inductive invariant `IInv`; the properties seldom are inductive
themselves. One lemma per action shows that it keeps `IInv`, with one step per conjunct.

`VfsBridgeProofs` proves, for any number of requests, connections, VFSes and pool threads,
and for handlers with and without zlib:

| Theorem | Statement |
| --- | --- |
| `Inductive` | `Spec => []IInv` |
| `TypeCorrect` | `Spec => []TypeOK` |
| `CompletionIsOwn` | `Spec => []OwnCompletion` |
| `RecordsOutliveHandlers` | `Spec => []CallerWaits` |
| `Outstanding` | `Spec => []OneOutstanding` |

Assumptions: `BridgeAssumption` (the types of the constants) and `OneConnectionPerVfs`. The
argument: none of the safety properties is inductive, since the semaphore does not
know whom it was posted for. `IInv` adds

- `MutexHeld`: a connection's mutex is held by exactly the request inside SQLite;
- `RecordLives`: a request has a record in flight only while it is in or just past the wait,
  and is awake only when the record is done;
- `SemCounts`: the semaphore of a VFS is one when a request on it waits with
  a finished record, else zero;
- `PoolTracks`: an entry of the pool's queue belongs to a queued request or to a
  pooled record, and is there once.

A post can only reach its own worker because two requests of one VFS would be
inside SQLite on one connection (`OneConnectionPerVfs`), whose mutex has one owner
(`MutexHeld`): lemma `OneInside`. One lemma per action shows that it keeps `IInv`; `NextIInv`
joins them.

`InstancesProofs` proves, for any number of instances, operations and reopenings:

| Theorem | Statement |
| --- | --- |
| `Inductive` | `Spec => []IInv` |
| `OwnVfsHolds` | `Spec => []OwnVfsOneByOne` |
| `AppliedIsStoredHolds` | `Spec => []AppliedIsStored` |
| `NoDeadVfsHolds` | `Spec => []NoDeadVfs` |
| `NoNullHandleHolds` | `Spec => []NoNullHandle` |

Assumption: `InstancesAssumption` (the types of the constants). Whose VFS a connection uses
is decided at one step and used much later, so `IInv` says where an instance may be while
something of it is in use:

- `Registry`: a VFS is registered exactly while its Autobee runs, with a stamp that was given out;
- `OneByOne`: without the mishap `opens` one instance opens at a time, its stamp is then the
  highest, and every connection calls its own VFS;
- `Connection`: it is open exactly from `binding.open` to `binding.close`; it lives on after
  that only with a mishap;
- `Applying`: an apply waits while the instance opens; one that was handed to the pool finds
  the instance open, unless the mishap `busy` happened.

`TypesCorrect` (`Spec => []TypeOK`) moreover needs that `sqlite3_vfs_find` finds a registered VFS
whenever an instance opens (`FoundWorks`): a finite stock of stamps has a highest one.

`BindParamsProofs`: `ParseIsIntended` says that `Parse(names, Handed(named), HandedAll(positional))` is
`Intended(names, named, positional)` for a statement with any number of parameters and any values but
bigints. `Scan` is a recursive function, and the library's induction theorems cannot be
instantiated; `SetInduction`, induction stated about a set of naturals, follows from their being well founded
and takes its place. `ScanInvariant` is what the loop has after each parameter.

`StatementUseProofs` (assumption: `StatementUseAssumption`, the types of the constants) extends it:

| Theorem | Statement |
| --- | --- |
| `TypesCorrect` | `Spec => []TypeOK` |
| `BindsExactlyAlways` | `Spec => []BindsExactly` |
| `OwnOutcomeAlways` | `Spec => []OwnOutcome` |
| `PointersLiveAlways` | `Spec => []PointersLive` |
| `CleanWhenIdleAlways` | `Spec => []CleanWhenIdle` |

`IInv` adds that a call which is alone finds the statement open and all others idle (`Solo`), where in its
execution the statement then is at each step of the call and which rows the call has (`OwnStatement`), that whoever
leaves the statement bound or stepped has its reset to come (`Soiled`), and that on a blank statement no call gets
past bind (`OnBlank`).

`StatementCacheProofs` (assumption: `StatementCacheAssumption`):

| Theorem | Statement |
| --- | --- |
| `TypesCorrect` | `Spec => []TypeOK` |
| `HitsAreLiveAlways` | `Spec => []HitsAreLive` |
| `CacheBoundAlways` | `Spec => []CacheBound` |
| `OneLivePerSqlAlways` | `Spec => []OneLivePerSql` |
| `AllFinalizedAlways` | `Spec => []AllFinalized` |
| `LeastRecentFirstAlways` | `Spec => []LeastRecentFirst` |
| `ReturnsOpenAlways` | `Spec => ReturnsOpen`, an action property |

`HitsAreLive`, which holds whatever overlaps, needs that a statement is cached under its own SQL only (`Keyed`) and
is opened by one caller (`Openers`). The rest holds until calls overlap: then every statement that is open or
closing is cached (`AllCached`), closes only while somebody waits for it (`Awaited`), and one
entry too many is there only while an eviction takes one out (`Room`).

`WritePathProofs` (assumptions: `WritePathAssumption`, `NullAssumption`):

| Theorem | Statement |
| --- | --- |
| `TypesCorrect` | `Spec => []TypeOK` |
| `ResultIsOwnAloneAlways` | `Spec => []ResultIsOwnAlone` |
| `FlushTotalsAlways` | `Spec => []FlushTotals` |
| `NoRowLostAlways` | `Spec => []NoRowLost` |
| `ViewIsReplayAlways` | `Spec => []ViewIsReplay` |
| `AckedAfterApplyAlways` | `Spec => AckedAfterApply`, an action property |

`AckedAfterApply` rests on `Promises` alone: an append is done only when its batch is in the applied
part of the log. The results of a lone writer need the shape of a batch (`LogFormed`), that the log holds each
call's batch once and as sent (`LogOnce`, `OwnSent`), and that what is not yet applied belongs to the call in progress
(`Own`), so that the Deferred in the slot is that of the operation being applied. `NoRowLost` is inductive with the
rows in deflate counted (`RowsKept`). The replay needs that the view is never ahead of apply (`Behind`) and never behind
it (`Caught`), also after a batch of another writer cuts it back.

`StatementListProofs` (assumption: `StatementListAssumption`, finitely many statements):

| Theorem | Statement |
| --- | --- |
| `NoUseAfterFreeAlways` | `Spec => []NoUseAfterFree` |
| `FinalizedOnceAlways` | `Spec => []FinalizedOnce` |
| `ListIntactAlways` | `Spec => []ListIntact` |

`Jobs`, `OneOwner`, `Lives`, `Owned` and `Spent` hold whatever overlaps: how the places of the jobs go with what
JavaScript still knows of their statements, and that no handle is finalized twice. Until jobs overlap one is under way
(`Single`), and `Shape` says for each place it may be at how far `prev`, `next` and `db->statements` are from the list they
will be. That a list has no cycle is not a fact about neighbours, so `Threaded` asserts a ranking of
the statements that goes up along `next`; `WalkMeetsAll` derives from it that the walk of
`ListIntact` meets every statement and ends.

`PageFilesProofs` (assumptions: `PageFilesAssumption` and `MarkersAssumption`: a batch is not NULL, a page not DELETED):

| Theorem | Statement |
| --- | --- |
| `TypesCorrect` | `Spec => []TypeOK` |
| `PagesProtectedAlways` | `Spec => []PagesProtected` |
| `BytesKeptAlways` | `Spec => BytesKept`, an action property, for disciplined clients and others |
| `PagesImplementBytes` | `Spec => ImplementsByteFile`, the refinement |

`IInv` says that the store and the batch of a file are maps from its indices to pages under its layers (`PageMap`), so
that `_get` never fails and returns the bytes that were put (`GetFacts`). For the refinement the
contents of a file are the pages of its store with its batch over them (`LatestIs`), compared byte by byte: `OverByte` is the
read-modify-write of `_xWrite`, `RoundUpIs` and `OverPages` are where the file ends. `WriteRefines`, `TruncateRefines`,
`SyncRefines` and the others map one method each to its step of `ByteFile`; a method on a file that is not disciplined
is a stutter (`UndisciplinedRefines`). `BytesKept` is about those too: `WriteKeeps`, `TruncateKeeps`, `SyncKeeps` and `DeleteClears`
say of one method each what becomes of a byte that it does not cover. That the client is disciplined in the files it is
stated for (`Clean`, `Synced`) is part of `Next`, as in the run.

Only model-checked: liveness, which needs fairness and ENABLED (`EveryRequestSettles`, `OpensAndCloses`, and `CallsReturn` of
three modules). TLC also evaluates every ASSUME on the constants of the runs.

## 6. Not modelled, and what is left

Done: `WritePath`, `VfsBridge`, `Instances`, `ByteFile` and `PageFiles`, `StatementCache`, `StatementUse` with
`BindParams`, `StatementList`, each with its proofs. Left, in this order:

1. The weaker results of overlapping calls beside `AckedAfterApply` (`write_path_shared`), and pages that share
   memory with SQLite's buffer (`vfs.js:484`).
2. Two statements of one connection, for the counts that `run` reads after the mutex was left
   (`binding.c:2570`) and the messages of `sqlite3_errmsg` (`binding.c:1460`).

Not modelled: several replicating instances, since logs, their order and the re-applying of them are Autobee's,
outside the repository; what ParaQL adds, that apply is a function of the log, is
`ViewIsReplay` and `AppliedAsLogged`. The clock that SQLite sees is the local one (`binding.c:914`), so
that `CURRENT_TIMESTAMP` in logged SQL differs between instances; SQL is abstract here. SQLite's pager and its page
cache, which a reorder changes the file under, belong to SQLite. `compact` and `info` are storage I/O without
state of ParaQL; the conversion of columns to JavaScript values and of error codes to errors keeps no state.
