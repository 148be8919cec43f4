--------------------------- MODULE VfsBridgeProofs ---------------------------
(***************************************************************************)
(* Proofs about VfsBridge, for every number of requests, connections, VFSs *)
(* and pool threads: the one semaphore of a VFS wakes the right worker.    *)
(*                                                                         *)
(* OwnCompletion is not inductive: it needs to know whose post the         *)
(* semaphore holds.  IInv says that a request waits on the semaphore only  *)
(* while it owns the mutex of its connection (MutexHeld), that its record  *)
(* exists only then (RecordLives), and that the semaphore is one exactly   *)
(* when some waiter's record is filled (SemCounts).  Two waiters of one    *)
(* VFS would own one mutex, so the waiter that wakes is the filled one.    *)
(***************************************************************************)
EXTENDS VfsBridge, TLAPS

Inside == {"locked", "sem", "awake"}

MutexHeld == \A r \in Reqs : pc[r] \in Inside <=> mutex[ConnOf[r]] = r

RecordLives ==
  \A r \in Reqs :
    /\ stage[r] # "none" => pc[r] \in {"sem", "awake"}
    /\ pc[r] = "awake" => stage[r] = "done"

\* Request r waits on the semaphore of v and its record is filled.
Posted(r, v) == Vfs(r) = v /\ pc[r] = "sem" /\ stage[r] = "done"

SemCounts ==
  \A v \in Vfses :
    /\ sem[v] \in {0, 1}
    /\ sem[v] = 1 <=> \E r \in Reqs : Posted(r, v)

\* The pool holds a request only while it is queued, a zlib job only while its
\* record is at the pool, and nothing twice.
PoolTracks ==
  /\ \A i \in 1..Len(pool) :
       /\ pool[i].job = "work" => pc[pool[i].req] = "queued"
       /\ pool[i].job = "zlib" => stage[pool[i].req] = "pooled"
  /\ \A i, j \in 1..Len(pool) : pool[i] = pool[j] => i = j

IInv == TypeOK /\ MutexHeld /\ RecordLives /\ SemCounts /\ PoolTracks

-----------------------------------------------------------------------------
\* Two requests of one VFS that are both inside SQLite are the same request:
\* their connection is the same, and so is the owner of its mutex.
LEMMA OneInside ==
  ASSUME MutexHeld, NEW q \in Reqs, NEW r \in Reqs,
         Vfs(q) = Vfs(r), pc[q] \in Inside, pc[r] \in Inside
  PROVE  q = r
  BY BridgeAssumption, OneConnectionPerVfs DEF MutexHeld, Vfs

\* A step that moves no post and no filled record keeps SemCounts.
LEMMA SemUntouched ==
  ASSUME SemCounts, sem' = sem,
         \A q \in Reqs : pc'[q] = "sem" /\ stage'[q] = "done" <=> pc[q] = "sem" /\ stage[q] = "done"
  PROVE  SemCounts'
  BY DEF SemCounts, Posted, Vfs

\* Every job in the pool is the job of some request.
LEMMA PoolOfRequests ==
  ASSUME TypeOK, NEW i \in 1..Len(pool)
  PROVE  pool[i] \in Jobs /\ pool[i].req \in Reqs
  <1>1. pool[i] \in Jobs
    BY DEF TypeOK
  <1>2. QED
    BY <1>1 DEF Jobs

\* Queueing a job that the pool does not hold keeps PoolTracks, when the
\* requests whose jobs it holds stay where they are.
LEMMA PoolAppend ==
  ASSUME TypeOK, PoolTracks, NEW j \in Jobs, pool' = Append(pool, j),
         \A i \in 1..Len(pool) : pool[i] # j,
         j.job = "work" => pc'[j.req] = "queued",
         j.job = "zlib" => stage'[j.req] = "pooled",
         \A q \in Reqs : pc[q] = "queued" => pc'[q] = "queued",
         \A q \in Reqs : stage[q] = "pooled" => stage'[q] = "pooled"
  PROVE  PoolTracks'
  <1>1. pool \in Seq(Jobs) /\ \A i \in 1..Len(pool) : pool[i].req \in Reqs
    BY PoolOfRequests DEF TypeOK
  <1>2. /\ Len(pool') = Len(pool) + 1 /\ Len(pool) \in Nat
        /\ \A i \in 1..Len(pool) : pool'[i] = pool[i]
        /\ pool'[Len(pool) + 1] = j
    BY <1>1
  <1>3. QED
    BY <1>1, <1>2 DEF PoolTracks

\* The same for a step that leaves the pool alone.
LEMMA PoolUntouched ==
  ASSUME TypeOK, PoolTracks, pool' = pool,
         \A q \in Reqs : pc[q] = "queued" => pc'[q] = "queued",
         \A q \in Reqs : stage[q] = "pooled" => stage'[q] = "pooled"
  PROVE  PoolTracks'
  <1>1. \A i \in 1..Len(pool) : pool[i].req \in Reqs
    BY PoolOfRequests
  <1>2. QED
    BY <1>1 DEF PoolTracks

\* The initial state satisfies the inductive invariant.
LEMMA InitIInv == Init => IInv
  <1> SUFFICES ASSUME Init PROVE IInv
    OBVIOUS
  <1>1. TypeOK
    BY BridgeAssumption DEF Init, TypeOK, PCs, Stages
  <1>2. MutexHeld
    BY BridgeAssumption DEF Init, MutexHeld, Inside
  <1>3. RecordLives
    BY DEF Init, RecordLives
  <1>4. SemCounts
    BY DEF Init, SemCounts, Posted
  <1>5. PoolTracks
    BY DEF Init, PoolTracks
  <1>6. QED
    BY <1>1, <1>2, <1>3, <1>4, <1>5 DEF IInv

\* A binding call queues a request that was idle.
LEMMA SubmitKeepsIInv ==
  ASSUME IInv, NEW r \in Reqs, NEW calls \in SUBSET Nat, NEW p \in Nat, Submit(r, calls, p)
  PROVE  IInv'
  <1> USE BridgeAssumption DEF IInv
  <1>1. TypeOK'
    BY DEF Submit, TypeOK, PCs, Stages, Jobs, Work, Zlib
  <1>2. MutexHeld'
    BY DEF Submit, TypeOK, MutexHeld, Inside
  <1>3. RecordLives'
    BY DEF Submit, TypeOK, RecordLives
  <1>4. SemCounts'
    BY SemUntouched DEF Submit, TypeOK, RecordLives
  <1>5. PoolTracks'
    <2>1. Work(r) \in Jobs /\ \A i \in 1..Len(pool) : pool[i] # Work(r)
      BY DEF Submit, PoolTracks, Jobs, Work, Zlib
    <2>2. QED
      BY <2>1, PoolAppend DEF Submit, TypeOK, Work, Zlib
  <1>6. QED
    BY <1>1, <1>2, <1>3, <1>4, <1>5

\* A request that enters the mutex becomes its only owner.
LEMMA EnterKeepsIInv ==
  ASSUME IInv, NEW r \in Reqs, Enter(r)
  PROVE  IInv'
  <1> USE BridgeAssumption DEF IInv
  <1>1. TypeOK'
    <2>1. ConnOf[r] \in Conns
      OBVIOUS
    <2>2. mutex' \in [Conns -> Reqs \cup {NoReq}]
      BY <2>1 DEF Enter, TypeOK
    <2>3. apis' \in [Reqs -> Nat]
      BY DEF Enter, TypeOK
    <2>4. QED
      BY <2>2, <2>3 DEF Enter, TypeOK, PCs
  <1>2. MutexHeld'
    <2> SUFFICES ASSUME NEW q \in Reqs
                 PROVE  pc'[q] \in Inside <=> mutex'[ConnOf[q]] = q
      BY DEF MutexHeld
    <2>1. ConnOf[q] \in Conns /\ ConnOf[r] \in Conns
      OBVIOUS
    <2>2. mutex'[ConnOf[q]] = IF ConnOf[q] = ConnOf[r] THEN r ELSE mutex[ConnOf[q]]
      BY <2>1 DEF Enter, TypeOK
    <2>3. CASE q = r
      BY <2>2, <2>3 DEF Enter, TypeOK, Inside
    <2>4. CASE q # r
      BY <2>2, <2>4 DEF Enter, TypeOK, MutexHeld, Inside
    <2>5. QED
      BY <2>3, <2>4
  <1>3. RecordLives'
    BY DEF Enter, TypeOK, RecordLives
  <1>4. SemCounts'
    BY SemUntouched DEF Enter, TypeOK, RecordLives
  <1>5. PoolTracks'
    BY PoolUntouched DEF Enter, TypeOK
  <1>6. QED
    BY <1>1, <1>2, <1>3, <1>4, <1>5

\* A VFS call puts the record of its own worker at the first stage.
LEMMA CallVfsKeepsIInv ==
  ASSUME IInv, NEW r \in Reqs, NEW fn, CallVfs(r, fn)
  PROVE  IInv'
  <1> USE BridgeAssumption DEF IInv
  <1>1. TypeOK'
    BY DEF CallVfs, TypeOK, PCs, Stages, Jobs, Work, Zlib
  <1>2. MutexHeld'
    BY DEF CallVfs, TypeOK, MutexHeld, Inside
  <1>3. RecordLives'
    BY DEF CallVfs, TypeOK, RecordLives
  <1>4. SemCounts'
    BY SemUntouched DEF CallVfs, TypeOK, RecordLives
  <1>5. PoolTracks'
    BY PoolUntouched DEF CallVfs, TypeOK, RecordLives
  <1>6. QED
    BY <1>1, <1>2, <1>3, <1>4, <1>5

\* The worker that returns from a VFS call drops its own record.
LEMMA ResumeKeepsIInv ==
  ASSUME IInv, NEW r \in Reqs, Resume(r)
  PROVE  IInv'
  <1> USE BridgeAssumption DEF IInv
  <1>1. TypeOK'
    BY DEF Resume, TypeOK, PCs, Stages, Jobs, Work, Zlib
  <1>2. MutexHeld'
    BY DEF Resume, TypeOK, MutexHeld, Inside
  <1>3. RecordLives'
    BY DEF Resume, TypeOK, RecordLives
  <1>4. SemCounts'
    BY SemUntouched DEF Resume, TypeOK, RecordLives
  <1>5. PoolTracks'
    BY PoolUntouched DEF Resume, TypeOK, RecordLives
  <1>6. QED
    BY <1>1, <1>2, <1>3, <1>4, <1>5

\* Leaving the mutex frees it: the request was its owner.
LEMMA LeaveKeepsIInv ==
  ASSUME IInv, NEW r \in Reqs, Leave(r)
  PROVE  IInv'
  <1> USE BridgeAssumption DEF IInv
  <1>1. TypeOK'
    <2>1. ConnOf[r] \in Conns
      OBVIOUS
    <2>2. mutex' \in [Conns -> Reqs \cup {NoReq}]
      BY <2>1 DEF Leave, TypeOK
    <2>3. apis' \in [Reqs -> Nat]
      BY DEF Leave, TypeOK
    <2>4. QED
      BY <2>2, <2>3 DEF Leave, TypeOK, PCs
  <1>2. MutexHeld'
    <2> SUFFICES ASSUME NEW q \in Reqs
                 PROVE  pc'[q] \in Inside <=> mutex'[ConnOf[q]] = q
      BY DEF MutexHeld
    <2>1. ConnOf[q] \in Conns /\ ConnOf[r] \in Conns
      OBVIOUS
    <2>2. mutex'[ConnOf[q]] = IF ConnOf[q] = ConnOf[r] THEN NoReq ELSE mutex[ConnOf[q]]
      BY <2>1 DEF Leave, TypeOK
    <2>3. CASE q = r
      BY <2>2, <2>3 DEF Leave, TypeOK, Inside
    <2>4. CASE q # r
      BY <2>2, <2>4 DEF Leave, TypeOK, MutexHeld, Inside
    <2>5. QED
      BY <2>3, <2>4
  <1>3. RecordLives'
    BY DEF Leave, TypeOK, RecordLives
  <1>4. SemCounts'
    BY SemUntouched DEF Leave, TypeOK, RecordLives
  <1>5. PoolTracks'
    BY PoolUntouched DEF Leave, TypeOK
  <1>6. QED
    BY <1>1, <1>2, <1>3, <1>4, <1>5

\* The before half of a request ends outside the mutex.
LEMMA FinishKeepsIInv ==
  ASSUME IInv, NEW r \in Reqs, Finish(r)
  PROVE  IInv'
  <1> USE BridgeAssumption DEF IInv
  <1>1. TypeOK'
    BY DEF Finish, TypeOK, PCs, Stages, Jobs, Work, Zlib
  <1>2. MutexHeld'
    BY DEF Finish, TypeOK, MutexHeld, Inside
  <1>3. RecordLives'
    BY DEF Finish, TypeOK, RecordLives
  <1>4. SemCounts'
    BY SemUntouched DEF Finish, TypeOK, RecordLives
  <1>5. PoolTracks'
    BY PoolUntouched DEF Finish, TypeOK
  <1>6. QED
    BY <1>1, <1>2, <1>3, <1>4, <1>5

\* A record moves to its handler.
LEMMA DispatchKeepsIInv ==
  ASSUME IInv, NEW r \in Reqs, Dispatch(r)
  PROVE  IInv'
  <1> USE BridgeAssumption DEF IInv
  <1>1. TypeOK'
    BY DEF Dispatch, TypeOK, PCs, Stages, Jobs, Work, Zlib
  <1>2. MutexHeld'
    BY DEF Dispatch, TypeOK, MutexHeld, Inside
  <1>3. RecordLives'
    BY DEF Dispatch, TypeOK, RecordLives
  <1>4. SemCounts'
    BY SemUntouched DEF Dispatch, TypeOK, RecordLives
  <1>5. PoolTracks'
    BY PoolUntouched DEF Dispatch, TypeOK
  <1>6. QED
    BY <1>1, <1>2, <1>3, <1>4, <1>5

\* A handler queues its zlib job.
LEMMA QueueZlibKeepsIInv ==
  ASSUME IInv, NEW r \in Reqs, QueueZlib(r)
  PROVE  IInv'
  <1> USE BridgeAssumption DEF IInv
  <1>1. TypeOK'
    BY DEF QueueZlib, TypeOK, PCs, Stages, Jobs, Work, Zlib
  <1>2. MutexHeld'
    BY DEF QueueZlib, TypeOK, MutexHeld, Inside
  <1>3. RecordLives'
    BY DEF QueueZlib, TypeOK, RecordLives
  <1>4. SemCounts'
    BY SemUntouched DEF QueueZlib, TypeOK, RecordLives
  <1>5. PoolTracks'
    <2>1. Zlib(r) \in Jobs /\ \A i \in 1..Len(pool) : pool[i] # Zlib(r)
      BY DEF QueueZlib, PoolTracks, Jobs, Work, Zlib
    <2>2. QED
      BY <2>1, PoolAppend DEF QueueZlib, TypeOK, Work, Zlib
  <1>6. QED
    BY <1>1, <1>2, <1>3, <1>4, <1>5

\* A zlib job ends.
LEMMA ZlibDoneKeepsIInv ==
  ASSUME IInv, NEW r \in Reqs, ZlibDone(r)
  PROVE  IInv'
  <1> USE BridgeAssumption DEF IInv
  <1>1. TypeOK'
    BY DEF ZlibDone, TypeOK, PCs, Stages, Jobs, Work, Zlib
  <1>2. MutexHeld'
    BY DEF ZlibDone, TypeOK, MutexHeld, Inside
  <1>3. RecordLives'
    BY DEF ZlibDone, TypeOK, RecordLives
  <1>4. SemCounts'
    BY SemUntouched DEF ZlibDone, TypeOK, RecordLives
  <1>5. PoolTracks'
    BY PoolUntouched DEF ZlibDone, TypeOK
  <1>6. QED
    BY <1>1, <1>2, <1>3, <1>4, <1>5

\* The after half settles a request.
LEMMA OnAfterKeepsIInv ==
  ASSUME IInv, NEW r \in Reqs, OnAfter(r)
  PROVE  IInv'
  <1> USE BridgeAssumption DEF IInv
  <1>1. TypeOK'
    BY DEF OnAfter, TypeOK, PCs, Stages, Jobs, Work, Zlib
  <1>2. MutexHeld'
    BY DEF OnAfter, TypeOK, MutexHeld, Inside
  <1>3. RecordLives'
    BY DEF OnAfter, TypeOK, RecordLives
  <1>4. SemCounts'
    BY SemUntouched DEF OnAfter, TypeOK, RecordLives
  <1>5. PoolTracks'
    BY PoolUntouched DEF OnAfter, TypeOK
  <1>6. QED
    BY <1>1, <1>2, <1>3, <1>4, <1>5

\* The second pass of a bind is queued.
LEMMA OnAfterParseKeepsIInv ==
  ASSUME IInv, NEW r \in Reqs, OnAfterParse(r)
  PROVE  IInv'
  <1> USE BridgeAssumption DEF IInv
  <1>1. TypeOK'
    <2>1. Work(r) \in Jobs
      BY DEF Jobs, Work, Zlib
    <2>2. passes' \in [Reqs -> Nat] /\ apis' \in [Reqs -> Nat]
      BY DEF OnAfterParse, TypeOK
    <2>3. pc' \in [Reqs -> PCs] /\ pool' \in Seq(Jobs)
      BY <2>1 DEF OnAfterParse, TypeOK, PCs
    <2>4. QED
      BY <2>2, <2>3 DEF OnAfterParse, TypeOK
  <1>2. MutexHeld'
    BY DEF OnAfterParse, TypeOK, MutexHeld, Inside
  <1>3. RecordLives'
    BY DEF OnAfterParse, TypeOK, RecordLives
  <1>4. SemCounts'
    BY SemUntouched DEF OnAfterParse, TypeOK, RecordLives
  <1>5. PoolTracks'
    <2>1. Work(r) \in Jobs /\ \A i \in 1..Len(pool) : pool[i] # Work(r)
      BY DEF OnAfterParse, PoolTracks, Jobs, Work, Zlib
    <2>2. QED
      BY <2>1, PoolAppend DEF OnAfterParse, TypeOK, Work, Zlib
  <1>6. QED
    BY <1>1, <1>2, <1>3, <1>4, <1>5

\* A pool thread takes the first job: the pool held it once, so no other entry
\* speaks of the request or the record that moves on.
LEMMA TakeJobKeepsIInv ==
  ASSUME IInv, TakeJob
  PROVE  IInv'
  <1> USE BridgeAssumption DEF IInv
  <1> DEFINE h == Head(pool)
  <1>1. /\ pool \in Seq(Jobs) /\ pool # <<>> /\ Len(pool) \in Nat \ {0}
        /\ h = pool[1] /\ h \in Jobs /\ h.req \in Reqs
    <2>1. pool \in Seq(Jobs) /\ pool # <<>> /\ Len(pool) \in Nat \ {0} /\ h = pool[1]
      BY DEF TakeJob, TypeOK
    <2>2. QED
      BY <2>1, PoolOfRequests
  <1>2. /\ Len(pool') = Len(pool) - 1
        /\ \A i \in 1..Len(pool') : i + 1 \in 1..Len(pool) /\ pool'[i] = pool[i + 1]
    BY <1>1 DEF TakeJob
  <1>3. /\ h.job = "work" => pc[h.req] = "queued"
        /\ h.job = "zlib" => stage[h.req] = "pooled"
        /\ h.job \in {"work", "zlib"}
    BY <1>1 DEF PoolTracks, Jobs
  <1>4. /\ h.job = "work" => pc' = [pc EXCEPT ![h.req] = "run"] /\ stage' = stage
        /\ h.job = "zlib" => stage' = [stage EXCEPT ![h.req] = "working"] /\ pc' = pc
    BY DEF TakeJob
  <1>5. TypeOK'
    <2>1. pc' \in [Reqs -> PCs] /\ stage' \in [Reqs -> Stages]
      BY <1>1, <1>3, <1>4 DEF TypeOK, PCs, Stages
    <2>2. pool' \in Seq(Jobs) /\ busy' \in SUBSET Jobs
      BY <1>1 DEF TakeJob, TypeOK
    <2>3. QED
      BY <2>1, <2>2 DEF TakeJob, TypeOK
  <1>6. MutexHeld'
    BY <1>1, <1>3, <1>4 DEF TakeJob, TypeOK, MutexHeld, Inside
  <1>7. RecordLives'
    BY <1>1, <1>3, <1>4 DEF TakeJob, TypeOK, RecordLives
  <1>8. SemCounts'
    BY <1>1, <1>3, <1>4, SemUntouched DEF TakeJob, TypeOK
  <1>9. PoolTracks'
    <2>1. \A i, j \in 1..Len(pool') : pool'[i] = pool'[j] => i = j
      BY <1>1, <1>2 DEF PoolTracks
    <2>2. ASSUME NEW i \in 1..Len(pool')
          PROVE  /\ pool'[i].job = "work" => pc'[pool'[i].req] = "queued"
                 /\ pool'[i].job = "zlib" => stage'[pool'[i].req] = "pooled"
      <3>1. i + 1 \in 1..Len(pool) /\ pool'[i] = pool[i + 1] /\ pool[i + 1] # h
        BY <1>1, <1>2 DEF PoolTracks
      <3>2. pool[i + 1] \in Jobs /\ pool[i + 1].req \in Reqs
        BY <3>1, PoolOfRequests
      <3>3. pool[i + 1].job = h.job => pool[i + 1].req # h.req
        BY <3>1, <3>2, <1>1 DEF Jobs
      <3>4. /\ pool[i + 1].job = "work" => pc[pool[i + 1].req] = "queued"
            /\ pool[i + 1].job = "zlib" => stage[pool[i + 1].req] = "pooled"
        BY <3>1 DEF PoolTracks
      <3>5. pool[i + 1].job = "work" => pc'[pool[i + 1].req] = "queued"
        BY <3>2, <3>3, <3>4, <1>1, <1>3, <1>4 DEF TypeOK
      <3>6. pool[i + 1].job = "zlib" => stage'[pool[i + 1].req] = "pooled"
        BY <3>2, <3>3, <3>4, <1>1, <1>3, <1>4 DEF TypeOK
      <3>7. QED
        BY <3>1, <3>5, <3>6
    <2>3. QED
      BY <2>1, <2>2 DEF PoolTracks
  <1>10. QED
    BY <1>5, <1>6, <1>7, <1>8, <1>9

\* done fills a record and posts: before it no waiter of that VFS was filled,
\* because the only one inside SQLite is the one whose record this is.
LEMMA OnDoneKeepsIInv ==
  ASSUME IInv, NEW r \in Reqs, OnDone(r)
  PROVE  IInv'
  <1> USE BridgeAssumption DEF IInv
  <1>1. Vfs(r) \in Vfses
    BY DEF Vfs
  <1>2. pc[r] = "sem" /\ stage[r] \in {"ready", "handler"}
    BY DEF OnDone, RecordLives
  <1>3. ~ \E q \in Reqs : Posted(q, Vfs(r))
    <2>1. ASSUME NEW q \in Reqs, Posted(q, Vfs(r))
          PROVE  FALSE
      <3>1. q = r
        BY <1>2, <2>1, OneInside DEF Posted, Inside
      <3>2. QED
        BY <1>2, <2>1, <3>1 DEF Posted
    <2>2. QED
      BY <2>1
  <1>4. sem[Vfs(r)] = 0
    BY <1>1, <1>3 DEF SemCounts
  <1>5. sem' = [sem EXCEPT ![Vfs(r)] = 1]
    BY <1>1, <1>4 DEF OnDone, TypeOK
  <1>6. TypeOK'
    BY <1>1, <1>5 DEF OnDone, TypeOK, Stages
  <1>7. MutexHeld'
    BY DEF OnDone, MutexHeld
  <1>8. RecordLives'
    BY <1>2 DEF OnDone, TypeOK, RecordLives
  <1>9. SemCounts'
    <2> SUFFICES ASSUME NEW v \in Vfses
                 PROVE  /\ sem'[v] \in {0, 1}
                        /\ sem'[v] = 1 <=> \E q \in Reqs : Posted(q, v)'
      BY DEF SemCounts
    <2>1. CASE v = Vfs(r)
      <3>1. Posted(r, v)'
        BY <1>2, <2>1 DEF OnDone, TypeOK, Posted, Vfs
      <3>2. QED
        BY <1>5, <2>1, <3>1 DEF TypeOK
    <2>2. CASE v # Vfs(r)
      <3>1. \A q \in Reqs : Posted(q, v)' <=> Posted(q, v)
        BY <2>2 DEF OnDone, TypeOK, Posted, Vfs
      <3>2. sem'[v] = sem[v]
        BY <1>5, <2>2 DEF TypeOK
      <3>3. QED
        BY <3>1, <3>2 DEF SemCounts
    <2>3. QED
      BY <2>1, <2>2
  <1>10. PoolTracks'
    BY <1>2, PoolUntouched DEF OnDone, TypeOK
  <1>11. QED
    BY <1>6, <1>7, <1>8, <1>9, <1>10

\* The waiter that uv_sem_wait lets through is the one whose record is filled.
LEMMA WakesOwn ==
  ASSUME IInv, NEW r \in Reqs, Wake(r)
  PROVE  stage[r] = "done" /\ sem[Vfs(r)] = 1 /\ Vfs(r) \in Vfses
  <1>1. Vfs(r) \in Vfses
    BY BridgeAssumption DEF Vfs
  <1>2. sem[Vfs(r)] = 1
    BY <1>1 DEF Wake, IInv, SemCounts
  <1>3. PICK q \in Reqs : Posted(q, Vfs(r))
    BY <1>1, <1>2 DEF IInv, SemCounts
  <1>4. q = r
    BY <1>3, OneInside DEF IInv, Wake, Posted, Inside
  <1>5. QED
    BY <1>1, <1>2, <1>3, <1>4 DEF Posted

\* Waking takes the post of its own record.
LEMMA WakeKeepsIInv ==
  ASSUME IInv, NEW r \in Reqs, Wake(r)
  PROVE  IInv'
  <1> USE BridgeAssumption DEF IInv
  <1>1. pc[r] = "sem" /\ stage[r] = "done" /\ sem[Vfs(r)] = 1 /\ Vfs(r) \in Vfses
    BY WakesOwn DEF Wake
  <1>2. sem' = [sem EXCEPT ![Vfs(r)] = 0]
    BY <1>1 DEF Wake, TypeOK
  <1>3. TypeOK'
    BY <1>1, <1>2 DEF Wake, TypeOK, PCs
  <1>4. MutexHeld'
    BY <1>1 DEF Wake, TypeOK, MutexHeld, Inside
  <1>5. RecordLives'
    BY <1>1 DEF Wake, TypeOK, RecordLives
  <1>6. SemCounts'
    <2> SUFFICES ASSUME NEW v \in Vfses
                 PROVE  /\ sem'[v] \in {0, 1}
                        /\ sem'[v] = 1 <=> \E q \in Reqs : Posted(q, v)'
      BY DEF SemCounts
    <2>1. CASE v = Vfs(r)
      <3>1. ASSUME NEW q \in Reqs, Posted(q, v)'
            PROVE  FALSE
        <4>1. pc'[q] = "sem" /\ Vfs(q) = Vfs(r)
          BY <2>1, <3>1 DEF Posted, Vfs
        <4>2. pc[q] = "sem" /\ q # r
          BY <4>1 DEF Wake, TypeOK
        <4>3. QED
          BY <1>1, <4>1, <4>2, OneInside DEF Inside
      <3>2. QED
        BY <1>2, <2>1, <3>1 DEF TypeOK
    <2>2. CASE v # Vfs(r)
      <3>1. \A q \in Reqs : Posted(q, v)' <=> Posted(q, v)
        BY <2>2 DEF Wake, TypeOK, Posted, Vfs
      <3>2. sem'[v] = sem[v]
        BY <1>2, <2>2 DEF TypeOK
      <3>3. QED
        BY <3>1, <3>2 DEF SemCounts
    <2>3. QED
      BY <2>1, <2>2
  <1>7. PoolTracks'
    BY PoolUntouched, <1>1 DEF Wake, TypeOK
  <1>8. QED
    BY <1>3, <1>4, <1>5, <1>6, <1>7

-----------------------------------------------------------------------------
\* Every step of the bridge keeps the inductive invariant.
LEMMA NextIInv == IInv /\ [Next]_vars => IInv'
  <1> SUFFICES ASSUME IInv, [Next]_vars PROVE IInv'
    OBVIOUS
  <1>1. CASE TakeJob
    BY <1>1, TakeJobKeepsIInv
  <1>2. ASSUME NEW r \in Reqs, BindingCall(r) PROVE IInv'
    <2>1. /\ 1..MaxApis \in SUBSET Nat /\ 0..1 \in SUBSET Nat /\ 0..MaxApis \in SUBSET Nat
          /\ 1 \in Nat /\ 2 \in Nat
      BY BridgeAssumption
    <2>2. QED
      BY <1>2, <2>1, SubmitKeepsIInv
         DEF BindingCall, Open, Close, Exec, Prepare, Finalize, Reset, Bind, Step, Run,
             CollectDb, CollectStatement
  <1>3. ASSUME NEW r \in Reqs, VfsCall(r) PROVE IInv'
    BY <1>3, CallVfsKeepsIInv
       DEF VfsCall, OnRead, OnWrite, OnTruncate, OnSync, OnSize, OnDelete, OnAccess
  <1>4. ASSUME NEW r \in Reqs, Progress(r) PROVE IInv'
    BY <1>3, <1>4, EnterKeepsIInv, WakeKeepsIInv, ResumeKeepsIInv, LeaveKeepsIInv,
       FinishKeepsIInv, DispatchKeepsIInv, QueueZlibKeepsIInv, ZlibDoneKeepsIInv,
       OnDoneKeepsIInv, OnAfterKeepsIInv, OnAfterParseKeepsIInv
       DEF Progress
  <1>5. CASE UNCHANGED vars
    BY <1>5 DEF vars, IInv, TypeOK, MutexHeld, RecordLives, SemCounts, Posted, Vfs, PoolTracks
  <1>6. QED
    BY <1>1, <1>2, <1>4, <1>5 DEF Next, Quiet

\* The inductive invariant holds in every reachable state of the bridge.
THEOREM Inductive == Spec => []IInv
  <1>1. QED
    BY InitIInv, NextIInv, PTL DEF Spec

\* Type correctness of the bridge.
THEOREM TypeCorrect == Spec => []TypeOK
  <1>1. IInv => TypeOK
    BY DEF IInv
  <1>2. QED
    BY <1>1, Inductive, PTL

\* For any number of requests, connections and pool threads, a VFS call of
\* binding.c returns only with the completion of its own record: one semaphore
\* per VFS is enough, given the connection mutex and one connection per VFS.
THEOREM CompletionIsOwn == Spec => []OwnCompletion
  <1>1. IInv => OwnCompletion
    BY DEF IInv, RecordLives, OwnCompletion
  <1>2. QED
    BY <1>1, Inductive, PTL

\* JavaScript never writes to a record whose worker has returned.
THEOREM RecordsOutliveHandlers == Spec => []CallerWaits
  <1>1. IInv => CallerWaits
    BY DEF IInv, RecordLives, CallerWaits
  <1>2. QED
    BY <1>1, Inductive, PTL

\* At most one record per VFS is outstanding and its semaphore counts to one.
THEOREM Outstanding == Spec => []OneOutstanding
  <1>1. ASSUME IInv PROVE OneOutstanding
    <2>1. ASSUME NEW q \in Reqs, NEW r \in Reqs, Vfs(q) = Vfs(r),
                 stage[q] # "none", stage[r] # "none"
          PROVE  q = r
      BY <1>1, <2>1, OneInside DEF IInv, RecordLives, Inside
    <2>2. \A v \in Vfses : sem[v] <= 1
      BY <1>1 DEF IInv, SemCounts
    <2>3. QED
      BY <2>1, <2>2 DEF OneOutstanding
  <1>2. QED
    BY <1>1, Inductive, PTL

=============================================================================
