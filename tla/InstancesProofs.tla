---------------------------- MODULE InstancesProofs ----------------------------
(***************************************************************************)
(* Proofs about Instances, for every number of instances, of operations    *)
(* and of stores opened again: types, a connection's VFS is its own while  *)
(* openings do not overlap, no call on a destroyed VFS, no NULL handle,    *)
(* and what counts as applied is stored.                                   *)
(*                                                                         *)
(* What makes these inductive is where an instance may be when something   *)
(* of it is in use: its connection is open exactly from binding.open to    *)
(* binding.close, its VFS is the last one registered while it is opening,  *)
(* and an apply that was handed to the pool finds the instance open.       *)
(***************************************************************************)
EXTENDS Instances, WellFoundedInduction, TLAPS

Types ==
  /\ life \in [Inst -> Lives]
  /\ registered \in Nat /\ registry \in [Inst -> Nat]
  /\ conn \in [Inst -> {"none", "open", "zombie", "closed"}]
  /\ uses = [i \in Inst |-> uses[i]]
  /\ stray \in [Inst -> BOOLEAN]
  /\ apply \in [Inst -> {"idle", "ready", "queued", "inside"}]
  /\ ops \in [Inst -> Seq({"EXEC", "RUN"})]
  /\ applied \in [Inst -> Nat]
  /\ stored \in [Inst -> Seq(Inst \X Nat)]
  /\ reopens \in Nat /\ fault \in {"none", "assert", "dead"}
  /\ mishaps \subseteq Mishaps

\* The registry holds the instances whose Autobee runs, and its positions are
\* those given out.
Registry ==
  \A i \in Inst : /\ registry[i] <= registered
                  /\ Works(i) <=> life[i] \in BeeRuns

\* One instance opens at a time; its VFS is then the one found; every
\* connection calls the VFS of its own instance.
OneByOne == "opens" \notin mishaps =>
  /\ \A i, j \in Inst : life[i] \in Opening /\ life[j] \in Opening => i = j
  /\ \A i, j \in Inst : life[i] = "vfs" /\ j # i => registry[j] < registry[i]
  /\ \A i \in Inst : conn[i] \in {"open", "zombie"} => uses[i] = i

\* Where an instance is when its connection is what it is.
Connection ==
  \A i \in Inst :
    /\ conn[i] = "open" <=> life[i] \in {"connected", "open", "shutting"}
    /\ conn[i] = "zombie" => life[i] \in {"shut", "ending", "closed"}
                               /\ mishaps \cap {"busy", "stray"} # {}
    /\ stray[i] => "stray" \in mishaps
    /\ life[i] = "failed" => "failed" \in mishaps

\* Where an instance is when its apply is where it is.
Applying ==
  \A i \in Inst :
    /\ life[i] \in {"new", "bee", "closed"} => apply[i] = "idle"
    /\ life[i] \in {"vfs", "connected", "failed"} => apply[i] \in {"idle", "ready"}
    /\ apply[i] = "inside" => conn[i] \in {"open", "zombie"}
    /\ applied[i] <= Len(ops[i]) /\ (apply[i] # "idle" => applied[i] < Len(ops[i]))
    /\ "busy" \notin mishaps /\ apply[i] \in {"queued", "inside"} => life[i] = "open"
    /\ "busy" \notin mishaps /\ apply[i] = "ready"
         => life[i] \in {"vfs", "connected", "failed", "open"}

IInv == Types /\ Registry /\ OneByOne /\ Connection /\ Applying
          /\ AppliedIsStored /\ NoDeadVfs
-----------------------------------------------------------------------------
\* ready() of an instance: an overlap with another opening becomes a mishap.
LEMMA ReadyInv ==
  ASSUME IInv, NEW i \in Inst, Ready(i)
  PROVE  IInv'
<1>1. Types'
  BY DEF IInv, Types, Mishaps, Lives, Ready, Note, natVars, logVars
<1>2. Registry'
  BY DEF IInv, Registry, Types, Works, BeeRuns, Lives, Ready, Note, natVars, logVars
<1>3. OneByOne'
  BY DEF IInv, OneByOne, Types, Registry, Connection, Works, Opening, BeeRuns, Ready,
    Note, natVars, logVars
<1>4. Connection'
  BY DEF IInv, Connection, Types, Applying, Ready, Note, natVars, logVars
<1>5. Applying'
  BY DEF IInv, Applying, Types, Connection, Opening, Ready, Note, natVars, logVars
<1>6. AppliedIsStored'
  BY DEF IInv, AppliedIsStored, Types, Own, Connection, Applying, OneByOne, Ready,
    Note, natVars, logVars
<1>7. NoDeadVfs'
  BY DEF IInv, NoDeadVfs, Types, OneByOne, Connection, Applying, Registry, Works,
    BeeRuns, Ready, Note, natVars, logVars
<1>. QED
  BY <1>1, <1>2, <1>3, <1>4, <1>5, <1>6, <1>7 DEF IInv

\* The VFS registered last has the highest stamp, so it is the one found.
LEMMA VfsInitInv ==
  ASSUME IInv, NEW i \in Inst, VfsInit(i)
  PROVE  IInv'
<1>1. Types'
  BY DEF IInv, Types, Mishaps, Lives, VfsInit, natVars, logVars
<1>2. Registry'
  BY DEF IInv, Registry, Types, Works, BeeRuns, Lives, VfsInit, natVars, logVars
<1>3. OneByOne'
  BY DEF IInv, OneByOne, Types, Registry, Connection, Works, Opening, BeeRuns,
    VfsInit, natVars, logVars
<1>4. Connection'
  BY DEF IInv, Connection, Types, Applying, VfsInit, natVars, logVars
<1>5. Applying'
  BY DEF IInv, Applying, Types, Connection, Opening, VfsInit, natVars, logVars
<1>6. AppliedIsStored' /\ NoDeadVfs'
  BY DEF IInv, AppliedIsStored, NoDeadVfs, Own, VfsInit, natVars, logVars
<1>. QED
  BY <1>1, <1>2, <1>3, <1>4, <1>5, <1>6 DEF IInv

\* With one opening at a time the VFS found is the instance's own.
LEMMA OnBeforeOpenInv ==
  ASSUME IInv, NEW i \in Inst, OnBeforeOpen(i)
  PROVE  IInv'
<1>1. Types'
  BY DEF IInv, Types, Mishaps, Lives, OnBeforeOpen, natVars, logVars
<1>2. Registry'
  BY DEF IInv, Registry, Types, Works, BeeRuns, Lives, OnBeforeOpen, natVars, logVars
<1>3. OneByOne'
  <2>1. ASSUME "opens" \notin mishaps PROVE Found = i
    <3>1. /\ registry \in [Inst -> Nat] /\ Works(i)
          /\ \A j \in Inst : j # i => registry[j] < registry[i]
      BY <2>1 DEF IInv, Types, OneByOne, Registry, BeeRuns, OnBeforeOpen
    <3>2. \A j \in Inst : registry[j] <= registry[i]
      BY <3>1
    <3>3. ASSUME NEW k \in Inst, \A j \in Inst : registry[j] <= registry[k] PROVE k = i
      BY <3>1, <3>3
    <3>. QED BY <3>1, <3>2, <3>3 DEF Found
  <2>. QED BY <2>1 DEF IInv, OneByOne, Types, Opening, OnBeforeOpen
<1>4. Connection'
  BY DEF IInv, Connection, Types, Applying, OnBeforeOpen, natVars, logVars
<1>5. Applying'
  BY DEF IInv, Applying, Types, Connection, Opening, OnBeforeOpen, natVars, logVars
<1>6. AppliedIsStored' /\ NoDeadVfs'
  BY DEF IInv, AppliedIsStored, NoDeadVfs, Own, OnBeforeOpen, natVars, logVars
<1>. QED
  BY <1>1, <1>2, <1>3, <1>4, <1>5, <1>6 DEF IInv

\* A failed open leaves a registered VFS and no connection.
LEMMA OpenFailsInv ==
  ASSUME IInv, NEW i \in Inst, OpenFails(i)
  PROVE  IInv'
<1>1. Types'
  BY DEF IInv, Types, Mishaps, Lives, OpenFails, Note, natVars, logVars
<1>2. Registry'
  BY DEF IInv, Registry, Types, Works, BeeRuns, Lives, OpenFails, Note, natVars,
    logVars
<1>3. OneByOne'
  BY DEF IInv, OneByOne, Types, Registry, Connection, Works, Opening, BeeRuns,
    OpenFails, Note, natVars, logVars
<1>4. Connection'
  BY DEF IInv, Connection, Types, Applying, OpenFails, Note, natVars, logVars
<1>5. Applying'
  BY DEF IInv, Applying, Types, Connection, Opening, OpenFails, Note, natVars, logVars
<1>6. AppliedIsStored'
  BY DEF IInv, AppliedIsStored, Types, Own, Connection, Applying, OneByOne, OpenFails,
    Note, natVars, logVars
<1>7. NoDeadVfs'
  BY DEF IInv, NoDeadVfs, Types, OneByOne, Connection, Applying, Registry, Works,
    BeeRuns, OpenFails, Note, natVars, logVars
<1>. QED
  BY <1>1, <1>2, <1>3, <1>4, <1>5, <1>6, <1>7 DEF IInv

\* The handle arrives in JavaScript.
LEMMA OnAfterOpenInv ==
  ASSUME IInv, NEW i \in Inst, OnAfterOpen(i)
  PROVE  IInv'
<1>1. Types'
  BY DEF IInv, Types, Mishaps, Lives, OnAfterOpen, natVars, logVars
<1>2. Registry'
  BY DEF IInv, Registry, Types, Works, BeeRuns, Lives, OnAfterOpen, natVars, logVars
<1>3. OneByOne'
  BY DEF IInv, OneByOne, Types, Registry, Connection, Works, Opening, BeeRuns,
    OnAfterOpen, natVars, logVars
<1>4. Connection'
  BY DEF IInv, Connection, Types, Applying, OnAfterOpen, natVars, logVars
<1>5. Applying'
  BY DEF IInv, Applying, Types, Connection, Opening, OnAfterOpen, natVars, logVars
<1>6. AppliedIsStored' /\ NoDeadVfs'
  BY DEF IInv, AppliedIsStored, NoDeadVfs, Own, OnAfterOpen, natVars, logVars
<1>. QED
  BY <1>1, <1>2, <1>3, <1>4, <1>5, <1>6 DEF IInv

\* close() begins: an apply in progress becomes a mishap.
LEMMA CloseInv ==
  ASSUME IInv, NEW i \in Inst, Close(i)
  PROVE  IInv'
<1>1. Types'
  <2>1. life' \in [Inst -> Lives]
    BY DEF IInv, Types, Lives, Close
  <2>2. registered' = registered /\ (registry' = registry \/ registry' = [registry EXCEPT ![i] = 0])
    BY DEF Close, Unregister
  <2>3. mishaps' \subseteq Mishaps
    BY DEF IInv, Types, Mishaps, Close, Note
  <2>. QED BY <2>1, <2>2, <2>3 DEF IInv, Types, Close, logVars
<1>2. Registry'
  BY DEF IInv, Registry, Types, Works, BeeRuns, Lives, Close, Note, Unregister,
    natVars, logVars
<1>3. OneByOne'
  <2>1. life'[i] \notin Opening /\ \A j \in Inst \ {i} : life'[j] = life[j]
    BY DEF IInv, Types, Opening, Close
  <2>2. \A j \in Inst : registry[j] \in Nat /\ registry'[j] \in Nat /\ registry'[j] <= registry[j]
                       /\ (j # i => registry'[j] = registry[j])
    <3>1. /\ registry \in [Inst -> Nat]
          /\ registry' = registry \/ registry' = [registry EXCEPT ![i] = 0]
      BY DEF IInv, Types, Close, Unregister
    <3>. QED BY <3>1
  <2>3. mishaps \subseteq mishaps' /\ conn' = conn /\ uses' = uses
    BY DEF Close, Note
  <2>. SUFFICES ASSUME "opens" \notin mishaps' PROVE OneByOne'
    BY DEF OneByOne
  <2>4. \A j, k \in Inst : life'[j] \in Opening /\ life'[k] \in Opening => j = k
    BY <2>1, <2>3 DEF IInv, OneByOne
  <2>5. ASSUME NEW j \in Inst, NEW k \in Inst, life'[j] = "vfs", k # j
        PROVE  registry'[k] < registry'[j]
    <3>1. j # i /\ life[j] = "vfs"
      BY <2>1, <2>5 DEF Opening
    <3>2. registry[k] < registry[j]
      BY <2>3, <2>5, <3>1 DEF IInv, OneByOne
    <3>. QED BY <2>2, <3>1, <3>2
  <2>6. \A j \in Inst : conn'[j] \in {"open", "zombie"} => uses'[j] = j
    BY <2>3 DEF IInv, OneByOne
  <2>. QED BY <2>4, <2>5, <2>6 DEF OneByOne
<1>4. Connection'
  BY DEF IInv, Connection, Types, Applying, Close, Note, Unregister, natVars, logVars
<1>5. Applying'
  BY DEF IInv, Applying, Types, Connection, Opening, Close, Note, Unregister, natVars,
    logVars
<1>6. AppliedIsStored'
  BY DEF IInv, AppliedIsStored, Types, Own, Connection, Applying, OneByOne, Close,
    Note, Unregister, natVars, logVars
<1>7. NoDeadVfs'
  BY DEF IInv, NoDeadVfs, Types, OneByOne, Connection, Applying, Registry, Works,
    BeeRuns, Close, Note, Unregister, natVars, logVars
<1>. QED
  BY <1>1, <1>2, <1>3, <1>4, <1>5, <1>6, <1>7 DEF IInv

\* sqlite3_close_v2 leaves a zombie only after a mishap.
LEMMA OnBeforeCloseInv ==
  ASSUME IInv, NEW i \in Inst, OnBeforeClose(i)
  PROVE  IInv'
<1>1. Types'
  BY DEF IInv, Types, Mishaps, Lives, OnBeforeClose, VfsCall, natVars, logVars
<1>2. Registry'
  BY DEF IInv, Registry, Types, Works, BeeRuns, Lives, OnBeforeClose, VfsCall,
    natVars, logVars
<1>3. OneByOne'
  BY DEF IInv, OneByOne, Types, Registry, Connection, Works, Opening, BeeRuns,
    OnBeforeClose, VfsCall, natVars, logVars
<1>4. Connection'
  BY DEF IInv, Connection, Types, Applying, OnBeforeClose, VfsCall, natVars, logVars
<1>5. Applying'
  BY DEF IInv, Applying, Types, Connection, Opening, OnBeforeClose, VfsCall, natVars,
    logVars
<1>6. NoDeadVfs'
  BY DEF IInv, NoDeadVfs, Types, OneByOne, Connection, Applying, Registry, Works,
    BeeRuns, OnBeforeClose, VfsCall, natVars, logVars
<1>7. AppliedIsStored'
  BY DEF IInv, AppliedIsStored, Own, OnBeforeClose, VfsCall, natVars, logVars
<1>. QED
  BY <1>1, <1>2, <1>3, <1>4, <1>5, <1>6, <1>7 DEF IInv

\* The VFS goes only when no connection is open.
LEMMA VfsDestroyInv ==
  ASSUME IInv, NEW i \in Inst, VfsDestroy(i)
  PROVE  IInv'
<1>1. Types'
  BY DEF IInv, Types, Mishaps, Lives, VfsDestroy, Unregister, natVars, logVars
<1>2. Registry'
  BY DEF IInv, Registry, Types, Works, BeeRuns, Lives, VfsDestroy, Unregister,
    natVars, logVars
<1>3. OneByOne'
  BY DEF IInv, OneByOne, Types, Registry, Connection, Works, Opening, BeeRuns,
    VfsDestroy, Unregister, natVars, logVars
<1>4. Connection'
  BY DEF IInv, Connection, Types, Applying, VfsDestroy, Unregister, natVars, logVars
<1>5. Applying'
  BY DEF IInv, Applying, Types, Connection, Opening, VfsDestroy, Unregister, natVars,
    logVars
<1>6. AppliedIsStored' /\ NoDeadVfs'
  BY DEF IInv, AppliedIsStored, NoDeadVfs, Own, VfsDestroy, Unregister, natVars,
    logVars
<1>. QED
  BY <1>1, <1>2, <1>3, <1>4, <1>5, <1>6 DEF IInv

\* Autobee closes when no apply is left.
LEMMA BeeClosedInv ==
  ASSUME IInv, NEW i \in Inst, BeeClosed(i)
  PROVE  IInv'
<1>1. Types'
  BY DEF IInv, Types, Mishaps, Lives, BeeClosed, natVars, logVars
<1>2. Registry'
  BY DEF IInv, Registry, Types, Works, BeeRuns, Lives, BeeClosed, natVars, logVars
<1>3. OneByOne'
  BY DEF IInv, OneByOne, Types, Registry, Connection, Works, Opening, BeeRuns,
    BeeClosed, natVars, logVars
<1>4. Connection'
  BY DEF IInv, Connection, Types, Applying, BeeClosed, natVars, logVars
<1>5. Applying'
  BY DEF IInv, Applying, Types, Connection, Opening, BeeClosed, natVars, logVars
<1>6. AppliedIsStored' /\ NoDeadVfs'
  BY DEF IInv, AppliedIsStored, NoDeadVfs, Own, BeeClosed, natVars, logVars
<1>. QED
  BY <1>1, <1>2, <1>3, <1>4, <1>5, <1>6 DEF IInv

\* A new instance on a store keeps what the store holds.
LEMMA ReopenInv ==
  ASSUME IInv, NEW i \in Inst, Reopen(i)
  PROVE  IInv'
<1>1. Types'
  <2>1. life' \in [Inst -> Lives] /\ reopens' \in Nat
    BY DEF IInv, Types, Lives, Reopen
  <2>2. conn' \in [Inst -> {"none", "open", "zombie", "closed"}]
          /\ stray' \in [Inst -> BOOLEAN]
    BY DEF IInv, Types, Reopen
  <2>3. uses' = [j \in Inst |-> uses'[j]]
    BY DEF IInv, Types, Reopen
  <2>. QED BY <2>1, <2>2, <2>3 DEF IInv, Types, Reopen, logVars
<1>2. Registry'
  BY DEF IInv, Registry, Types, Works, BeeRuns, Lives, Reopen, natVars, logVars
<1>3. OneByOne'
  BY DEF IInv, OneByOne, Types, Registry, Connection, Works, Opening, BeeRuns, Reopen,
    natVars, logVars
<1>4. Connection'
  BY DEF IInv, Connection, Types, Applying, Reopen, natVars, logVars
<1>5. Applying'
  BY DEF IInv, Applying, Types, Connection, Opening, Reopen, natVars, logVars
<1>6. AppliedIsStored' /\ NoDeadVfs'
  BY DEF IInv, AppliedIsStored, NoDeadVfs, Own, Reopen, natVars, logVars
<1>. QED
  BY <1>1, <1>2, <1>3, <1>4, <1>5, <1>6 DEF IInv

\* A statement is lost: a mishap.
LEMMA LoseStatementInv ==
  ASSUME IInv, NEW i \in Inst, LoseStatement(i)
  PROVE  IInv'
<1>1. Types'
  BY DEF IInv, Types, Mishaps, Lives, LoseStatement, Note, natVars, logVars
<1>2. OneByOne'
  BY DEF IInv, OneByOne, Types, Registry, Connection, Works, Opening, BeeRuns,
    LoseStatement, Note, natVars, logVars
<1>3. Connection'
  BY DEF IInv, Connection, Types, Applying, LoseStatement, Note, natVars, logVars
<1>4. Applying'
  BY DEF IInv, Applying, Types, Connection, Opening, LoseStatement, Note, natVars,
    logVars
<1>5. AppliedIsStored'
  BY DEF IInv, AppliedIsStored, Types, Own, Connection, Applying, OneByOne,
    LoseStatement, Note, natVars, logVars
<1>6. NoDeadVfs'
  BY DEF IInv, NoDeadVfs, Types, OneByOne, Connection, Applying, Registry, Works,
    BeeRuns, LoseStatement, Note, natVars, logVars
<1>7. Registry'
  BY DEF IInv, Registry, Works, LoseStatement, Note, natVars, logVars
<1>. QED
  BY <1>1, <1>2, <1>3, <1>4, <1>5, <1>6, <1>7 DEF IInv

\* A lost statement may meet a destroyed VFS, which is excepted.
LEMMA UseStrayInv ==
  ASSUME IInv, NEW i \in Inst, UseStray(i)
  PROVE  IInv'
<1>1. Types'
  BY DEF IInv, Types, Mishaps, Lives, UseStray, VfsCall, natVars, logVars
<1>2. NoDeadVfs'
  BY DEF IInv, NoDeadVfs, Types, OneByOne, Connection, Applying, Registry, Works,
    BeeRuns, UseStray, VfsCall, natVars, logVars
<1>3. Registry' /\ OneByOne' /\ Connection' /\ Applying' /\ AppliedIsStored'
  BY DEF IInv, Registry, OneByOne, Connection, Applying, AppliedIsStored, Works, Own,
    UseStray, VfsCall, natVars, logVars
<1>. QED
  BY <1>1, <1>2, <1>3 DEF IInv

\* The log grows behind what is applied.
LEMMA ArriveInv ==
  ASSUME IInv, NEW i \in Inst, NEW type \in {"EXEC", "RUN"}, Arrive(i, type)
  PROVE  IInv'
<1>1. Types'
  <2>1. ops \in [Inst -> Seq({"EXEC", "RUN"})] /\ Append(ops[i], type) \in Seq({"EXEC", "RUN"})
    BY DEF IInv, Types
  <2>2. ops' = [ops EXCEPT ![i] = Append(ops[i], type)]
    BY DEF Arrive
  <2>3. ops' \in [Inst -> Seq({"EXEC", "RUN"})]
    BY <2>1, <2>2
  <2>. QED BY <2>3 DEF IInv, Types, Arrive, natVars
<1>2. Applying'
  <2>1. ops \in [Inst -> Seq({"EXEC", "RUN"})] /\ applied \in [Inst -> Nat]
    BY DEF IInv, Types
  <2>2. ops' = [ops EXCEPT ![i] = Append(ops[i], type)]
    BY DEF Arrive
  <2>3. Len(ops[i]) \in Nat /\ Len(Append(ops[i], type)) = Len(ops[i]) + 1
    BY <2>1
  <2>4. \A j \in Inst : Len(ops[j]) \in Nat /\ Len(ops'[j]) \in Nat /\ Len(ops[j]) <= Len(ops'[j])
    BY <2>1, <2>2, <2>3
  <2>5. UNCHANGED <<life, apply, conn, applied, mishaps>>
    BY DEF Arrive, natVars
  <2>. QED BY <2>1, <2>4, <2>5 DEF IInv, Applying
<1>3. Registry' /\ OneByOne' /\ Connection' /\ AppliedIsStored' /\ NoDeadVfs'
  BY DEF IInv, Registry, OneByOne, Connection, AppliedIsStored, NoDeadVfs, Works, Own,
    Arrive, natVars, logVars
<1>. QED
  BY <1>1, <1>2, <1>3 DEF IInv

\* An EXEC goes to the pool only when the instance is open.
LEMMA ApplyExecInv ==
  ASSUME IInv, NEW i \in Inst, ApplyExec(i)
  PROVE  IInv'
<1>1. Types'
  BY DEF IInv, Types, Mishaps, Lives, ApplyExec, Note, natVars, logVars
<1>2. OneByOne'
  BY DEF IInv, OneByOne, Types, Registry, Connection, Works, Opening, BeeRuns,
    ApplyExec, Note, natVars, logVars
<1>3. Connection'
  BY DEF IInv, Connection, Types, Applying, ApplyExec, Note, natVars, logVars
<1>4. Applying'
  <2>1. Len(ops[i]) \in Nat /\ applied[i] \in Nat /\ applied[i] < Len(ops[i])
    BY DEF IInv, Types, ApplyExec
  <2>2. life[i] \in BeeRuns /\ apply'[i] \in {"idle", "ready", "queued"}
          /\ (apply'[i] = "queued" => life[i] \in {"open", "shutting", "shut"})
          /\ (apply'[i] = "ready" => life[i] \in {"vfs", "connected", "failed"})
          /\ (life[i] \in {"shutting", "shut"} => "busy" \in mishaps')
    BY DEF IInv, Types, BeeRuns, ApplyExec, Note
  <2>3. (\A j \in Inst \ {i} : apply'[j] = apply[j]) /\ mishaps \subseteq mishaps'
          /\ UNCHANGED <<life, conn, ops, applied>>
    BY DEF IInv, Types, ApplyExec, Note, natVars
  <2>. QED BY <2>1, <2>2, <2>3 DEF IInv, Applying, BeeRuns
<1>5. AppliedIsStored'
  BY DEF IInv, AppliedIsStored, Types, Own, Connection, Applying, OneByOne, ApplyExec,
    Note, natVars, logVars
<1>6. NoDeadVfs'
  BY DEF IInv, NoDeadVfs, Types, OneByOne, Connection, Applying, Registry, Works,
    BeeRuns, ApplyExec, Note, natVars, logVars
<1>7. Registry'
  BY DEF IInv, Registry, Works, ApplyExec, Note, natVars, logVars
<1>. QED
  BY <1>1, <1>2, <1>3, <1>4, <1>5, <1>6, <1>7 DEF IInv

\* A RUN waits while the instance opens.
LEMMA ApplyRunInv ==
  ASSUME IInv, NEW i \in Inst, ApplyRun(i)
  PROVE  IInv'
<1>1. Types'
  BY DEF IInv, Types, Mishaps, Lives, ApplyRun, Note, natVars, logVars
<1>2. OneByOne'
  BY DEF IInv, OneByOne, Types, Registry, Connection, Works, Opening, BeeRuns,
    ApplyRun, Note, natVars, logVars
<1>3. Connection'
  BY DEF IInv, Connection, Types, Applying, ApplyRun, Note, natVars, logVars
<1>4. Applying'
  <2>1. Len(ops[i]) \in Nat /\ applied[i] \in Nat /\ applied[i] < Len(ops[i])
    BY DEF IInv, Types, ApplyRun
  <2>2. life[i] \in BeeRuns /\ apply'[i] \in {"idle", "ready", "queued"}
          /\ (apply'[i] = "queued" => life[i] \in {"open", "shutting", "shut"})
          /\ (apply'[i] = "ready" => life[i] \in {"vfs", "connected", "failed"})
          /\ (life[i] \in {"shutting", "shut"} => "busy" \in mishaps')
    BY DEF IInv, Types, BeeRuns, ApplyRun, Note
  <2>3. (\A j \in Inst \ {i} : apply'[j] = apply[j]) /\ mishaps \subseteq mishaps'
          /\ UNCHANGED <<life, conn, ops, applied>>
    BY DEF IInv, Types, ApplyRun, Note, natVars
  <2>. QED BY <2>1, <2>2, <2>3 DEF IInv, Applying, BeeRuns
<1>5. AppliedIsStored'
  BY DEF IInv, AppliedIsStored, Types, Own, Connection, Applying, OneByOne, ApplyRun,
    Note, natVars, logVars
<1>6. NoDeadVfs'
  BY DEF IInv, NoDeadVfs, Types, OneByOne, Connection, Applying, Registry, Works,
    BeeRuns, ApplyRun, Note, natVars, logVars
<1>7. Registry'
  BY DEF IInv, Registry, Works, ApplyRun, Note, natVars, logVars
<1>. QED
  BY <1>1, <1>2, <1>3, <1>4, <1>5, <1>6, <1>7 DEF IInv

\* prepare() resumes when ready() settles.
LEMMA ApplyReadyInv ==
  ASSUME IInv, NEW i \in Inst, ApplyReady(i)
  PROVE  IInv'
<1>1. Types'
  <2>1. apply' \in [Inst -> {"idle", "ready", "queued", "inside"}]
    BY DEF IInv, Types, ApplyReady, Counted
  <2>2. /\ applied \in [Inst -> Nat]
        /\ applied' = applied \/ applied' = [applied EXCEPT ![i] = @ + 1]
    BY DEF IInv, Types, ApplyReady, Counted
  <2>3. applied' \in [Inst -> Nat]
    BY <2>2
  <2>. QED BY <2>1, <2>3 DEF IInv, Types, ApplyReady, natVars
<1>2. Applying'
  BY DEF IInv, Applying, Types, Connection, Opening, ApplyReady, Counted, natVars,
    logVars
<1>3. AppliedIsStored'
  BY DEF IInv, AppliedIsStored, Types, Own, Connection, Applying, OneByOne,
    ApplyReady, Counted, natVars, logVars
<1>4. Registry' /\ OneByOne' /\ Connection' /\ NoDeadVfs'
  BY DEF IInv, Registry, OneByOne, Connection, NoDeadVfs, Works, ApplyReady, Counted,
    natVars, logVars
<1>. QED
  BY <1>1, <1>2, <1>3, <1>4 DEF IInv

\* Without a mishap the pool thread finds an open connection.
LEMMA OnBeforeExecInv ==
  ASSUME IInv, NEW i \in Inst, OnBeforeExec(i)
  PROVE  IInv'
<1>1. Types'
  <2>1. apply' \in [Inst -> {"idle", "ready", "queued", "inside"}]
    BY DEF IInv, Types, OnBeforeExec, Counted
  <2>2. /\ applied \in [Inst -> Nat]
        /\ applied' = applied \/ applied' = [applied EXCEPT ![i] = @ + 1]
    BY DEF IInv, Types, OnBeforeExec, Counted
  <2>3. applied' \in [Inst -> Nat]
    BY <2>2
  <2>. QED BY <2>1, <2>3 DEF IInv, Types, OnBeforeExec, natVars
<1>2. Applying'
  BY DEF IInv, Applying, Types, Connection, Opening, OnBeforeExec, Counted, natVars,
    logVars
<1>3. AppliedIsStored'
  BY DEF IInv, AppliedIsStored, Types, Own, Connection, Applying, OneByOne,
    OnBeforeExec, Counted, natVars, logVars
<1>4. Registry' /\ OneByOne' /\ Connection' /\ NoDeadVfs'
  BY DEF IInv, Registry, OneByOne, Connection, NoDeadVfs, Works, OnBeforeExec,
    Counted, natVars, logVars
<1>. QED
  BY <1>1, <1>2, <1>3, <1>4 DEF IInv

\* What is stored is what is then counted, in the instance's own store.
LEMMA InsideInv ==
  ASSUME IInv, NEW i \in Inst, Inside(i)
  PROVE  IInv'
<1>1. Types'
  <2>1. apply' \in [Inst -> {"idle", "ready", "queued", "inside"}] /\ applied' \in [Inst -> Nat]
    BY DEF IInv, Types, Inside, Counted
  <2>2. conn' \in [Inst -> {"none", "open", "zombie", "closed"}]
    BY DEF IInv, Types, Inside
  <2>3. stored' \in [Inst -> Seq(Inst \X Nat)]
    <3>1. stored \in [Inst -> Seq(Inst \X Nat)] /\ <<i, applied[i] + 1>> \in Inst \X Nat
      BY DEF IInv, Types
    <3>2. \A j \in Inst : Append(stored[j], <<i, applied[i] + 1>>) \in Seq(Inst \X Nat)
      BY <3>1
    <3>. QED BY <3>1, <3>2 DEF Inside
  <2>4. fault' \in {"none", "assert", "dead"}
    BY DEF IInv, Types, Inside, VfsCall
  <2>. QED BY <2>1, <2>2, <2>3, <2>4 DEF IInv, Types, Inside
<1>2. OneByOne'
  BY DEF IInv, OneByOne, Types, Registry, Connection, Works, Opening, BeeRuns, Inside,
    VfsCall, Counted, natVars, logVars
<1>3. Connection'
  BY DEF IInv, Connection, Types, Applying, Inside, VfsCall, Counted, natVars, logVars
<1>4. Applying'
  BY DEF IInv, Applying, Types, Connection, Opening, Inside, VfsCall, Counted,
    natVars, logVars
<1>5. AppliedIsStored'
  <2>. SUFFICES ASSUME mishaps \cap {"opens", "failed", "busy"} = {}, NEW j \in Inst
                PROVE  stored'[j] = Own(j)'
    BY DEF AppliedIsStored, Inside
  <2>1. conn[i] = "open" /\ uses[i] = i
    BY DEF IInv, Applying, Connection, OneByOne, Inside
  <2>2. stored' = [stored EXCEPT ![i] = Append(stored[i], <<i, applied[i] + 1>>)]
          /\ applied' = [applied EXCEPT ![i] = applied[i] + 1]
    BY <2>1 DEF Inside, Counted, IInv, Types
  <2>3. stored[j] = Own(j) /\ stored[i] = Own(i)
    BY DEF IInv, AppliedIsStored
  <2>4. CASE j # i
    <3>1. stored'[j] = stored[j] /\ applied'[j] = applied[j]
      BY <2>2, <2>4 DEF IInv, Types
    <3>. QED BY <2>3, <3>1 DEF Own
  <2>5. CASE j = i
    <3>1. applied[i] \in Nat
      BY DEF IInv, Types
    <3>2. Append(Own(i), <<i, applied[i] + 1>>) = [k \in 1..applied[i] + 1 |-> <<i, k>>]
      BY <3>1 DEF Own
    <3>3. stored'[i] = Append(stored[i], <<i, applied[i] + 1>>) /\ applied'[i] = applied[i] + 1
      BY <2>2 DEF IInv, Types
    <3>. QED BY <2>3, <2>5, <3>2, <3>3 DEF Own
  <2>. QED BY <2>4, <2>5
<1>6. NoDeadVfs'
  BY DEF IInv, NoDeadVfs, Types, OneByOne, Connection, Applying, Registry, Works,
    BeeRuns, Inside, VfsCall, Counted, natVars, logVars
<1>7. Registry'
  BY DEF IInv, Registry, Works, Inside, VfsCall, Counted, natVars, logVars
<1>. QED
  BY <1>1, <1>2, <1>3, <1>4, <1>5, <1>6, <1>7 DEF IInv

-----------------------------------------------------------------------------
\* Nothing has been opened.
LEMMA InitInv == Init => IInv
<1>. SUFFICES ASSUME Init PROVE IInv
  OBVIOUS
<1>1. Types
  BY InstancesAssumption DEF Init, Types, Mishaps, Lives
<1>2. Registry
  BY DEF Init, Registry, Works, BeeRuns
<1>3. OneByOne
  BY DEF Init, OneByOne, Opening
<1>4. Connection /\ NoDeadVfs
  BY DEF Init, Connection, NoDeadVfs
<1>5. Applying
  BY DEF Init, Applying
<1>6. AppliedIsStored
  BY DEF Init, AppliedIsStored, Own
<1>. QED
  BY <1>1, <1>2, <1>3, <1>4, <1>5, <1>6 DEF IInv

\* A stuttering step changes no part of the invariant.
LEMMA StutterInv == IInv /\ UNCHANGED vars => IInv'
BY DEF IInv, Types, Registry, OneByOne, Connection, Applying, AppliedIsStored, NoDeadVfs,
       Works, Own, vars, natVars, logVars

\* The inductive invariant holds in every behaviour.
THEOREM Inductive == Spec => []IInv
<1>1. ASSUME IInv, [Next]_vars PROVE IInv'
  <2>1. CASE UNCHANGED vars
    BY <1>1, <2>1, StutterInv
  <2>2. ASSUME NEW i \in Inst, Step(i) PROVE IInv'
    BY <1>1, <2>2, VfsInitInv, OnBeforeOpenInv, OnAfterOpenInv, OnBeforeCloseInv,
       VfsDestroyInv, BeeClosedInv, ApplyExecInv, ApplyRunInv, ApplyReadyInv,
       OnBeforeExecInv, InsideInv DEF Step
  <2>3. ASSUME NEW i \in Inst, User(i) PROVE IInv'
    BY <1>1, <2>3, ReadyInv, CloseInv, ReopenInv, OpenFailsInv, LoseStatementInv,
       UseStrayInv, ArriveInv DEF User
  <2>. QED BY <1>1, <2>1, <2>2, <2>3 DEF Next
<1>. QED BY <1>1, InitInv, PTL DEF Spec

-----------------------------------------------------------------------------
(* Types: what opens finds a VFS, although others come and go meanwhile.     *)

LEMMA LeastMember ==
  ASSUME NEW T \in SUBSET Nat, T # {}
  PROVE  \E x \in T : \A y \in T : x <= y
<1>1. PICK x \in T : \A y \in T : ~ (<<y, x>> \in OpToRel(<, Nat))
  BY WFMin, NatLessThanWellFounded
<1>2. \A y \in T : ~(y < x)
  BY <1>1 DEF OpToRel
<1>. QED BY <1>2

\* While any VFS is registered sqlite3_vfs_find returns one that is.
LEMMA FoundWorks ==
  ASSUME IInv, NEW i \in Inst, Works(i)
  PROVE  Found \in Inst /\ Works(Found)
<1>1. registered \in Nat /\ \A j \in Inst : registry[j] \in Nat /\ registry[j] <= registered
  BY DEF IInv, Types, Registry
<1> DEFINE T == {registered - registry[j] : j \in Inst}
<1>2. T \in SUBSET Nat /\ T # {}
  BY <1>1
<1>3. PICK x \in T : \A y \in T : x <= y
  BY <1>2, LeastMember
<1>4. PICK k \in Inst : x = registered - registry[k]
  BY <1>3
<1>5. ASSUME NEW j \in Inst PROVE registry[j] <= registry[k]
  <2>1. registered - registry[j] \in T OBVIOUS
  <2>2. registered - registry[k] <= registered - registry[j]
    BY <1>3, <1>4, <2>1
  <2>3. registry[j] \in Nat /\ registry[k] \in Nat /\ registered \in Nat
    BY <1>1
  <2>. QED BY ONLY <2>2, <2>3
<1>6. Works(k)
  BY <1>1, <1>5 DEF Works
<1>. QED BY <1>5, <1>6 DEF Found

Bounded ==
  /\ \A i \in Inst : uses[i] \in Inst \cup {NULL}
  /\ reopens \in 0..MaxReopens

LEMMA BoundedNext == IInv /\ Bounded /\ [Next]_vars => Bounded'
<1>. SUFFICES ASSUME IInv, Bounded, [Next]_vars PROVE Bounded'
  OBVIOUS
<1>0. MaxReopens \in Nat /\ uses = [i \in Inst |-> uses[i]]
  BY InstancesAssumption DEF IInv, Types
<1>1. CASE UNCHANGED <<uses, reopens>>
  BY <1>1 DEF Bounded
<1>2. ASSUME NEW i \in Inst, OnBeforeOpen(i) PROVE Bounded'
  <2>1. Works(i)
    BY <1>2 DEF OnBeforeOpen, IInv, Registry, BeeRuns
  <2>2. Found \in Inst
    BY <2>1, FoundWorks
  <2>. QED BY <1>0, <1>2, <2>2 DEF OnBeforeOpen, Bounded
<1>3. ASSUME NEW i \in Inst, Reopen(i) PROVE Bounded'
  BY <1>0, <1>3 DEF Reopen, Bounded
<1>4. CASE UNCHANGED vars
  BY <1>1, <1>4 DEF vars, natVars
<1>5. ASSUME NEW i \in Inst, Step(i) PROVE OnBeforeOpen(i) \/ UNCHANGED <<uses, reopens>>
  BY <1>5 DEF Step, VfsInit, OnAfterOpen, OnBeforeClose, VfsDestroy, BeeClosed, ApplyExec,
       ApplyRun, ApplyReady, OnBeforeExec, Inside, natVars, logVars
<1>6. ASSUME NEW i \in Inst, User(i) PROVE Reopen(i) \/ UNCHANGED <<uses, reopens>>
  BY <1>6 DEF User, Ready, Close, OpenFails, LoseStatement, UseStray, Arrive, natVars, logVars
<1>. QED BY <1>1, <1>2, <1>3, <1>4, <1>5, <1>6 DEF Next

\* Every state of the instances is one of those the code goes through; a VFS is
\* registered exactly while its Autobee runs, and an apply never counts more
\* operations than the log has.
THEOREM TypesCorrect == Spec => []TypeOK
<1>1. Init => Bounded
  BY InstancesAssumption DEF Init, Bounded
<1>2. IInv /\ Bounded => TypeOK
  <2>. SUFFICES ASSUME IInv, Bounded PROVE TypeOK
    OBVIOUS
  <2>1. uses \in [Inst -> Inst \cup {NULL}]
    BY DEF IInv, Types, Bounded
  <2>2. registry \in [Inst -> 0..registered]
    BY DEF IInv, Types, Registry
  <2>3. \A i \in Inst : ops[i] \in Seq({"EXEC", "RUN"}) /\ applied[i] \in 0..Len(ops[i])
    BY DEF IInv, Types, Applying
  <2>. QED BY <2>1, <2>2, <2>3 DEF IInv, Types, Registry, Bounded, TypeOK
<1>. QED BY <1>1, <1>2, BoundedNext, Inductive, PTL DEF Spec

-----------------------------------------------------------------------------
\* Opened one after the other, any number of instances each use their own VFS,
\* whatever else is opened, closed and opened again.
THEOREM OwnVfsHolds == Spec => []OwnVfsOneByOne
<1>1. IInv => OwnVfsOneByOne
  BY DEF IInv, OneByOne, OwnVfsOneByOne, OwnVfs
<1>. QED BY <1>1, Inductive, PTL

\* What counts as applied is what the instance's own store holds.
THEOREM AppliedIsStoredHolds == Spec => []AppliedIsStored
<1>1. IInv => AppliedIsStored
  BY DEF IInv
<1>. QED BY <1>1, Inductive, PTL

\* close() leaves no user of the VFS behind.
THEOREM NoDeadVfsHolds == Spec => []NoDeadVfs
<1>1. IInv => NoDeadVfs
  BY DEF IInv
<1>. QED BY <1>1, Inductive, PTL

\* No request of apply reaches the binding without a connection.
THEOREM NoNullHandleHolds == Spec => []NoNullHandle
<1>1. IInv => NoNullHandle
  BY DEF IInv, Applying, NoNullHandle, Opening
<1>. QED BY <1>1, Inductive, PTL
=============================================================================
