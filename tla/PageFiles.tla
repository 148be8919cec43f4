------------------------------- MODULE PageFiles -------------------------------
(***************************************************************************)
(* lib/vfs.js below the bridge: SQLite's files as pages in key-value       *)
(* stores (_xRead, _xWrite, _xTruncate, _xSync, _xDelete, _xSize, _xAccess *)
(* and _get, _last, _tryPut, _tryDelete, _flush), with lib/encryption.js   *)
(* and deflate / inflate of lib/codecs.js.                                 *)
(*                                                                         *)
(* The pages of the main file live in the Autobee view, those of every     *)
(* other file in a local RocksDB.  Puts and deletes collect in one batch   *)
(* per file, this._files, until xSync or xDelete flushes it; reads see the *)
(* store only.  Each VFS method is one action: the bridge lets one call of *)
(* a connection at a time through (VfsBridge, OneOutstanding).             *)
(*                                                                         *)
(* A stored page is its bytes under the layers put on it: deflate adds     *)
(* "z", inflate fails unless "z" is on top; the stream cipher adds "x" and *)
(* takes it off again when it is on top.                                   *)
(***************************************************************************)
EXTENDS Integers, Sequences, FiniteSets, FiniteSetsExt, SequencesExt

CONSTANTS
  Files,       \* the names SQLite opens
  Main,        \* the one that is this.name
  PAGE_SIZE,
  MaxPages,    \* bound: pages of a file
  Data,        \* the byte sequences SQLite writes
  MaxWrites,   \* bound: writes
  Encrypted, Compressed,
  Disciplined, \* the files in which SQLite does not come back to an unsynced page
  NULL, DELETED

ASSUME PageFilesAssumption ==
  /\ Main \in Files
  /\ PAGE_SIZE \in Nat \ {0} /\ MaxPages \in Nat \ {0}
  /\ Data \subseteq Seq(Nat) \ {<<>>} /\ MaxWrites \in Nat
  /\ {Encrypted, Compressed} \subseteq BOOLEAN /\ Disciplined \subseteq Files
  /\ NULL # DELETED

VARIABLES
  store,    \* [file -> [page index -> stored page]], the Bee view or RocksDB
  files,    \* this._files: [file -> pending puts and deletes, or NULL]
  out,      \* history: the operation made last on a disciplined file, whether
            \* it succeeded, and its result
  spoiled,  \* an operation changed the buffer SQLite passed to xWrite
  writes    \* how many writes were made (bound)

vars == <<store, files, out, spoiled, writes>>

Out(op, ok, val) == [op |-> op, ok |-> ok, val |-> val]
Result(f, op, ok, val) == out' = IF f \in Disciplined THEN Out(op, ok, val) ELSE out
Failed(f, op) == Result(f, op, FALSE, <<>>)
Done(f, op) == Result(f, op, TRUE, <<>>)

Empty == [i \in {} |-> NULL]
Tmp(f) == f # Main
Exists(f, i) == i \in DOMAIN store[f]

-----------------------------------------------------------------------------
(* Conversions.                                                             *)

Plain(data) == [data |-> data, layers |-> <<>>]
ZeroPage == [k \in 1..PAGE_SIZE |-> 0]

Deflate(p) == [p EXCEPT !.layers = Append(@, "z")]
Xor(p) == [p EXCEPT !.layers = IF @ # <<>> /\ Last(@) = "x" THEN Front(@) ELSE Append(@, "x")]
CanInflate(p) == p.layers # <<>> /\ Last(p.layers) = "z"
Inflate(p) == [p EXCEPT !.layers = Front(@)]

Bytes == {0} \cup UNION {Range(d) : d \in Data}
Indices == 0..MaxPages - 1
PageType == [data : [1..PAGE_SIZE -> Bytes], layers : Seq({"z", "x"})]

\* A batch is not NULL and a page is not DELETED.
ASSUME MarkersAssumption ==
  /\ \A D \in SUBSET Indices : NULL \notin [D -> PageType]
  /\ DELETED \notin PageType

\* Bytes of a page that still has a layer are noise.
Noise == 1 + Max(Bytes)
DataOf(p) == IF p.layers = <<>> THEN p.data ELSE [k \in 1..PAGE_SIZE |-> Noise]

\* Mutant: encrypt, then deflate.
AtRestEncryptFirst(f, p) ==
  LET x == IF Tmp(f) /\ Encrypted THEN Xor(p) ELSE p
  IN  IF Compressed THEN Deflate(x) ELSE x

\* _tryPut: deflate, then encrypt when the file is a temporary one.
AtRest(f, p) ==
  LET z == IF Compressed THEN Deflate(p) ELSE p
  IN  IF Tmp(f) /\ Encrypted THEN Xor(z) ELSE z

\* _get: decrypt, then inflate; a missing page reads as null.
Decrypted(f, i) == IF Tmp(f) /\ Encrypted THEN Xor(store[f][i]) ELSE store[f][i]
GetFails(f, i) == Exists(f, i) /\ Compressed /\ ~CanInflate(Decrypted(f, i))
Get(f, i) ==
  IF ~Exists(f, i) THEN ZeroPage
  ELSE DataOf(IF Compressed THEN Inflate(Decrypted(f, i)) ELSE Decrypted(f, i))

\* _last: the highest page of the store, -1 when there is none.
LastPage(f) == IF store[f] = Empty THEN -1 ELSE Max(DOMAIN store[f])

Pending(f) == IF files[f] = NULL THEN Empty ELSE files[f]

\* _tryPut and _tryDelete add to the batch of the file, opening it if needed.
Batched(f, changes) ==
  [i \in DOMAIN Pending(f) \cup DOMAIN changes |->
     IF i \in DOMAIN changes THEN changes[i] ELSE Pending(f)[i]]

\* batch.flush(): the store with the puts and deletes of the batch applied.
Flushed(f, batch) ==
  [i \in {j \in DOMAIN store[f] \cup DOMAIN batch : j \in DOMAIN batch => batch[j] # DELETED} |->
     IF i \in DOMAIN batch THEN batch[i] ELSE store[f][i]]

\* _flush: forget the batch, then write it.
Flush(f, batch) ==
  /\ files' = [files EXCEPT ![f] = NULL]
  /\ store' = [store EXCEPT ![f] = Flushed(f, batch)]

-----------------------------------------------------------------------------
(* The VFS methods.  Offsets count from 0, sequences from 1.                *)

PageOf(offset) == offset \div PAGE_SIZE
Span(offset, len) == PageOf(offset) .. PageOf(offset + len - 1)

\* The page i is written as a whole by len bytes at offset.
Whole(i, offset, len) == offset <= i * PAGE_SIZE /\ (i + 1) * PAGE_SIZE <= offset + len

XRead(f, offset, len) ==
  /\ IF \E i \in Span(offset, len) : GetFails(f, i)
       THEN Failed(f, "read")
       ELSE Result(f, "read", TRUE,
              [k \in 1..len |-> LET at == offset + k - 1
                                IN  Get(f, PageOf(at))[(at % PAGE_SIZE) + 1]])
  /\ UNCHANGED <<store, files, spoiled, writes>>

\* Mutant: a partial write starts from a zero page.
PatchedZeroPage(f, i, offset, data) ==
  [k \in 1..PAGE_SIZE |->
     LET at == i * PAGE_SIZE + k - 1 IN
       IF at \in offset .. offset + Len(data) - 1 THEN data[at - offset + 1] ELSE 0]

\* The bytes of page i once data is written at offset: the caller's bytes over
\* what _get returns, which is not read for a page written as a whole.
PatchedPage(f, i, offset, data) ==
  [k \in 1..PAGE_SIZE |->
     LET at == i * PAGE_SIZE + k - 1 IN
       IF at \in offset .. offset + Len(data) - 1 THEN data[at - offset + 1] ELSE Get(f, i)[k]]

\* A whole page is handed to _tryPut as a view of SQLite's own buffer, which
\* encrypt then works on in place, unless deflate made a copy first.
EncryptsInPlace(f) == Tmp(f) /\ Encrypted /\ ~Compressed

XWrite(f, offset, data) ==
  LET pages == Span(offset, Len(data)) IN
    /\ writes < MaxWrites /\ writes' = writes + 1
    /\ IF \E i \in pages : ~Whole(i, offset, Len(data)) /\ GetFails(f, i)
         THEN Failed(f, "write") /\ UNCHANGED <<files, spoiled>>
         ELSE /\ files' = [files EXCEPT ![f] = Batched(f,
                   [i \in pages |-> AtRest(f, Plain(PatchedPage(f, i, offset, data)))])]
              /\ spoiled' = (spoiled \/ (/\ EncryptsInPlace(f)
                                         /\ \E i \in pages : Whole(i, offset, Len(data))))
              /\ Done(f, "write")
    /\ UNCHANGED store

\* Mutant: the last page is size / PAGE_SIZE instead of (size - 1) / PAGE_SIZE.
XTruncatePastEnd(f, size) ==
  /\ size > (LastPage(f) + 1) * PAGE_SIZE
  /\ files' = [files EXCEPT ![f] = Batched(f,
       [i \in LastPage(f) + 1 .. PageOf(size) |-> AtRest(f, Plain(ZeroPage))])]
  /\ Done(f, "truncate")
  /\ UNCHANGED <<store, spoiled, writes>>

\* Growing puts zero pages.  Shrinking reads lastIndex, which is not defined,
\* before it changes anything: the ReferenceError becomes SQLITE_IOERR_TRUNCATE.
XTruncate(f, size) ==
  LET current == (LastPage(f) + 1) * PAGE_SIZE IN
    /\ IF size < current THEN Failed(f, "truncate") /\ UNCHANGED files
       ELSE /\ files' = IF size = current THEN files ELSE
                 [files EXCEPT ![f] = Batched(f,
                   [i \in LastPage(f) + 1 .. PageOf(size - 1) |-> AtRest(f, Plain(ZeroPage))])]
            /\ Done(f, "truncate")
    /\ UNCHANGED <<store, spoiled, writes>>

\* _flush throws when there is no batch to flush.
XSync(f) ==
  /\ IF files[f] = NULL
       THEN Failed(f, "sync") /\ UNCHANGED <<store, files>>
       ELSE Flush(f, files[f]) /\ Done(f, "sync")
  /\ UNCHANGED <<spoiled, writes>>

\* Deletes the pages of the store and flushes, with whatever was pending.
XDelete(f) ==
  LET batch == Batched(f, [i \in 0..LastPage(f) |-> DELETED]) IN
    /\ IF LastPage(f) < 0 /\ files[f] = NULL
         THEN Failed(f, "delete") /\ UNCHANGED <<store, files>>
         ELSE Flush(f, batch) /\ Done(f, "delete")
    /\ UNCHANGED <<spoiled, writes>>

XSize(f) ==
  /\ Result(f, "size", TRUE, <<(LastPage(f) + 1) * PAGE_SIZE>>)
  /\ UNCHANGED <<store, files, spoiled, writes>>

XAccess(f) ==
  /\ Result(f, "access", TRUE, <<IF LastPage(f) >= 0 THEN 1 ELSE 0>>)
  /\ UNCHANGED <<store, files, spoiled, writes>>

\* ParaVFS._close: batches that were not flushed are closed, not written.
Close ==
  /\ files' = [f \in Files |-> NULL]
  /\ out' = Out("close", TRUE, <<>>)
  /\ UNCHANGED <<store, spoiled, writes>>

-----------------------------------------------------------------------------
(* SQLite as a client.  In a disciplined file it reads back, or writes in     *)
(* part, only pages without a pending change, and asks for the size or the   *)
(* existence of the file, truncates or deletes it only between syncs.        *)

Clean(f, pages) == f \in Disciplined => pages \cap DOMAIN Pending(f) = {}
Synced(f) == f \in Disciplined => files[f] = NULL

Capacity == MaxPages * PAGE_SIZE

Init ==
  /\ store = [f \in Files |-> Empty]
  /\ files = [f \in Files |-> NULL]
  /\ out = Out("open", TRUE, <<>>)
  /\ spoiled = FALSE
  /\ writes = 0

Next ==
  \/ \E f \in Files :
       \/ \E offset \in 0..Capacity - 1, len \in 1..Capacity :
            /\ offset + len <= Capacity
            /\ Clean(f, Span(offset, len))
            /\ XRead(f, offset, len)
       \/ \E offset \in 0..Capacity - 1, data \in Data :
            /\ offset + Len(data) <= Capacity
            /\ Clean(f, {i \in Span(offset, Len(data)) : ~Whole(i, offset, Len(data))})
            /\ XWrite(f, offset, data)
       \/ \E size \in 0..Capacity : Synced(f) /\ XTruncate(f, size)
       \/ XSync(f)
       \/ Synced(f) /\ XDelete(f)
       \/ Synced(f) /\ XSize(f)
       \/ Synced(f) /\ XAccess(f)
  \/ Close

Spec == Init /\ [][Next]_vars

-----------------------------------------------------------------------------
(* Properties.                                                              *)

\* Type correctness: files stay within their pages, and no noise is stored.
TypeOK ==
  /\ \A f \in Files :
       /\ DOMAIN store[f] \subseteq Indices
       /\ \A i \in DOMAIN store[f] : store[f][i] \in PageType
       /\ DOMAIN Pending(f) \subseteq Indices
       /\ \A i \in DOMAIN Pending(f) : Pending(f)[i] # DELETED => Pending(f)[i] \in PageType
  /\ spoiled \in BOOLEAN /\ writes \in 0..MaxWrites

\* A temporary file's pages are compressed and then encrypted, in the store
\* and in the batch; the main file's are compressed only (Autobee encrypts).
Layers(f) == LET z == IF Compressed THEN <<"z">> ELSE <<>>
             IN  IF Tmp(f) /\ Encrypted THEN Append(z, "x") ELSE z
PagesProtected ==
  \A f \in Files :
    /\ \A i \in DOMAIN store[f] : store[f][i].layers = Layers(f)
    /\ \A i \in DOMAIN Pending(f) : Pending(f)[i] # DELETED => Pending(f)[i].layers = Layers(f)

\* xWrite leaves the buffer SQLite passes (const void *buf) as it was.  Not so
\* when files are encrypted and not compressed; with compression it says nothing,
\* so that no run checks it.
BufferIntact == ~spoiled

\* The pages implement the files SQLite expects.
ContentsOf(pages) ==
  IF pages = Empty THEN <<>>
  ELSE [k \in 1..(Max(DOMAIN pages) + 1) * PAGE_SIZE |->
          LET i == PageOf(k - 1) IN
            IF i \in DOMAIN pages THEN pages[i].data[((k - 1) % PAGE_SIZE) + 1] ELSE 0]
Contents(f) == ContentsOf(Flushed(f, Pending(f)))
Byte == INSTANCE ByteFile WITH
  Files  <- Disciplined,
  bytes  <- [f \in Disciplined |-> Contents(f)],
  synced <- [f \in Disciplined |-> ContentsOf(store[f])]
\* Refinement: under the mapping that reads a file as its store with its batch
\* applied, every VFS method on a disciplined file does what ByteFile says,
\* results included, and methods on other files do not touch it.
ImplementsByteFile == Byte!Spec

\* The byte of f at offset n: as the last flush left it, and with the batch.
FlushedByte(f, n) ==
  IF PageOf(n) \in DOMAIN store[f] THEN store[f][PageOf(n)].data[(n % PAGE_SIZE) + 1] ELSE 0
ByteNow(f, n) ==
  IF PageOf(n) \in DOMAIN Pending(f) THEN Pending(f)[PageOf(n)].data[(n % PAGE_SIZE) + 1]
  ELSE FlushedByte(f, n)

\* Every byte of f outside touched stays, or is again what the last flush left.
KeptBut(f, touched) ==
  \A n \in (0..Capacity - 1) \ touched : ByteNow(f, n)' \in {ByteNow(f, n), FlushedByte(f, n)}

Covered(offset, data) == offset .. offset + Len(data) - 1

\* A step that is no write, or a write of data at offset.
KeepsBytes ==
  \/ /\ writes' = writes
     /\ \A f \in Files :
          \/ KeptBut(f, {})
          \/ XDelete(f) /\ \A n \in 0..Capacity - 1 : ByteNow(f, n)' \in {0, ByteNow(f, n)}
  \/ \E f \in Files, offset \in 0..Capacity - 1, data \in Data :
       /\ offset + Len(data) <= Capacity /\ XWrite(f, offset, data)
       /\ KeptBut(f, Covered(offset, data))
       /\ \A n \in Covered(offset, data) : ByteNow(f, n)' = data[n - offset + 1]
       /\ \A g \in Files \ {f} : KeptBut(g, {})
\* The bytes of the files, whoever uses them and however.  What a write covers
\* becomes its data.  Every other byte of every file, under a write to a page
\* that is flushed or pending, a truncate over pending pages, a failed
\* operation, a flush or a close, keeps its value or falls back to the one of
\* the last flush; only a delete clears it.  (A second partial write to a page
\* still in the batch loses what the first one put there: this bounds the loss.)
BytesKept == [][KeepsBytes]_vars

=============================================================================
