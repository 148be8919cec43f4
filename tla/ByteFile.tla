------------------------------- MODULE ByteFile -------------------------------
(***************************************************************************)
(* What SQLite expects of the files of a VFS: a read returns the bytes     *)
(* written last, synced or not; a sync makes them durable; what was not    *)
(* synced is lost when the VFS is closed.  Files grow by whole pages and   *)
(* bytes never written read as zero.  Every operation may fail without     *)
(* effect.                                                                 *)
(***************************************************************************)
EXTENDS Integers, Sequences

CONSTANTS
  Files,
  Data,       \* the byte sequences that are written
  PAGE_SIZE,
  MaxPages    \* bound: pages of a file

VARIABLES
  bytes,    \* [file -> its contents]
  synced,   \* [file -> the contents that survive]
  out       \* the operation made last, whether it succeeded, and its result

vars == <<bytes, synced, out>>

Out(op, ok, val) == [op |-> op, ok |-> ok, val |-> val]

\* n bytes rounded up to whole pages.
RoundUp(n) == ((n + PAGE_SIZE - 1) \div PAGE_SIZE) * PAGE_SIZE

ByteAt(s, k) == IF k <= Len(s) THEN s[k] ELSE 0

\* The first n bytes of s, zero beyond its end.
Fit(s, n) == [k \in 1..n |-> ByteAt(s, k)]

\* s with data written at offset.
Patched(s, offset, data) ==
  [k \in 1..(IF Len(s) >= offset + Len(data) THEN Len(s) ELSE RoundUp(offset + Len(data))) |->
     IF k \in offset + 1 .. offset + Len(data) THEN data[k - offset] ELSE ByteAt(s, k)]

Read(f, offset, len) ==
  /\ out' = Out("read", TRUE, [k \in 1..len |-> ByteAt(bytes[f], offset + k)])
  /\ UNCHANGED <<bytes, synced>>

Write(f, offset, data) ==
  /\ out' = Out("write", TRUE, <<>>)
  /\ bytes' = [bytes EXCEPT ![f] = Patched(@, offset, data)]
  /\ UNCHANGED synced

Truncate(f, size) ==
  /\ out' = Out("truncate", TRUE, <<>>)
  /\ bytes' = [bytes EXCEPT ![f] = Fit(@, RoundUp(size))]
  /\ UNCHANGED synced

Sync(f) ==
  /\ out' = Out("sync", TRUE, <<>>)
  /\ synced' = [synced EXCEPT ![f] = bytes[f]]
  /\ UNCHANGED bytes

Delete(f) ==
  /\ out' = Out("delete", TRUE, <<>>)
  /\ bytes' = [bytes EXCEPT ![f] = <<>>]
  /\ synced' = [synced EXCEPT ![f] = <<>>]

Size(f) ==
  /\ out' = Out("size", TRUE, <<Len(bytes[f])>>)
  /\ UNCHANGED <<bytes, synced>>

Access(f) ==
  /\ out' = Out("access", TRUE, <<IF bytes[f] = <<>> THEN 0 ELSE 1>>)
  /\ UNCHANGED <<bytes, synced>>

Fail(op) ==
  /\ out' = Out(op, FALSE, <<>>)
  /\ UNCHANGED <<bytes, synced>>

Close ==
  /\ out' = Out("close", TRUE, <<>>)
  /\ bytes' = synced
  /\ UNCHANGED synced

Init ==
  /\ bytes = [f \in Files |-> <<>>]
  /\ synced = [f \in Files |-> <<>>]
  /\ out = Out("open", TRUE, <<>>)

Capacity == MaxPages * PAGE_SIZE

Next ==
  \/ \E f \in Files :
       \/ \E offset \in 0..Capacity - 1 :
            \/ \E len \in 1..Capacity - offset : Read(f, offset, len)
            \/ \E data \in Data : offset + Len(data) <= Capacity /\ Write(f, offset, data)
       \/ \E size \in 0..Capacity : Truncate(f, size)
       \/ Sync(f) \/ Delete(f) \/ Size(f) \/ Access(f)
  \/ \E op \in {"read", "write", "truncate", "sync", "delete", "size", "access"} : Fail(op)
  \/ Close

Spec == Init /\ [][Next]_vars
=============================================================================
