---------------------------- MODULE PageFilesProofs ----------------------------
(***************************************************************************)
(* Proofs about PageFiles, for every set of files, every size of page and  *)
(* file, and every choice of encryption and compression.                   *)
(*                                                                         *)
(* The invariant: what is in the store and in the batch of a file are      *)
(* pages of its indices under the file's layers.  With it _get never       *)
(* fails and returns the bytes that were put.                              *)
(*                                                                         *)
(* The refinement: the contents of a file are its pages with its batch     *)
(* over them (Over), byte by byte (ContentsFacts).  A write puts pages     *)
(* that are those read with the data over them (Overlays), so that the     *)
(* contents become the bytes before with the data over them (OverByte);    *)
(* the pages there then are end where ByteFile rounds to (OverPages).      *)
(***************************************************************************)
EXTENDS PageFiles, SequenceTheorems, WellFoundedInduction, TLAPS

Plainly == [1..PAGE_SIZE -> Bytes]

\* The pages of file f at rest, and maps of them.
AtRestPages(f) == [data : Plainly, layers : {Layers(f)}]
PageMap(f, m) == DOMAIN m \in SUBSET Indices /\ m \in [DOMAIN m -> AtRestPages(f)]

IInv ==
  /\ store = [f \in Files |-> store[f]] /\ files = [f \in Files |-> files[f]]
  /\ \A f \in Files : PageMap(f, store[f]) /\ (files[f] = NULL \/ PageMap(f, files[f]))
  /\ spoiled \in BOOLEAN
  /\ writes \in 0..MaxWrites

-----------------------------------------------------------------------------
(* Offsets and pages.                                                       *)

LEMMA PageOfFacts ==
  ASSUME NEW n \in Nat
  PROVE  /\ PageOf(n) \in Nat /\ n % PAGE_SIZE \in 0..(PAGE_SIZE - 1)
         /\ n = PageOf(n) * PAGE_SIZE + (n % PAGE_SIZE)
         /\ PageOf(n) * PAGE_SIZE <= n /\ n < (PageOf(n) + 1) * PAGE_SIZE
<1>1. PAGE_SIZE \in Nat \ {0}
  BY PageFilesAssumption
<1>2. n \div PAGE_SIZE \in Nat BY <1>1
<1>3. n % PAGE_SIZE \in 0..(PAGE_SIZE - 1) BY <1>1
<1>4. n = PAGE_SIZE * (n \div PAGE_SIZE) + (n % PAGE_SIZE) BY <1>1
<1>. QED BY <1>1, <1>2, <1>3, <1>4 DEF PageOf

\* The page of an offset is the one whose bytes surround it.
LEMMA PageOfIs ==
  ASSUME NEW n \in Nat, NEW i \in Nat, i * PAGE_SIZE <= n, n < (i + 1) * PAGE_SIZE
  PROVE  PageOf(n) = i
BY PageFilesAssumption DEF PageOf

LEMMA TimesGrows ==
  ASSUME NEW i \in Int, NEW j \in Int, i < j
  PROVE  (i + 1) * PAGE_SIZE <= j * PAGE_SIZE /\ i * PAGE_SIZE < j * PAGE_SIZE
<1>1. PAGE_SIZE \in Nat \ {0} BY PageFilesAssumption
<1>2. (i + 1) * PAGE_SIZE <= j * PAGE_SIZE BY <1>1
<1>3. (i + 1) * PAGE_SIZE = i * PAGE_SIZE + PAGE_SIZE BY <1>1
<1>. QED BY <1>1, <1>2, <1>3

LEMMA PageOfGrows ==
  ASSUME NEW m \in Nat, NEW n \in Nat, m <= n
  PROVE  PageOf(m) <= PageOf(n)
<1>1. PageOf(m) \in Nat /\ PageOf(n) \in Nat /\ PageOf(m) * PAGE_SIZE <= m /\ n < (PageOf(n) + 1) * PAGE_SIZE
  BY PageOfFacts
<1>2. SUFFICES ASSUME PageOf(n) < PageOf(m) PROVE FALSE
  BY <1>1
<1>3. (PageOf(n) + 1) * PAGE_SIZE <= PageOf(m) * PAGE_SIZE
  BY <1>1, <1>2, TimesGrows
<1>4. PageOf(m) * PAGE_SIZE \in Nat /\ (PageOf(n) + 1) * PAGE_SIZE \in Nat
  BY <1>1, PageFilesAssumption
<1>. QED BY <1>1, <1>3, <1>4

LEMMA CapacityPages ==
  ASSUME NEW n \in Nat, n < Capacity
  PROVE  PageOf(n) \in Indices
<1>1. MaxPages \in Nat /\ PageOf(n) \in Nat /\ PageOf(n) * PAGE_SIZE <= n
  BY PageOfFacts, PageFilesAssumption
<1>2. SUFFICES ASSUME MaxPages <= PageOf(n) PROVE FALSE
  BY <1>1 DEF Indices
<1>3. MaxPages * PAGE_SIZE <= PageOf(n) * PAGE_SIZE
  BY <1>1, <1>2, TimesGrows
<1>4. PageOf(n) * PAGE_SIZE \in Nat /\ MaxPages * PAGE_SIZE \in Nat
  BY <1>1, PageFilesAssumption
<1>. QED BY <1>1, <1>3, <1>4 DEF Capacity

LEMMA SpanInIndices ==
  ASSUME NEW offset \in Nat, NEW len \in Nat \ {0}, offset + len <= Capacity
  PROVE  Span(offset, len) \in SUBSET Indices /\ offset + len - 1 \in Nat
<1>0. Capacity \in Nat
  BY PageFilesAssumption DEF Capacity
<1>1. offset + len - 1 \in Nat /\ offset + len - 1 < Capacity
  BY <1>0
<1>2. PageOf(offset + len - 1) \in Indices /\ PageOf(offset) \in Nat
  BY <1>1, CapacityPages, PageOfFacts
<1>3. MaxPages \in Nat
  BY PageFilesAssumption
<1>. QED BY <1>1, <1>2, <1>3 DEF Span, Indices

\* A set of naturals that is not empty has a least member.
LEMMA LeastMember ==
  ASSUME NEW T \in SUBSET Nat, T # {}
  PROVE  \E x \in T : \A y \in T : x <= y
<1>1. PICK x \in T : \A y \in T : ~ (<<y, x>> \in OpToRel(<, Nat))
  BY WFMin, NatLessThanWellFounded
<1>2. \A y \in T : ~(y < x)
  BY <1>1 DEF OpToRel
<1>. QED BY <1>2

LEMMA MaxOfPages ==
  ASSUME NEW D \in SUBSET Indices, D # {}
  PROVE  Max(D) \in D /\ \A i \in D : i <= Max(D)
<1>0. MaxPages \in Nat
  BY PageFilesAssumption
<1>1. {MaxPages - i : i \in D} \in SUBSET Nat /\ {MaxPages - i : i \in D} # {}
  <2>1. \A i \in D : MaxPages - i \in Nat BY <1>0 DEF Indices
  <2>. QED BY <2>1
<1>2. PICK x \in {MaxPages - i : i \in D} : \A y \in {MaxPages - i : i \in D} : x <= y
  BY <1>1, LeastMember
<1>3. PICK m \in D : x = MaxPages - m
  BY <1>2
<1>4. \A i \in D : m >= i
  BY <1>0, <1>2, <1>3 DEF Indices
<1>5. \E z \in D : \A i \in D : z >= i
  BY <1>4
<1>. QED BY <1>5 DEF Max, Indices

-----------------------------------------------------------------------------
(* Layers.                                                                  *)

Stack == Seq({"z", "x"})

LEMMA StackFacts ==
  /\ <<>> \in Stack /\ <<"z">> = Append(<<>>, "z")
  /\ \A s \in Stack, e \in {"z", "x"} :
       Append(s, e) \in Stack /\ Append(s, e) # <<>> /\ Last(Append(s, e)) = e /\ Front(Append(s, e)) = s
<1>1. <<>> \in Stack /\ <<"z">> = Append(<<>>, "z")
  BY DEF Stack
<1>2. ASSUME NEW s \in Stack, NEW e \in {"z", "x"}
      PROVE  /\ Append(s, e) \in Stack /\ Append(s, e) # <<>>
             /\ Last(Append(s, e)) = e /\ Front(Append(s, e)) = s
  <2>1. /\ Append(s, e) \in Stack /\ Len(Append(s, e)) = Len(s) + 1 /\ Len(s) \in Nat
        /\ Append(s, e)[Len(s) + 1] = e
        /\ \A k \in 1..Len(s) : Append(s, e)[k] = s[k]
    BY DEF Stack
  <2>2. Last(Append(s, e)) = e BY <2>1 DEF Last
  <2>3. Front(Append(s, e)) = s
    <3>1. Front(Append(s, e)) = SubSeq(Append(s, e), 1, Len(s)) BY <2>1 DEF Front
    <3>2. /\ SubSeq(Append(s, e), 1, Len(s)) \in Stack
          /\ Len(SubSeq(Append(s, e), 1, Len(s))) = Len(s)
          /\ \A k \in 1..Len(s) : SubSeq(Append(s, e), 1, Len(s))[k] = s[k]
      BY <2>1 DEF Stack
    <3>. QED BY <3>1, <3>2, SeqEqual DEF Stack
  <2>4. Append(s, e) # <<>> BY <2>1 DEF Stack
  <2>. QED BY <2>1, <2>2, <2>3, <2>4
<1>. QED BY <1>1, <1>2

Pressed == IF Compressed THEN Append(<<>>, "z") ELSE <<>>

LEMMA LayersAre ==
  ASSUME NEW f
  PROVE  Layers(f) = (IF Tmp(f) /\ Encrypted THEN Append(Pressed, "x") ELSE Pressed) /\ Pressed \in Stack
BY StackFacts DEF Layers, Pressed

\* What _tryPut puts has the file's layers on the bytes it was given.
LEMMA AtRestIs ==
  ASSUME NEW f \in Files, NEW data
  PROVE  AtRest(f, Plain(data)) = [data |-> data, layers |-> Layers(f)]
<1> DEFINE z == IF Compressed THEN Deflate(Plain(data)) ELSE Plain(data)
<1>1. z = [data |-> data, layers |-> Pressed]
  BY DEF Plain, Deflate, Pressed
<1>2. Pressed # <<>> => Last(Pressed) = "z"
  BY StackFacts DEF Pressed
<1>3. Xor(z) = [data |-> data, layers |-> Append(Pressed, "x")]
  BY <1>1, <1>2 DEF Xor
<1>. QED BY <1>1, <1>3, LayersAre DEF AtRest

\* Taking the layers off again succeeds and gives the bytes back.
LEMMA OpenedIs ==
  ASSUME NEW f \in Files, NEW p, p \in AtRestPages(f),
         NEW x, x = IF Tmp(f) /\ Encrypted THEN Xor(p) ELSE p
  PROVE  /\ Compressed => CanInflate(x) /\ DataOf(Inflate(x)) = p.data
         /\ ~Compressed => DataOf(x) = p.data
<1>1. p = [data |-> p.data, layers |-> Layers(f)]
  BY DEF AtRestPages
<1>2. /\ Append(Pressed, "x") # <<>> /\ Last(Append(Pressed, "x")) = "x"
      /\ Front(Append(Pressed, "x")) = Pressed
  BY StackFacts, LayersAre
<1>3. x = [data |-> p.data, layers |-> Pressed]
  <2>1. CASE Tmp(f) /\ Encrypted
    <3>1. p = [data |-> p.data, layers |-> Append(Pressed, "x")] BY <1>1, <2>1, LayersAre
    <3> DEFINE d == p.data
    <3>. HIDE DEF d
    <3>2. p = [data |-> d, layers |-> Append(Pressed, "x")] BY <3>1 DEF d
    <3>3. Xor(p) = [data |-> d, layers |-> Pressed] BY <1>2, <3>2 DEF Xor
    <3>. QED BY <2>1, <3>3 DEF d
  <2>2. CASE ~(Tmp(f) /\ Encrypted) BY <1>1, <2>2, LayersAre
  <2>. QED BY <2>1, <2>2
<1>4. Compressed => Pressed # <<>> /\ Last(Pressed) = "z" /\ Front(Pressed) = <<>>
  BY StackFacts DEF Pressed
<1>5. ~Compressed => Pressed = <<>>
  BY DEF Pressed
<1>. QED BY <1>3, <1>4, <1>5 DEF CanInflate, DataOf, Inflate

LEMMA ZeroPageIs == ZeroPage \in Plainly
BY DEF ZeroPage, Plainly, Bytes

LEMMA GetFacts ==
  ASSUME IInv, NEW f \in Files, NEW i \in Nat
  PROVE  /\ ~GetFails(f, i) /\ Get(f, i) \in Plainly
         /\ Get(f, i) = IF i \in DOMAIN store[f] THEN store[f][i].data ELSE ZeroPage
<1>1. CASE i \notin DOMAIN store[f]
  BY <1>1, ZeroPageIs DEF GetFails, Get, Exists
<1>2. CASE i \in DOMAIN store[f]
  <2>1. store[f][i] \in AtRestPages(f)
    BY <1>2 DEF IInv, PageMap
  <2>2. /\ Compressed => CanInflate(Decrypted(f, i)) /\ DataOf(Inflate(Decrypted(f, i))) = store[f][i].data
        /\ ~Compressed => DataOf(Decrypted(f, i)) = store[f][i].data
    BY <2>1, OpenedIs DEF Decrypted
  <2>3. store[f][i].data \in Plainly
    BY <2>1 DEF AtRestPages
  <2>. QED BY <1>2, <2>2, <2>3 DEF GetFails, Get, Exists
<1>. QED BY <1>1, <1>2

LEMMA PatchedPageIs ==
  ASSUME IInv, NEW f \in Files, NEW i \in Nat, NEW offset \in Nat, NEW data \in Data
  PROVE  PatchedPage(f, i, offset, data) \in Plainly
<1>1. data \in Seq(Nat) /\ \A n \in 1..Len(data) : data[n] \in Bytes
  <2>1. data \in Seq(Nat) BY PageFilesAssumption
  <2>2. \A n \in 1..Len(data) : data[n] \in Range(data) BY <2>1 DEF Range
  <2>. QED BY <2>1, <2>2 DEF Bytes
<1>2. Get(f, i) \in [1..PAGE_SIZE -> Bytes]
  BY GetFacts DEF Plainly
<1>3. i * PAGE_SIZE \in Nat /\ PAGE_SIZE \in Nat
  BY PageFilesAssumption
<1>4. ASSUME NEW k \in 1..PAGE_SIZE, NEW at, at = i * PAGE_SIZE + k - 1,
             at \in offset .. offset + Len(data) - 1
      PROVE  data[at - offset + 1] \in Bytes
  <2>1. at - offset + 1 \in 1..Len(data) BY <1>1, <1>3, <1>4
  <2>. QED BY <1>1, <2>1
<1>. QED BY <1>2, <1>4 DEF PatchedPage, Plainly

-----------------------------------------------------------------------------
(* The invariant.                                                           *)

LEMMA PageMapNotNull ==
  ASSUME NEW f \in Files, NEW m, PageMap(f, m)
  PROVE  m # NULL /\ \A i \in DOMAIN m : m[i] # DELETED /\ m[i] \in PageType
<1>1. AtRestPages(f) \subseteq PageType
  <2>1. Layers(f) \in Stack
    <3>1. Pressed \in Stack BY LayersAre
    <3>2. Append(Pressed, "x") \in Stack BY <3>1, StackFacts
    <3>3. Layers(f) = Append(Pressed, "x") \/ Layers(f) = Pressed BY LayersAre
    <3>. QED BY <3>1, <3>2, <3>3
  <2>. QED BY <2>1 DEF AtRestPages, PageType, Plainly, Stack
<1>2. m \in [DOMAIN m -> PageType]
  BY <1>1 DEF PageMap
<1>. QED BY <1>2, MarkersAssumption DEF PageMap

\* What a write or a truncate adds to the batch.
LEMMA BatchedMap ==
  ASSUME IInv, NEW f \in Files, NEW new, PageMap(f, new)
  PROVE  PageMap(f, Batched(f, new))
<1>1. PageMap(f, Pending(f))
  BY DEF IInv, Pending, PageMap, Empty
<1>. QED BY <1>1 DEF Batched, PageMap

\* What a flush leaves in the store, deleted pages or not.
LEMMA FlushedMap ==
  ASSUME IInv, NEW f \in Files, NEW batch,
         \A i \in DOMAIN batch : batch[i] # DELETED => i \in Indices /\ batch[i] \in AtRestPages(f)
  PROVE  PageMap(f, Flushed(f, batch))
<1>1. PageMap(f, store[f])
  BY DEF IInv
<1>. QED BY <1>1 DEF Flushed, PageMap

LEMMA XWriteInv ==
  ASSUME IInv, NEW f \in Files, NEW offset \in Nat, NEW data \in Data,
         offset + Len(data) <= Capacity, XWrite(f, offset, data)
  PROVE  IInv'
<1>. USE DEF XWrite
<1> DEFINE pages == Span(offset, Len(data))
           new == [i \in pages |-> AtRest(f, Plain(PatchedPage(f, i, offset, data)))]
<1>1. Len(data) \in Nat \ {0}
  BY PageFilesAssumption, EmptySeq
<1>2. pages \in SUBSET Indices
  BY <1>1, SpanInIndices
<1>3. PageMap(f, new)
  <2>1. ASSUME NEW i \in pages PROVE AtRest(f, Plain(PatchedPage(f, i, offset, data))) \in AtRestPages(f)
    <3>1. i \in Nat BY <1>2 DEF Indices
    <3>2. PatchedPage(f, i, offset, data) \in Plainly BY <3>1, PatchedPageIs
    <3>. QED BY <3>2, AtRestIs DEF AtRestPages
  <2>. QED BY <1>2, <2>1 DEF PageMap
<1>4. writes' \in 0..MaxWrites /\ store' = store
  BY PageFilesAssumption DEF IInv
<1>5. files' = files \/ files' = [files EXCEPT ![f] = Batched(f, new)]
  OBVIOUS
<1>6. PageMap(f, Batched(f, new))
  BY <1>3, BatchedMap
<1>. HIDE DEF new, pages
<1>7. spoiled' \in BOOLEAN
  BY DEF IInv
<1>8. files' = [g \in Files |-> files'[g]] /\ \A g \in Files : files'[g] = NULL \/ PageMap(g, files'[g])
  BY <1>5, <1>6 DEF IInv
<1>. QED BY <1>4, <1>7, <1>8 DEF IInv

LEMMA XTruncateInv ==
  ASSUME IInv, NEW f \in Files, NEW size \in 0..Capacity, XTruncate(f, size)
  PROVE  IInv'
<1>. USE DEF XTruncate
<1> DEFINE new == [i \in LastPage(f) + 1 .. PageOf(size - 1) |-> AtRest(f, Plain(ZeroPage))]
<1>1. LastPage(f) \in Int /\ LastPage(f) >= -1
  <2>1. DOMAIN store[f] \in SUBSET Indices BY DEF IInv, PageMap
  <2>2. store[f] # Empty => DOMAIN store[f] # {} BY DEF IInv, PageMap, Empty
  <2>. QED BY <2>1, <2>2, MaxOfPages DEF LastPage, Indices
<1>2. ASSUME size # (LastPage(f) + 1) * PAGE_SIZE, ~(size < (LastPage(f) + 1) * PAGE_SIZE)
      PROVE  PageMap(f, new)
  <2>0. (LastPage(f) + 1) * PAGE_SIZE \in Nat BY <1>1, PageFilesAssumption
  <2>1. size - 1 \in Nat /\ size - 1 < Capacity
    BY <1>2, <2>0, PageFilesAssumption DEF Capacity
  <2>2. PageOf(size - 1) \in Indices BY <2>1, CapacityPages
  <2>3. LastPage(f) + 1 .. PageOf(size - 1) \in SUBSET Indices
    BY <1>1, <2>2, PageFilesAssumption DEF Indices
  <2>4. AtRest(f, Plain(ZeroPage)) \in AtRestPages(f)
    BY AtRestIs, ZeroPageIs DEF AtRestPages
  <2>. QED BY <2>3, <2>4 DEF PageMap
<1>3. files' = files \/ (PageMap(f, new) /\ files' = [files EXCEPT ![f] = Batched(f, new)])
  BY <1>2
<1>4. UNCHANGED <<store, spoiled, writes>>
  OBVIOUS
<1>. HIDE DEF new
<1>5. files' = [g \in Files |-> files'[g]] /\ \A g \in Files : files'[g] = NULL \/ PageMap(g, files'[g])
  BY <1>3, BatchedMap DEF IInv
<1>. QED BY <1>4, <1>5 DEF IInv

LEMMA FlushInv ==
  ASSUME IInv, NEW f \in Files, NEW batch, Flush(f, batch), UNCHANGED <<spoiled, writes>>,
         \A i \in DOMAIN batch : batch[i] # DELETED => i \in Indices /\ batch[i] \in AtRestPages(f)
  PROVE  IInv'
<1>1. PageMap(f, Flushed(f, batch))
  BY FlushedMap
<1>. QED BY <1>1 DEF Flush, IInv

LEMMA XSyncInv ==
  ASSUME IInv, NEW f \in Files, XSync(f)
  PROVE  IInv'
<1>1. CASE files[f] = NULL
  BY <1>1 DEF XSync, IInv
<1>2. CASE files[f] # NULL
  <2>1. \A i \in DOMAIN files[f] : i \in Indices /\ files[f][i] \in AtRestPages(f)
    BY <1>2 DEF IInv, PageMap
  <2>2. Flush(f, files[f]) /\ UNCHANGED <<spoiled, writes>>
    BY <1>2 DEF XSync
  <2>. QED BY <2>1, <2>2, FlushInv
<1>. QED BY <1>1, <1>2

LEMMA XDeleteInv ==
  ASSUME IInv, NEW f \in Files, XDelete(f)
  PROVE  IInv'
<1> DEFINE batch == Batched(f, [i \in 0..LastPage(f) |-> DELETED])
<1>1. \A i \in DOMAIN batch : batch[i] # DELETED => i \in Indices /\ batch[i] \in AtRestPages(f)
  <2>1. PageMap(f, Pending(f))
    BY DEF IInv, Pending, PageMap, Empty
  <2>. QED BY <2>1 DEF Batched, PageMap
<1>2. CASE UNCHANGED <<store, files, spoiled, writes>>
  BY <1>2 DEF IInv
<1>3. CASE Flush(f, batch) /\ UNCHANGED <<spoiled, writes>>
  <2>. HIDE DEF batch
  <2>. QED BY <1>1, <1>3, FlushInv
<1>. QED BY <1>2, <1>3 DEF XDelete

LEMMA InitInv == Init => IInv
<1>. SUFFICES ASSUME Init PROVE IInv
  OBVIOUS
<1>1. \A f \in Files : PageMap(f, Empty)
  BY DEF PageMap, Empty
<1>2. /\ store = [f \in Files |-> Empty] /\ files = [f \in Files |-> NULL]
      /\ spoiled = FALSE /\ writes = 0
  BY DEF Init
<1>3. writes \in 0..MaxWrites
  BY <1>2, PageFilesAssumption
<1>. QED BY <1>1, <1>2, <1>3 DEF IInv

LEMMA NextInv == IInv /\ [Next]_vars => IInv'
<1>. SUFFICES ASSUME IInv, [Next]_vars PROVE IInv'
  OBVIOUS
<1>1. CASE UNCHANGED vars
  BY <1>1 DEF vars, IInv
<1>2. CASE Close
  BY <1>2 DEF Close, IInv
<1>3. ASSUME NEW f \in Files, NEW offset \in 0..Capacity - 1, NEW len \in 1..Capacity, XRead(f, offset, len)
      PROVE  IInv'
  BY <1>3 DEF XRead, IInv
<1>4. ASSUME NEW f \in Files, NEW offset \in 0..Capacity - 1, NEW data \in Data,
             offset + Len(data) <= Capacity, XWrite(f, offset, data)
      PROVE  IInv'
  <2>1. offset \in Nat BY PageFilesAssumption DEF Capacity
  <2>. QED BY <1>4, <2>1, XWriteInv
<1>5. ASSUME NEW f \in Files, XSize(f) \/ XAccess(f) PROVE IInv'
  <2>1. UNCHANGED <<store, files, spoiled, writes>> BY <1>5 DEF XSize, XAccess
  <2>. QED BY <2>1 DEF IInv
<1>. QED BY <1>1, <1>2, <1>3, <1>4, <1>5, XTruncateInv, XSyncInv, XDeleteInv DEF Next

LEMMA Invariance == Spec => []IInv
<1>. QED BY InitInv, NextInv, PTL DEF Spec

LEMMA PendingMap ==
  ASSUME IInv, NEW f \in Files
  PROVE  PageMap(f, Pending(f))
BY DEF IInv, Pending, PageMap, Empty

\* The files never grow past their indices, and no page is stored that was
\* made of what decrypt and inflate return for a page they cannot open.
THEOREM TypesCorrect == Spec => []TypeOK
<1>1. IInv => TypeOK
  <2>. SUFFICES ASSUME IInv PROVE TypeOK
    OBVIOUS
  <2>1. \A f \in Files : PageMap(f, store[f]) /\ PageMap(f, Pending(f))
    BY PendingMap DEF IInv
  <2>. QED BY <2>1, PageMapNotNull DEF IInv, TypeOK, PageMap
<1>. QED BY <1>1, Invariance, PTL

\* Every page _tryPut hands on is deflated when the database is compressed and
\* then encrypted when it is a temporary file's, in batch and store.
THEOREM PagesProtectedAlways == Spec => []PagesProtected
<1>1. IInv => PagesProtected
  <2>. SUFFICES ASSUME IInv PROVE PagesProtected
    OBVIOUS
  <2>1. \A f \in Files : PageMap(f, store[f]) /\ PageMap(f, Pending(f))
    BY PendingMap DEF IInv
  <2>. QED BY <2>1 DEF PagesProtected, PageMap, AtRestPages
<1>. QED BY <1>1, Invariance, PTL

-----------------------------------------------------------------------------
(* Maps of pages as files of bytes.                                         *)

PagesOf(m) == IF m = Empty THEN 0 ELSE Max(DOMAIN m) + 1

\* The byte at offset n.
ByteOf(m, n) == IF PageOf(n) \in DOMAIN m THEN m[PageOf(n)].data[(n % PAGE_SIZE) + 1] ELSE 0

\* The pages of m with those of b over them.
Over(m, b) == [i \in DOMAIN m \cup DOMAIN b |-> IF i \in DOMAIN b THEN b[i] ELSE m[i]]
Latest(f) == Over(store[f], Pending(f))

LEMMA PagesOfFacts ==
  ASSUME NEW f, NEW m, PageMap(f, m)
  PROVE  /\ PagesOf(m) \in 0..MaxPages /\ PagesOf(m) * PAGE_SIZE \in Nat
         /\ \A i \in DOMAIN m : i < PagesOf(m)
         /\ m # Empty => PagesOf(m) - 1 \in DOMAIN m
         /\ m = Empty <=> DOMAIN m = {}
<1>0. MaxPages \in Nat \ {0} /\ PAGE_SIZE \in Nat \ {0}
  BY PageFilesAssumption
<1>1. m = Empty <=> DOMAIN m = {}
  BY DEF PageMap, Empty
<1>2. CASE m = Empty
  BY <1>0, <1>1, <1>2 DEF PagesOf
<1>3. CASE m # Empty
  <2>1. Max(DOMAIN m) \in DOMAIN m /\ \A i \in DOMAIN m : i <= Max(DOMAIN m)
    BY <1>1, <1>3, MaxOfPages DEF PageMap
  <2>2. Max(DOMAIN m) \in 0..MaxPages - 1 /\ \A i \in DOMAIN m : i \in Nat
    BY <2>1 DEF PageMap, Indices
  <2>3. PagesOf(m) = Max(DOMAIN m) + 1
    BY <1>3 DEF PagesOf
  <2>4. PagesOf(m) \in 0..MaxPages /\ PagesOf(m) \in Nat
    BY <1>0, <2>2, <2>3
  <2>5. PagesOf(m) * PAGE_SIZE \in Nat
    BY <1>0, <2>4
  <2>. QED BY <1>1, <1>3, <2>1, <2>2, <2>3, <2>4, <2>5
<1>. QED BY <1>2, <1>3

\* Beyond the last page every byte is zero.
LEMMA ContentsFacts ==
  ASSUME NEW f, NEW m, PageMap(f, m)
  PROVE  /\ ContentsOf(m) = [k \in 1..PagesOf(m) * PAGE_SIZE |-> ByteOf(m, k - 1)]
         /\ Len(ContentsOf(m)) = PagesOf(m) * PAGE_SIZE
         /\ \A k \in Nat \ {0} : Byte!ByteAt(ContentsOf(m), k) = ByteOf(m, k - 1)
<1>0. PagesOf(m) \in Nat /\ PagesOf(m) * PAGE_SIZE \in Nat /\ \A i \in DOMAIN m : i < PagesOf(m)
  BY PagesOfFacts, PageFilesAssumption
<1>1. ContentsOf(m) = [k \in 1..PagesOf(m) * PAGE_SIZE |-> ByteOf(m, k - 1)]
  <2>1. CASE m = Empty
    <3>1. ContentsOf(m) = <<>> /\ PagesOf(m) * PAGE_SIZE = 0
      BY <2>1, PageFilesAssumption DEF ContentsOf, PagesOf
    <3>. QED BY <3>1
  <2>2. CASE m # Empty
    BY <2>2 DEF ContentsOf, PagesOf, ByteOf
  <2>. QED BY <2>1, <2>2
<1> DEFINE n == PagesOf(m) * PAGE_SIZE
<1>2. Len(ContentsOf(m)) = n
  BY <1>0, <1>1
<1>3. ASSUME NEW k \in Nat \ {0} PROVE Byte!ByteAt(ContentsOf(m), k) = ByteOf(m, k - 1)
  <2>1. CASE k <= n
    BY <1>0, <1>1, <1>2, <2>1 DEF Byte!ByteAt
  <2>2. CASE ~(k <= n)
    <3>1. k - 1 \in Nat /\ n <= k - 1 BY <1>0, <2>2
    <3>2. PageOf(k - 1) \in Nat /\ k - 1 < (PageOf(k - 1) + 1) * PAGE_SIZE
      BY <3>1, PageOfFacts
    <3>3. ~(PageOf(k - 1) < PagesOf(m))
      <4>1. SUFFICES ASSUME PageOf(k - 1) < PagesOf(m) PROVE FALSE OBVIOUS
      <4>2. (PageOf(k - 1) + 1) * PAGE_SIZE <= n BY <1>0, <3>2, <4>1, TimesGrows
      <4>3. (PageOf(k - 1) + 1) * PAGE_SIZE \in Nat BY <3>2, PageFilesAssumption
      <4>. HIDE DEF n
      <4>. QED BY <1>0, <3>1, <3>2, <4>2, <4>3 DEF n
    <3>4. PageOf(k - 1) \notin DOMAIN m BY <1>0, <3>3
    <3>. QED BY <1>2, <2>2, <3>4 DEF Byte!ByteAt, ByteOf
  <2>. QED BY <2>1, <2>2
<1>. QED BY <1>1, <1>2, <1>3

LEMMA OverMap ==
  ASSUME NEW f, NEW m, PageMap(f, m), NEW b, PageMap(f, b)
  PROVE  PageMap(f, Over(m, b))
BY DEF PageMap, Over

\* Pages up to one after the last page of m, or of b when that is farther.
LEMMA OverPages ==
  ASSUME NEW f, NEW m, PageMap(f, m), NEW b, PageMap(f, b),
         NEW last \in DOMAIN b, \A i \in DOMAIN b : i <= last
  PROVE  PagesOf(Over(m, b)) = IF last < PagesOf(m) THEN PagesOf(m) ELSE last + 1
<1> DEFINE o == Over(m, b)
<1>1. PageMap(f, o) /\ DOMAIN o = DOMAIN m \cup DOMAIN b
  BY OverMap DEF Over
<1>. HIDE DEF o
<1>2. \A i \in DOMAIN m \cup DOMAIN b : i \in Nat
  BY DEF PageMap, Indices
<1>3. PagesOf(o) \in Nat /\ (\A i \in DOMAIN o : i < PagesOf(o)) /\ PagesOf(o) - 1 \in DOMAIN o
  <2>1. /\ PagesOf(o) \in 0..MaxPages /\ \A i \in DOMAIN o : i < PagesOf(o)
        /\ (o # Empty => PagesOf(o) - 1 \in DOMAIN o) /\ (o = Empty <=> DOMAIN o = {})
    BY <1>1, PagesOfFacts
  <2>. QED BY <1>1, <2>1, PageFilesAssumption
<1>4. PagesOf(m) \in Nat /\ (\A i \in DOMAIN m : i < PagesOf(m)) /\ (PagesOf(m) = 0 \/ PagesOf(m) - 1 \in DOMAIN m)
  BY PagesOfFacts, PageFilesAssumption DEF PagesOf
<1>. QED BY <1>1, <1>2, <1>3, <1>4 DEF o

\* RoundUp, in pages.
LEMMA RoundUpIs ==
  ASSUME NEW n \in Nat \ {0}
  PROVE  Byte!RoundUp(n) = (PageOf(n - 1) + 1) * PAGE_SIZE
<1>0. PAGE_SIZE \in Nat \ {0} BY PageFilesAssumption
<1>1. n - 1 \in Nat BY <1>0
<1> DEFINE i == PageOf(n - 1)
<1>2. i \in Nat /\ i * PAGE_SIZE <= n - 1 /\ n - 1 < (i + 1) * PAGE_SIZE
  BY <1>1, PageOfFacts
<1>. HIDE DEF i
<1>3. (i + 1) * PAGE_SIZE = i * PAGE_SIZE + PAGE_SIZE /\ i * PAGE_SIZE \in Nat
      /\ ((i + 1) + 1) * PAGE_SIZE = (i + 1) * PAGE_SIZE + PAGE_SIZE
  BY <1>0, <1>2
<1>4. n + PAGE_SIZE - 1 \in Nat /\ (i + 1) * PAGE_SIZE <= n + PAGE_SIZE - 1
      /\ n + PAGE_SIZE - 1 < ((i + 1) + 1) * PAGE_SIZE
  BY <1>0, <1>2, <1>3
<1>5. PageOf(n + PAGE_SIZE - 1) = i + 1
  BY <1>2, <1>4, PageOfIs
<1>. QED BY <1>5 DEF Byte!RoundUp, PageOf, i

LEMMA RoundUpWhole ==
  ASSUME NEW n \in Nat
  PROVE  Byte!RoundUp(n * PAGE_SIZE) = n * PAGE_SIZE
<1>0. PAGE_SIZE \in Nat \ {0} BY PageFilesAssumption
<1>1. n * PAGE_SIZE \in Nat /\ (n + 1) * PAGE_SIZE = n * PAGE_SIZE + PAGE_SIZE BY <1>0
<1> DEFINE x == n * PAGE_SIZE
<1>. HIDE DEF x
<1>2. x + PAGE_SIZE - 1 \in Nat /\ n * PAGE_SIZE <= x + PAGE_SIZE - 1
      /\ x + PAGE_SIZE - 1 < (n + 1) * PAGE_SIZE
  BY <1>0, <1>1 DEF x
<1>3. PageOf(x + PAGE_SIZE - 1) = n
  BY <1>2, PageOfIs
<1>. QED BY <1>3 DEF Byte!RoundUp, PageOf, x

\* The pages new are those of m with data written over a part of them.
Overlays(m, new, offset, data, len) ==
  /\ DOMAIN new = Span(offset, len)
  /\ \A i \in Span(offset, len), k \in 1..PAGE_SIZE :
       new[i].data[k] = IF i * PAGE_SIZE + k - 1 \in offset .. offset + len - 1
                          THEN data[i * PAGE_SIZE + k - 1 - offset + 1]
                          ELSE ByteOf(m, i * PAGE_SIZE + k - 1)

LEMMA OverByte ==
  ASSUME NEW m, NEW new, NEW offset \in Nat, NEW data, NEW len \in Nat \ {0},
         Overlays(m, new, offset, data, len), NEW n \in Nat
  PROVE  ByteOf(Over(m, new), n) = IF n \in offset .. offset + len - 1
                                     THEN data[n - offset + 1] ELSE ByteOf(m, n)
<1>0. PAGE_SIZE \in Nat \ {0} BY PageFilesAssumption
<1>. USE DEF Overlays
<1> DEFINE i == PageOf(n)
           j == (n % PAGE_SIZE) + 1
<1>1. i \in Nat /\ n % PAGE_SIZE \in 0..(PAGE_SIZE - 1) /\ n = i * PAGE_SIZE + (n % PAGE_SIZE)
  BY PageOfFacts
<1>2. j \in 1..PAGE_SIZE /\ i * PAGE_SIZE \in Nat BY <1>0, <1>1
<1>3. i * PAGE_SIZE + j - 1 = n BY <1>0, <1>1, <1>2
<1>4. CASE i \in Span(offset, len)
  <2>1. ByteOf(Over(m, new), n) = new[i].data[j]
    BY <1>4 DEF Over, ByteOf
  <2>. HIDE DEF i, j
  <2>. QED BY <1>2, <1>3, <1>4, <2>1
<1>5. CASE i \notin Span(offset, len)
  <2>1. ByteOf(Over(m, new), n) = ByteOf(m, n)
    BY <1>5 DEF Over, ByteOf
  <2>2. n \notin offset .. offset + len - 1
    <3>1. SUFFICES ASSUME n \in offset .. offset + len - 1 PROVE FALSE OBVIOUS
    <3>2. offset <= n /\ n <= offset + len - 1 /\ offset + len - 1 \in Nat BY <3>1
    <3>3. PageOf(offset) <= i /\ i <= PageOf(offset + len - 1) BY <3>2, PageOfGrows
    <3>. QED BY <1>1, <1>5, <3>2, <3>3, PageOfFacts DEF Span
  <2>. QED BY <2>1, <2>2
<1>. QED BY <1>4, <1>5

-----------------------------------------------------------------------------
(* PageFiles implements ByteFile.                                           *)

LatestFine ==
  \A f \in Files : /\ PageMap(f, store[f]) /\ PageMap(f, Latest(f))
                   /\ Contents(f) = ContentsOf(Latest(f))
                   /\ files[f] = NULL => Latest(f) = store[f]

LEMMA LatestIs == IInv => LatestFine
<1>. SUFFICES ASSUME IInv, NEW f \in Files
              PROVE  /\ PageMap(f, store[f]) /\ PageMap(f, Latest(f))
                     /\ Contents(f) = ContentsOf(Latest(f))
                     /\ files[f] = NULL => Latest(f) = store[f]
  BY DEF LatestFine
<1>1. PageMap(f, store[f]) /\ PageMap(f, Pending(f))
  BY PendingMap DEF IInv
<1>2. PageMap(f, Latest(f))
  BY <1>1, OverMap DEF Latest
<1>3. \A i \in DOMAIN Pending(f) : Pending(f)[i] # DELETED
  BY <1>1, PageMapNotNull
<1>4. Flushed(f, Pending(f)) = Latest(f)
  BY <1>3 DEF Flushed, Latest, Over
<1>5. files[f] = NULL => Latest(f) = store[f]
  BY <1>1 DEF Latest, Over, Pending, Empty, PageMap
<1>. QED BY <1>1, <1>2, <1>4, <1>5 DEF Contents

LEMMA LatestIsNext == IInv' => LatestFine'
BY LatestIs, PTL

Same(g) == store'[g] = store[g] /\ files'[g] = files[g]

LEMMA Elsewhere ==
  ASSUME IInv, IInv', NEW g \in Files, Same(g)
  PROVE  Contents(g)' = Contents(g) /\ ContentsOf(store[g])' = ContentsOf(store[g])
<1>1. Latest(g)' = Latest(g)
  BY DEF Same, Latest, Pending
<1>. QED BY <1>1, LatestIs, LatestIsNext DEF LatestFine, Same

\* What is done to a file that is not disciplined is a stutter.
LEMMA OtherFile ==
  ASSUME IInv, IInv', \A g \in Disciplined : Same(g), out' = out
  PROVE  UNCHANGED Byte!vars
<1>1. \A g \in Disciplined : Contents(g)' = Contents(g) /\ ContentsOf(store[g])' = ContentsOf(store[g])
  BY Elsewhere, PageFilesAssumption
<1>. QED BY <1>1 DEF Byte!vars

LEMMA FailRefines ==
  ASSUME IInv, IInv', UNCHANGED <<store, files>>, NEW f \in Disciplined,
         NEW op \in {"read", "write", "truncate", "sync", "delete", "size", "access"}, Failed(f, op)
  PROVE  Byte!Next
<1>1. \A g \in Disciplined : Contents(g)' = Contents(g) /\ ContentsOf(store[g])' = ContentsOf(store[g])
  BY Elsewhere, PageFilesAssumption DEF Same
<1>2. Byte!Fail(op)
  BY <1>1 DEF Byte!Fail, Byte!Out, Failed, Result, Out
<1>. QED BY <1>2 DEF Byte!Next

LEMMA ReadRefines ==
  ASSUME IInv, IInv', NEW f \in Disciplined, NEW offset \in Nat, NEW len \in Nat \ {0},
         offset + len <= Capacity, Clean(f, Span(offset, len)), XRead(f, offset, len)
  PROVE  Byte!Next
<1>. USE DEF XRead
<1>0. f \in Files /\ Capacity \in Nat
  BY PageFilesAssumption DEF Capacity
<1>1. \A g \in Disciplined : Contents(g)' = Contents(g) /\ ContentsOf(store[g])' = ContentsOf(store[g])
  BY Elsewhere, PageFilesAssumption DEF Same
<1>2. ASSUME NEW k \in 1..len
      PROVE  Get(f, PageOf(offset + k - 1))[((offset + k - 1) % PAGE_SIZE) + 1]
               = Byte!ByteAt(Contents(f), offset + k)
  <2> DEFINE at == offset + k - 1
             i == PageOf(at)
  <2>1. at \in Nat /\ offset <= at /\ at <= offset + len - 1 /\ offset + len - 1 \in Nat
        /\ offset + k \in Nat \ {0} /\ (offset + k) - 1 = at
    OBVIOUS
  <2>2. i \in Span(offset, len) /\ i \in Nat
    <3>1. PageOf(offset) <= i /\ i <= PageOf(offset + len - 1)
      BY <2>1, PageOfGrows
    <3>2. PageOf(offset) \in Nat /\ i \in Nat /\ PageOf(offset + len - 1) \in Nat
      BY <2>1, PageOfFacts
    <3>. HIDE DEF i
    <3>. QED BY <3>1, <3>2 DEF Span
  <2>3. at % PAGE_SIZE \in 0..(PAGE_SIZE - 1) /\ PAGE_SIZE \in Nat \ {0}
    BY <2>1, PageOfFacts, PageFilesAssumption
  <2>4. i \notin DOMAIN Pending(f)
    BY <2>2 DEF Clean
  <2>5. PageMap(f, Latest(f)) /\ Contents(f) = ContentsOf(Latest(f))
    BY <1>0, LatestIs DEF LatestFine
  <2>6. Byte!ByteAt(Contents(f), offset + k) = ByteOf(Latest(f), at)
    BY <2>1, <2>5, ContentsFacts
  <2>7. Get(f, i)[(at % PAGE_SIZE) + 1] = ByteOf(Latest(f), at)
    <3>1. Get(f, i) = IF i \in DOMAIN store[f] THEN store[f][i].data ELSE ZeroPage
      BY <1>0, <2>2, GetFacts
    <3>2. ZeroPage[(at % PAGE_SIZE) + 1] = 0
      BY <2>3 DEF ZeroPage
    <3>. QED BY <2>4, <3>1, <3>2 DEF ByteOf, Latest, Over
  <2>. QED BY <2>6, <2>7
<1>3. \A i \in Span(offset, len) : ~GetFails(f, i)
  <2>1. Span(offset, len) \in SUBSET Indices BY SpanInIndices
  <2>. QED BY <1>0, <2>1, GetFacts DEF Indices
<1>4. out' = Out("read", TRUE, [k \in 1..len |-> Byte!ByteAt(Contents(f), offset + k)])
  <2>1. out' = Out("read", TRUE, [k \in 1..len |->
                 Get(f, PageOf(offset + k - 1))[((offset + k - 1) % PAGE_SIZE) + 1]])
    BY <1>3 DEF Result
  <2>. QED BY <1>2, <2>1
<1>5. Byte!Read(f, offset, len)
  BY <1>1, <1>4 DEF Byte!Read, Byte!Out, Out
<1>6. offset \in 0..Capacity - 1 /\ len \in 1..Capacity - offset
  BY <1>0
<1>. QED BY <1>5, <1>6 DEF Byte!Next, Byte!Capacity, Capacity

LEMMA SizeRefines ==
  ASSUME IInv, IInv', NEW f \in Disciplined, Synced(f), XSize(f) \/ XAccess(f)
  PROVE  Byte!Next
<1>0. f \in Files
  BY PageFilesAssumption
<1>1. \A g \in Disciplined : Contents(g)' = Contents(g) /\ ContentsOf(store[g])' = ContentsOf(store[g])
  BY Elsewhere, PageFilesAssumption DEF Same, XSize, XAccess
<1>2. PageMap(f, store[f]) /\ Contents(f) = ContentsOf(store[f])
  BY <1>0, LatestIs DEF LatestFine, Synced
<1>3. LastPage(f) + 1 = PagesOf(store[f])
  BY DEF LastPage, PagesOf
<1>4. PagesOf(store[f]) \in Nat /\ LastPage(f) \in Int
  <2>1. PagesOf(store[f]) \in Nat BY <1>2, PagesOfFacts, PageFilesAssumption
  <2>2. LastPage(f) = PagesOf(store[f]) - 1
    <3>1. CASE store[f] = Empty
      BY <3>1 DEF LastPage, PagesOf
    <3>2. CASE store[f] # Empty
      <4>1. DOMAIN store[f] # {} /\ DOMAIN store[f] \in SUBSET Indices
        BY <1>2, <3>2, PagesOfFacts DEF PageMap
      <4>2. Max(DOMAIN store[f]) \in Indices
        BY <4>1, MaxOfPages
      <4>3. Max(DOMAIN store[f]) \in Int
        BY <4>2, PageFilesAssumption DEF Indices
      <4>. QED BY <3>2, <4>3 DEF LastPage, PagesOf
    <3>. QED BY <3>1, <3>2
  <2>. QED BY <2>1, <2>2
<1>5. Len(Contents(f)) = PagesOf(store[f]) * PAGE_SIZE
  BY <1>2, ContentsFacts
<1>6. CASE XSize(f)
  <2>1. Byte!Size(f)
    BY <1>1, <1>3, <1>5, <1>6 DEF XSize, Byte!Size, Byte!Out, Out, Result
  <2>. QED BY <2>1 DEF Byte!Next
<1>7. CASE XAccess(f)
  <2>1. Contents(f) = <<>> <=> PagesOf(store[f]) = 0
    <3>1. PagesOf(store[f]) = 0 => Contents(f) = <<>>
      <4>1. SUFFICES ASSUME PagesOf(store[f]) = 0 PROVE Contents(f) = <<>>
        OBVIOUS
      <4>2. store[f] = Empty
        <5>1. store[f] # Empty => PagesOf(store[f]) - 1 \in DOMAIN store[f]
          BY <1>2, PagesOfFacts
        <5>2. -1 \notin DOMAIN store[f]
          BY <1>2 DEF PageMap, Indices
        <5>. QED BY <4>1, <5>1, <5>2
      <4>. QED BY <1>2, <4>2 DEF ContentsOf
    <3>2. Contents(f) = <<>> => PagesOf(store[f]) * PAGE_SIZE = 0
      BY <1>5
    <3>. QED BY <1>4, <3>1, <3>2, PageFilesAssumption
  <2>2. (IF LastPage(f) >= 0 THEN 1 ELSE 0) = IF Contents(f) = <<>> THEN 0 ELSE 1
    BY <1>3, <1>4, <2>1
  <2>3. Byte!Access(f)
    BY <1>1, <1>7, <2>2 DEF XAccess, Byte!Access, Byte!Out, Out, Result
  <2>. QED BY <2>3 DEF Byte!Next
<1>. QED BY <1>6, <1>7

LEMMA CloseRefines ==
  ASSUME IInv, IInv', Close
  PROVE  Byte!Next
<1>1. \A g \in Disciplined : Contents(g)' = ContentsOf(store[g])
  BY LatestIsNext, PageFilesAssumption DEF LatestFine, Close
<1>2. Byte!Close
  BY <1>1 DEF Close, Byte!Close, Byte!Out, Out
<1>. QED BY <1>2 DEF Byte!Next

LEMMA SyncRefines ==
  ASSUME IInv, IInv', NEW f \in Disciplined, XSync(f)
  PROVE  Byte!Next
<1>0. f \in Files
  BY PageFilesAssumption
<1>1. CASE files[f] = NULL
  <2>1. UNCHANGED <<store, files>> /\ Failed(f, "sync") BY <1>1 DEF XSync
  <2>. QED BY <2>1, FailRefines
<1>2. CASE files[f] # NULL
  <2>1. Flush(f, files[f]) /\ out' = Out("sync", TRUE, <<>>)
    BY <1>2 DEF XSync, Done, Result
  <2>2. \A g \in Disciplined \ {f} : Same(g)
    BY <2>1, PageFilesAssumption DEF Flush, Same, IInv
  <2>3. \A g \in Disciplined \ {f} :
          Contents(g)' = Contents(g) /\ ContentsOf(store[g])' = ContentsOf(store[g])
    BY <2>2, Elsewhere, PageFilesAssumption
  <2>4. store'[f] = Flushed(f, files[f]) /\ files'[f] = NULL
    BY <1>0, <2>1 DEF Flush, IInv
  <2>5. ContentsOf(store'[f]) = Contents(f)
    BY <1>2, <2>4 DEF Contents, Pending
  <2>6. Contents(f)' = ContentsOf(store'[f])
    BY <1>0, <2>4, LatestIsNext DEF LatestFine
  <2>7. Byte!Sync(f)
    BY <2>1, <2>3, <2>5, <2>6 DEF Byte!Sync, Byte!Out, Out
  <2>. QED BY <2>7 DEF Byte!Next
<1>. QED BY <1>1, <1>2

LEMMA DeleteRefines ==
  ASSUME IInv, IInv', NEW f \in Disciplined, Synced(f), XDelete(f)
  PROVE  Byte!Next
<1>0. f \in Files /\ files[f] = NULL
  BY PageFilesAssumption DEF Synced
<1>1. CASE UNCHANGED <<store, files>> /\ Failed(f, "delete")
  BY <1>1, FailRefines
<1> DEFINE batch == Batched(f, [i \in 0..LastPage(f) |-> DELETED])
<1>2. CASE Flush(f, batch) /\ Done(f, "delete")
  <2>1. out' = Out("delete", TRUE, <<>>)
    BY <1>2 DEF Done, Result
  <2>2. \A g \in Disciplined \ {f} : Same(g)
    BY <1>2, PageFilesAssumption DEF Flush, Same, IInv
  <2>3. \A g \in Disciplined \ {f} :
          Contents(g)' = Contents(g) /\ ContentsOf(store[g])' = ContentsOf(store[g])
    BY <2>2, Elsewhere, PageFilesAssumption
  <2>4. DOMAIN batch = 0..LastPage(f) /\ \A i \in 0..LastPage(f) : batch[i] = DELETED
    BY <1>0 DEF Batched, Pending, Empty
  <2>5. \A i \in DOMAIN store[f] : i \in 0..LastPage(f)
    <3>1. DOMAIN store[f] \in SUBSET Indices BY <1>0 DEF IInv, PageMap
    <3>2. ASSUME NEW i \in DOMAIN store[f] PROVE i \in 0..LastPage(f)
      <4>1. store[f] # Empty BY <3>2 DEF Empty
      <4>2. i <= Max(DOMAIN store[f]) /\ Max(DOMAIN store[f]) \in DOMAIN store[f]
        BY <3>1, MaxOfPages
      <4>. QED BY <3>1, <4>1, <4>2 DEF LastPage, Indices
    <3>. QED BY <3>2
  <2>. HIDE DEF batch
  <2>6. Flushed(f, batch) = Empty
    BY <2>4, <2>5 DEF Flushed, Empty
  <2>7. store'[f] = Empty /\ files'[f] = NULL
    BY <1>0, <1>2, <2>6 DEF Flush, IInv
  <2>8. ContentsOf(store'[f]) = <<>> /\ Contents(f)' = <<>>
    BY <1>0, <2>7, LatestIsNext DEF LatestFine, ContentsOf
  <2>9. Byte!Delete(f)
    BY <2>1, <2>3, <2>8 DEF Byte!Delete, Byte!Out, Out
  <2>. QED BY <2>9 DEF Byte!Next
<1>. QED BY <1>1, <1>2 DEF XDelete

LEMMA WriteRefines ==
  ASSUME IInv, IInv', NEW f \in Disciplined, NEW offset \in Nat, NEW data \in Data,
         offset + Len(data) <= Capacity,
         Clean(f, {i \in Span(offset, Len(data)) : ~Whole(i, offset, Len(data))}),
         XWrite(f, offset, data)
  PROVE  Byte!Next
<1> DEFINE pages == Span(offset, Len(data))
           new == [i \in pages |-> AtRest(f, Plain(PatchedPage(f, i, offset, data)))]
           m == Latest(f)
           last == PageOf(offset + Len(data) - 1)
<1>0. f \in Files /\ PAGE_SIZE \in Nat \ {0} /\ Len(data) \in Nat \ {0} /\ Capacity \in Nat
  BY PageFilesAssumption DEF Capacity
<1>1. pages \in SUBSET Indices /\ offset + Len(data) - 1 \in Nat /\ \A i \in pages : i \in Nat
  BY <1>0, SpanInIndices DEF Indices
<1>2. \A i \in pages : ~GetFails(f, i)
  BY <1>0, <1>1, GetFacts
<1>3. /\ files' = [files EXCEPT ![f] = Batched(f, new)]
      /\ out' = Out("write", TRUE, <<>>) /\ store' = store
  BY <1>2 DEF XWrite, Done, Result
<1>4. \A i \in pages : new[i].data = PatchedPage(f, i, offset, data)
  BY <1>0, AtRestIs
<1>5. PageMap(f, new)
  <2>1. \A i \in pages : new[i] \in AtRestPages(f)
    BY <1>0, <1>1, AtRestIs, PatchedPageIs DEF AtRestPages
  <2>. QED BY <1>1, <2>1 DEF PageMap
<1>6. PageMap(f, m) /\ Contents(f) = ContentsOf(m)
  BY <1>0, LatestIs DEF LatestFine
<1>7. \A i \in pages, k \in 1..PAGE_SIZE :
        new[i].data[k] = IF i * PAGE_SIZE + k - 1 \in offset .. offset + Len(data) - 1
                           THEN data[i * PAGE_SIZE + k - 1 - offset + 1]
                           ELSE ByteOf(m, i * PAGE_SIZE + k - 1)
  <2>. SUFFICES ASSUME NEW i \in pages, NEW k \in 1..PAGE_SIZE
                PROVE  new[i].data[k] = IF i * PAGE_SIZE + k - 1 \in offset .. offset + Len(data) - 1
                                          THEN data[i * PAGE_SIZE + k - 1 - offset + 1]
                                          ELSE ByteOf(m, i * PAGE_SIZE + k - 1)
    OBVIOUS
  <2> DEFINE at == i * PAGE_SIZE + k - 1
  <2>1. new[i].data[k] = IF at \in offset .. offset + Len(data) - 1
                           THEN data[at - offset + 1] ELSE Get(f, i)[k]
    BY <1>4 DEF PatchedPage
  <2>2. i \in Nat /\ i * PAGE_SIZE \in Nat /\ (i + 1) * PAGE_SIZE = i * PAGE_SIZE + PAGE_SIZE
    BY <1>0, <1>1
  <2>3. at \in Nat /\ i * PAGE_SIZE <= at /\ at < (i + 1) * PAGE_SIZE
    BY <1>0, <2>2
  <2>4. PageOf(at) = i
    BY <2>2, <2>3, PageOfIs
  <2>5. (at % PAGE_SIZE) + 1 = k
    <3>1. at = PageOf(at) * PAGE_SIZE + (at % PAGE_SIZE) /\ at % PAGE_SIZE \in 0..(PAGE_SIZE - 1)
      BY <2>3, PageOfFacts
    <3>2. i * PAGE_SIZE + k - 1 = i * PAGE_SIZE + (at % PAGE_SIZE)
      BY <2>4, <3>1
    <3>. HIDE DEF at
    <3>. QED BY <1>0, <2>2, <3>1, <3>2
  <2>6. ASSUME at \notin offset .. offset + Len(data) - 1
        PROVE  Get(f, i)[k] = ByteOf(m, at)
    <3>1. ~Whole(i, offset, Len(data))
      BY <1>0, <2>2, <2>3, <2>6 DEF Whole
    <3>2. i \notin DOMAIN Pending(f)
      BY <3>1 DEF Clean
    <3>3. Get(f, i) = IF i \in DOMAIN store[f] THEN store[f][i].data ELSE ZeroPage
      BY <1>0, <2>2, GetFacts
    <3>4. ByteOf(m, at) = IF i \in DOMAIN store[f] THEN store[f][i].data[k] ELSE 0
      BY <2>4, <2>5, <3>2 DEF ByteOf, Latest, Over
    <3>. QED BY <3>3, <3>4 DEF ZeroPage
  <2>7. CASE at \in offset .. offset + Len(data) - 1
    <3>1. at - offset + 1 = i * PAGE_SIZE + k - 1 - offset + 1
      BY <1>0, <2>2
    <3>. QED BY <2>1, <2>7, <3>1
  <2>8. CASE at \notin offset .. offset + Len(data) - 1
    BY <2>1, <2>6, <2>8
  <2>. QED BY <2>7, <2>8
<1>8. Latest(f)' = Over(m, new)
  <2>1. Batched(f, new) # NULL
    BY <1>0, <1>5, BatchedMap, PageMapNotNull
  <2>2. Pending(f)' = Batched(f, new)
    BY <1>0, <1>3, <2>1 DEF Pending, IInv
  <2>. QED BY <1>3, <2>2 DEF Latest, Over, Batched
<1>9. PageMap(f, Over(m, new)) /\ Contents(f)' = ContentsOf(Over(m, new))
  <2>1. Contents(f)' = ContentsOf(Latest(f)')
    BY <1>0, LatestIsNext DEF LatestFine
  <2>. QED BY <1>5, <1>6, <1>8, <2>1, OverMap
<1>10. last \in pages /\ (\A i \in pages : i <= last) /\ last \in Nat
  <2>1. PageOf(offset) <= last
    BY <1>0, <1>1, PageOfGrows
  <2>2. PageOf(offset) \in Nat /\ last \in Nat
    BY <1>1, PageOfFacts
  <2>. QED BY <2>1, <2>2 DEF Span
<1>11. PagesOf(m) \in Nat /\ PagesOf(m) * PAGE_SIZE \in Nat /\ Len(Contents(f)) = PagesOf(m) * PAGE_SIZE
  <2>1. PagesOf(m) \in 0..MaxPages /\ PagesOf(m) * PAGE_SIZE \in Nat
    BY <1>6, PagesOfFacts
  <2>. QED BY <1>6, <2>1, ContentsFacts, PageFilesAssumption
<1> DEFINE end == offset + Len(data)
           size == IF Len(Contents(f)) >= end THEN Len(Contents(f)) ELSE Byte!RoundUp(end)
<1>12. PagesOf(Over(m, new)) * PAGE_SIZE = size
  <2>1. PagesOf(Over(m, new)) = IF last < PagesOf(m) THEN PagesOf(m) ELSE last + 1
    <3>1. DOMAIN new = pages OBVIOUS
    <3>. HIDE DEF new, pages, last, m
    <3>. QED BY <1>5, <1>6, <1>10, <3>1, OverPages
  <2>2. last * PAGE_SIZE <= end - 1 /\ end - 1 < (last + 1) * PAGE_SIZE
        /\ Byte!RoundUp(end) = (last + 1) * PAGE_SIZE /\ end \in Nat \ {0}
    <3>1. end \in Nat \ {0} /\ end - 1 \in Nat
      BY <1>0
    <3>. HIDE DEF end
    <3>2. last = PageOf(end - 1) BY DEF end
    <3>3. Byte!RoundUp(end) = (last + 1) * PAGE_SIZE
      BY <3>1, <3>2, RoundUpIs
    <3>4. PageOf(end - 1) * PAGE_SIZE <= end - 1 /\ end - 1 < (PageOf(end - 1) + 1) * PAGE_SIZE
      BY <3>1, PageOfFacts
    <3>. QED BY <3>1, <3>2, <3>3, <3>4
  <2>. HIDE DEF last, m, new, pages, end
  <2>3. last * PAGE_SIZE \in Nat /\ (last + 1) * PAGE_SIZE \in Nat
    BY <1>0, <1>10
  <2>4. CASE last < PagesOf(m)
    <3>1. (last + 1) * PAGE_SIZE <= PagesOf(m) * PAGE_SIZE
      BY <1>10, <1>11, <2>4, TimesGrows
    <3>2. Len(Contents(f)) >= end
      BY <1>11, <2>2, <2>3, <3>1
    <3>. QED BY <1>11, <2>1, <2>4, <3>2
  <2>5. CASE ~(last < PagesOf(m))
    <3>1. PagesOf(m) * PAGE_SIZE <= last * PAGE_SIZE
      <4>1. PagesOf(m) = last \/ PagesOf(m) < last BY <1>10, <1>11, <2>5
      <4>2. PagesOf(m) < last => PagesOf(m) * PAGE_SIZE < last * PAGE_SIZE
        BY <1>10, <1>11, TimesGrows
      <4>. QED BY <1>11, <2>3, <4>1, <4>2
    <3>2. ~(Len(Contents(f)) >= end)
      BY <1>11, <2>2, <2>3, <3>1
    <3>. QED BY <2>1, <2>2, <2>5, <3>2
  <2>. QED BY <2>4, <2>5
<1>13. \A n \in Nat : ByteOf(Over(m, new), n) = IF n \in offset .. offset + Len(data) - 1
                                                  THEN data[n - offset + 1] ELSE ByteOf(m, n)
  <2>1. DOMAIN new = pages OBVIOUS
  <2>. HIDE DEF new, m
  <2>2. Overlays(m, new, offset, data, Len(data))
    BY <1>7, <2>1 DEF Overlays
  <2>. QED BY <1>0, <2>2, OverByte
<1>14. Contents(f)' = Byte!Patched(Contents(f), offset, data)
  <2>. HIDE DEF new, m, last, pages
  <2>1. size \in Nat
    <3>1. PagesOf(Over(m, new)) * PAGE_SIZE \in Nat
      BY <1>9, PagesOfFacts
    <3>. QED BY <1>12, <3>1
  <2>2. Contents(f)' = [k \in 1..size |-> ByteOf(Over(m, new), k - 1)]
    BY <1>9, <1>12, ContentsFacts
  <2>3. ASSUME NEW k \in 1..size
        PROVE  ByteOf(Over(m, new), k - 1)
                 = IF k \in offset + 1 .. offset + Len(data) THEN data[k - offset]
                   ELSE Byte!ByteAt(Contents(f), k)
    <3>0. k \in Nat \ {0} /\ k - 1 \in Nat BY <2>1
    <3>1. Byte!ByteAt(Contents(f), k) = ByteOf(m, k - 1)
      BY <1>6, <3>0, ContentsFacts
    <3>2. k - 1 \in offset .. offset + Len(data) - 1 <=> k \in offset + 1 .. offset + Len(data)
      BY <1>0, <3>0
    <3>3. k - 1 - offset + 1 = k - offset
      BY <3>0
    <3>. QED BY <1>13, <3>0, <3>1, <3>2, <3>3
  <2>. HIDE DEF size
  <2>4. [k \in 1..size |-> ByteOf(Over(m, new), k - 1)]
          = [k \in 1..size |-> IF k \in offset + 1 .. offset + Len(data) THEN data[k - offset]
                               ELSE Byte!ByteAt(Contents(f), k)]
    BY <2>3
  <2>. QED BY <2>2, <2>4 DEF Byte!Patched, size
<1>15. \A g \in Disciplined \ {f} : Same(g)
  BY <1>3, PageFilesAssumption DEF Same, IInv
<1>16. \A g \in Disciplined \ {f} : Contents(g)' = Contents(g)
  BY <1>15, Elsewhere, PageFilesAssumption
<1>. HIDE DEF new, m, last, pages, size, end
<1>17. Byte!Write(f, offset, data)
  BY <1>3, <1>14, <1>16 DEF Byte!Write, Byte!Out, Out
<1>18. offset \in 0..Capacity - 1
  BY <1>0
<1>. QED BY <1>17, <1>18 DEF Byte!Next, Byte!Capacity, Capacity

LEMMA TruncateRefines ==
  ASSUME IInv, IInv', NEW f \in Disciplined, NEW size \in 0..Capacity, Synced(f), XTruncate(f, size)
  PROVE  Byte!Next
<1> DEFINE m == store[f]
           p == PagesOf(m)
           last == PageOf(size - 1)
           new == [i \in p .. last |-> AtRest(f, Plain(ZeroPage))]
<1>0. f \in Files /\ PAGE_SIZE \in Nat \ {0} /\ Capacity \in Nat /\ size \in Nat /\ files[f] = NULL
  BY PageFilesAssumption DEF Capacity, Synced
<1>1. PageMap(f, m) /\ Contents(f) = ContentsOf(m)
  BY <1>0, LatestIs DEF LatestFine
<1>2. p \in Nat /\ p * PAGE_SIZE \in Nat /\ \A i \in DOMAIN m : i < p
  BY <1>1, PagesOfFacts, PageFilesAssumption
<1>3. LastPage(f) + 1 = p
  BY DEF LastPage, PagesOf
<1>4. CASE size < p * PAGE_SIZE
  <2>1. UNCHANGED <<store, files>> /\ Failed(f, "truncate")
    BY <1>3, <1>4 DEF XTruncate
  <2>. QED BY <2>1, FailRefines
<1>5. ASSUME Contents(f)' = Byte!Fit(Contents(f), Byte!RoundUp(size)),
             out' = Out("truncate", TRUE, <<>>), store' = store,
             \A g \in Disciplined \ {f} : files'[g] = files[g]
      PROVE  Byte!Next
  <2>1. \A g \in Disciplined \ {f} : Contents(g)' = Contents(g)
    BY <1>5, Elsewhere, PageFilesAssumption DEF Same
  <2>2. Byte!Truncate(f, size)
    BY <1>5, <2>1 DEF Byte!Truncate, Byte!Out, Out
  <2>. QED BY <2>2 DEF Byte!Next, Byte!Capacity, Capacity
<1>6. CASE size = p * PAGE_SIZE
  <2>1. UNCHANGED <<store, files>> /\ out' = Out("truncate", TRUE, <<>>)
    <3>1. size = (LastPage(f) + 1) * PAGE_SIZE /\ ~(size < (LastPage(f) + 1) * PAGE_SIZE)
      BY <1>0, <1>3, <1>6
    <3>. QED BY <3>1 DEF XTruncate, Done, Result
  <2>2. Contents(f)' = Contents(f)
    BY <1>0, <2>1, Elsewhere DEF Same
  <2>3. Byte!RoundUp(size) = p * PAGE_SIZE
    BY <1>2, <1>6, RoundUpWhole
  <2>4. Contents(f) = Byte!Fit(Contents(f), p * PAGE_SIZE)
    BY <1>1, <1>2, ContentsFacts DEF Byte!Fit
  <2>. QED BY <1>5, <2>1, <2>2, <2>3, <2>4
<1>7. CASE p * PAGE_SIZE < size
  <2>0. size - 1 \in Nat /\ size \in Nat \ {0} /\ p * PAGE_SIZE <= size - 1 /\ size - 1 < Capacity
    BY <1>0, <1>2, <1>7
  <2>1. files' = [files EXCEPT ![f] = Batched(f, new)] /\ store' = store
        /\ out' = Out("truncate", TRUE, <<>>)
    <3>1. size # (LastPage(f) + 1) * PAGE_SIZE /\ ~(size < (LastPage(f) + 1) * PAGE_SIZE)
      <4>. HIDE DEF p
      <4>. QED BY <1>0, <1>2, <1>3, <1>7
    <3>2. new = [i \in LastPage(f) + 1 .. PageOf(size - 1) |-> AtRest(f, Plain(ZeroPage))]
      BY <1>3
    <3>. HIDE DEF new
    <3>. QED BY <3>1, <3>2 DEF XTruncate, Done, Result
  <2>2. last \in Indices /\ last \in Nat /\ p <= last
    <3>1. last \in Indices /\ last \in Nat BY <2>0, CapacityPages DEF Indices
    <3>2. PageOf(p * PAGE_SIZE) = p
      <4>1. p * PAGE_SIZE < (p + 1) * PAGE_SIZE /\ p * PAGE_SIZE <= p * PAGE_SIZE
        BY <1>0, <1>2
      <4>. QED BY <1>2, <4>1, PageOfIs
    <3>3. PageOf(p * PAGE_SIZE) <= last BY <1>2, <2>0, PageOfGrows
    <3>. QED BY <3>1, <3>2, <3>3
  <2>3. \A i \in p .. last : new[i].data = ZeroPage /\ new[i] \in AtRestPages(f)
    BY <1>0, AtRestIs, ZeroPageIs DEF AtRestPages
  <2>. HIDE DEF last
  <2>4. PageMap(f, new)
    <3>. HIDE DEF p
    <3>1. p .. last \in SUBSET Indices
      BY <1>2, <2>2, PageFilesAssumption DEF Indices
    <3>2. new = [i \in p .. last |-> new[i]] /\ DOMAIN new = p .. last
      OBVIOUS
    <3>. HIDE DEF new
    <3>. QED BY <2>3, <3>1, <3>2 DEF PageMap
  <2>5. Latest(f)' = Over(m, new)
    <3>1. Batched(f, new) = new
      BY <1>0 DEF Batched, Pending, Empty
    <3>2. Batched(f, new) # NULL
      BY <1>0, <2>4, BatchedMap, PageMapNotNull
    <3>3. Pending(f)' = new
      BY <1>0, <2>1, <3>1, <3>2 DEF Pending, IInv
    <3>. QED BY <2>1, <3>3 DEF Latest
  <2>6. PageMap(f, Over(m, new)) /\ Contents(f)' = ContentsOf(Over(m, new))
    <3>1. Contents(f)' = ContentsOf(Latest(f)')
      BY <1>0, LatestIsNext DEF LatestFine
    <3>. QED BY <1>1, <2>4, <2>5, <3>1, OverMap
  <2>7. PagesOf(Over(m, new)) = last + 1
    <3>1. last \in DOMAIN new /\ \A i \in DOMAIN new : i <= last
      BY <1>2, <2>2
    <3>2. PagesOf(Over(m, new)) = IF last < PagesOf(m) THEN PagesOf(m) ELSE last + 1
      <4>. HIDE DEF new, m, p
      <4>. QED BY <1>1, <2>4, <3>1, OverPages
    <3>. QED BY <1>2, <2>2, <3>2
  <2>8. Byte!RoundUp(size) = (last + 1) * PAGE_SIZE
    BY <2>0, RoundUpIs DEF last
  <2>9. ASSUME NEW n \in Nat PROVE ByteOf(Over(m, new), n) = ByteOf(m, n)
    <3>1. PageOf(n) \in Nat /\ (n % PAGE_SIZE) + 1 \in 1..PAGE_SIZE
      <4>1. PageOf(n) \in Nat /\ n % PAGE_SIZE \in 0..(PAGE_SIZE - 1)
        BY PageOfFacts
      <4>. QED BY <1>0, <4>1
    <3>2. CASE PageOf(n) \in p .. last
      <4>1. PageOf(n) \notin DOMAIN m BY <1>2, <3>1, <3>2
      <4>2. ByteOf(Over(m, new), n) = ZeroPage[(n % PAGE_SIZE) + 1]
        BY <2>3, <3>2 DEF ByteOf, Over
      <4>. QED BY <3>1, <4>1, <4>2 DEF ByteOf, ZeroPage
    <3>3. CASE PageOf(n) \notin p .. last
      BY <3>3 DEF ByteOf, Over
    <3>. QED BY <3>2, <3>3
  <2>10. Contents(f)' = Byte!Fit(Contents(f), Byte!RoundUp(size))
    <3>. HIDE DEF new, m, p
    <3> DEFINE n == (last + 1) * PAGE_SIZE
    <3>1. n \in Nat BY <1>0, <2>2
    <3>2. Contents(f)' = [k \in 1..n |-> ByteOf(Over(m, new), k - 1)]
      BY <2>6, <2>7, ContentsFacts
    <3>. HIDE DEF n
    <3>3. ASSUME NEW k \in 1..n
          PROVE  ByteOf(Over(m, new), k - 1) = Byte!ByteAt(Contents(f), k)
      <4>1. k \in Nat \ {0} /\ k - 1 \in Nat BY <3>1
      <4>. QED BY <1>1, <2>9, <4>1, ContentsFacts
    <3>. QED BY <2>8, <3>2, <3>3 DEF Byte!Fit, n
  <2>11. \A g \in Disciplined \ {f} : files'[g] = files[g]
    BY <2>1, PageFilesAssumption DEF IInv
  <2>. QED BY <1>5, <2>1, <2>10, <2>11
<1>. QED BY <1>0, <1>2, <1>4, <1>6, <1>7

LEMMA InitRefines == Init => Byte!Init
<1>. SUFFICES ASSUME Init PROVE Byte!Init
  OBVIOUS
<1>1. \A f \in Disciplined : Contents(f) = <<>> /\ ContentsOf(store[f]) = <<>>
  BY InitInv, LatestIs, PageFilesAssumption DEF LatestFine, Init, ContentsOf
<1>. QED BY <1>1 DEF Init, Byte!Init, Byte!Out, Out

\* A method on a file that is not disciplined.
LEMMA UndisciplinedRefines ==
  ASSUME IInv, IInv', NEW f \in Files \ Disciplined,
         \/ \E offset, len : XRead(f, offset, len)
         \/ \E offset, data : XWrite(f, offset, data)
         \/ \E size : XTruncate(f, size)
         \/ XSync(f) \/ XDelete(f) \/ XSize(f) \/ XAccess(f)
  PROVE  UNCHANGED Byte!vars
<1>1. out' = out
  BY DEF XRead, XWrite, XTruncate, XSync, XDelete, XSize, XAccess, Result, Failed, Done
<1>2. /\ files' = files \/ \E b : files' = [files EXCEPT ![f] = b]
      /\ store' = store \/ \E b : store' = [store EXCEPT ![f] = b]
  BY DEF XRead, XWrite, XTruncate, XSync, XDelete, XSize, XAccess, Flush
<1>3. \A g \in Disciplined : Same(g)
  BY <1>2, PageFilesAssumption DEF Same, IInv
<1>. QED BY <1>1, <1>3, OtherFile

LEMMA NextRefines == IInv /\ IInv' /\ [Next]_vars => [Byte!Next]_(Byte!vars)
<1>. SUFFICES ASSUME IInv, IInv', [Next]_vars PROVE Byte!Next \/ UNCHANGED Byte!vars
  OBVIOUS
<1>0. Capacity \in Nat BY PageFilesAssumption DEF Capacity
<1>1. CASE UNCHANGED vars
  BY <1>1, OtherFile DEF vars, Same
<1>2. CASE Close
  BY <1>2, CloseRefines
<1>3. ASSUME NEW f \in Files, NEW offset \in 0..Capacity - 1, NEW len \in 1..Capacity,
             offset + len <= Capacity, Clean(f, Span(offset, len)), XRead(f, offset, len)
      PROVE  Byte!Next \/ UNCHANGED Byte!vars
  <2>1. CASE f \in Disciplined
    <3>1. offset \in Nat /\ len \in Nat \ {0} BY <1>0
    <3>. QED BY <1>3, <2>1, <3>1, ReadRefines
  <2>2. CASE f \notin Disciplined
    BY <1>3, <2>2, UndisciplinedRefines
  <2>. QED BY <2>1, <2>2
<1>4. ASSUME NEW f \in Files, NEW offset \in 0..Capacity - 1, NEW data \in Data,
             offset + Len(data) <= Capacity,
             Clean(f, {i \in Span(offset, Len(data)) : ~Whole(i, offset, Len(data))}),
             XWrite(f, offset, data)
      PROVE  Byte!Next \/ UNCHANGED Byte!vars
  <2>1. CASE f \in Disciplined
    <3>1. offset \in Nat BY <1>0
    <3>. QED BY <1>4, <2>1, <3>1, WriteRefines
  <2>2. CASE f \notin Disciplined
    BY <1>4, <2>2, UndisciplinedRefines
  <2>. QED BY <2>1, <2>2
<1>5. ASSUME NEW f \in Files, NEW size \in 0..Capacity, Synced(f), XTruncate(f, size)
      PROVE  Byte!Next \/ UNCHANGED Byte!vars
  <2>1. CASE f \in Disciplined
    BY <1>5, <2>1, TruncateRefines
  <2>2. CASE f \notin Disciplined
    BY <1>5, <2>2, UndisciplinedRefines
  <2>. QED BY <2>1, <2>2
<1>6. ASSUME NEW f \in Files, XSync(f)
      PROVE  Byte!Next \/ UNCHANGED Byte!vars
  BY <1>6, SyncRefines, UndisciplinedRefines
<1>7. ASSUME NEW f \in Files, Synced(f), XDelete(f)
      PROVE  Byte!Next \/ UNCHANGED Byte!vars
  BY <1>7, DeleteRefines, UndisciplinedRefines
<1>8. ASSUME NEW f \in Files, Synced(f), XSize(f) \/ XAccess(f)
      PROVE  Byte!Next \/ UNCHANGED Byte!vars
  BY <1>8, SizeRefines, UndisciplinedRefines
<1>. QED BY <1>1, <1>2, <1>3, <1>4, <1>5, <1>6, <1>7, <1>8 DEF Next

\* Every VFS method on a disciplined file does what ByteFile says of the bytes
\* SQLite sees, its result included: a read returns what was written last, a
\* partial write keeps the rest of its page, a file grows by whole zero pages,
\* what a sync has flushed survives Close and nothing else does.
THEOREM PagesImplementBytes == Spec => ImplementsByteFile
<1>1. Init => Byte!Init
  BY InitRefines
<1>2. IInv /\ IInv' /\ [Next]_vars => [Byte!Next]_(Byte!vars)
  BY NextRefines
<1>. QED BY <1>1, <1>2, Invariance, PTL DEF Spec, ImplementsByteFile, Byte!Spec

-----------------------------------------------------------------------------
(* Where every byte comes from.                                             *)

LEMMA SameKept ==
  ASSUME NEW g \in Files, Same(g), NEW touched
  PROVE  KeptBut(g, touched)
BY DEF Same, KeptBut, ByteNow, FlushedByte, Pending

\* An offset within the file, and its place in its page.
LEMMA PlaceOf ==
  ASSUME NEW n \in 0..Capacity - 1
  PROVE  /\ PageOf(n) \in Nat /\ (n % PAGE_SIZE) + 1 \in 1..PAGE_SIZE
         /\ PageOf(n) * PAGE_SIZE + ((n % PAGE_SIZE) + 1) - 1 = n
<1>1. n \in Nat /\ PAGE_SIZE \in Nat \ {0}
  BY PageFilesAssumption DEF Capacity
<1>2. PageOf(n) \in Nat /\ n % PAGE_SIZE \in 0..(PAGE_SIZE - 1)
      /\ n = PageOf(n) * PAGE_SIZE + (n % PAGE_SIZE)
  BY <1>1, PageOfFacts
<1>3. PageOf(n) * PAGE_SIZE \in Nat
  BY <1>1, <1>2
<1>. QED BY <1>1, <1>2, <1>3

\* What _get returns of a page is what the last flush left there.
LEMMA GetIsFlushed ==
  ASSUME IInv, NEW f \in Files, NEW n \in 0..Capacity - 1
  PROVE  Get(f, PageOf(n))[(n % PAGE_SIZE) + 1] = FlushedByte(f, n)
<1>1. PageOf(n) \in Nat /\ (n % PAGE_SIZE) + 1 \in 1..PAGE_SIZE
  BY PlaceOf
<1>2. Get(f, PageOf(n)) = IF PageOf(n) \in DOMAIN store[f] THEN store[f][PageOf(n)].data ELSE ZeroPage
  BY <1>1, GetFacts
<1>. QED BY <1>1, <1>2 DEF FlushedByte, ZeroPage

LEMMA WriteKeeps ==
  ASSUME IInv, NEW f \in Files, NEW offset \in 0..Capacity - 1, NEW data \in Data,
         offset + Len(data) <= Capacity, XWrite(f, offset, data)
  PROVE  /\ KeptBut(f, Covered(offset, data))
         /\ \A n \in Covered(offset, data) : ByteNow(f, n)' = data[n - offset + 1]
         /\ \A g \in Files \ {f} : KeptBut(g, {})
<1> DEFINE pages == Span(offset, Len(data))
           new == [i \in pages |-> AtRest(f, Plain(PatchedPage(f, i, offset, data)))]
<1>0. Len(data) \in Nat \ {0} /\ Capacity \in Nat /\ offset \in Nat
  BY PageFilesAssumption DEF Capacity
<1>1. pages \in SUBSET Indices /\ offset + Len(data) - 1 \in Nat /\ \A i \in pages : i \in Nat
  BY <1>0, SpanInIndices DEF Indices
<1>2. files' = [files EXCEPT ![f] = Batched(f, new)] /\ store' = store
  <2>1. \A i \in pages : ~GetFails(f, i)
    BY <1>1, GetFacts
  <2>. QED BY <2>1 DEF XWrite
<1>3. \A i \in pages : new[i].data = PatchedPage(f, i, offset, data) /\ new[i] \in AtRestPages(f)
  BY <1>1, <1>0, AtRestIs, PatchedPageIs DEF AtRestPages
<1>4. DOMAIN new = pages
  OBVIOUS
<1>5. PageMap(f, new)
  BY <1>1, <1>3 DEF PageMap
<1>. HIDE DEF new
<1>6. Pending(f)' = Batched(f, new)
  <2>1. Batched(f, new) # NULL
    BY <1>5, BatchedMap, PageMapNotNull
  <2>. QED BY <1>2, <2>1 DEF Pending, IInv
<1>7. ASSUME NEW n \in 0..Capacity - 1
      PROVE  IF n \in Covered(offset, data) THEN ByteNow(f, n)' = data[n - offset + 1]
             ELSE ByteNow(f, n)' \in {ByteNow(f, n), FlushedByte(f, n)}
  <2> DEFINE i == PageOf(n)
             k == (n % PAGE_SIZE) + 1
  <2>1. i \in Nat /\ k \in 1..PAGE_SIZE /\ i * PAGE_SIZE + k - 1 = n
    BY PlaceOf
  <2>2. CASE i \in pages
    <3>1. ByteNow(f, n)' = PatchedPage(f, i, offset, data)[k]
      BY <1>3, <1>4, <1>6, <2>2 DEF ByteNow, Batched
    <3>2. Get(f, i)[k] = FlushedByte(f, n)
      BY GetIsFlushed
    <3>. HIDE DEF i, k
    <3>3. PatchedPage(f, i, offset, data)[k]
            = IF n \in offset .. offset + Len(data) - 1 THEN data[n - offset + 1] ELSE Get(f, i)[k]
      BY <2>1 DEF PatchedPage
    <3>. QED BY <3>1, <3>2, <3>3 DEF Covered
  <2>3. CASE i \notin pages
    <3>1. ByteNow(f, n)' = ByteNow(f, n)
      BY <1>2, <1>4, <1>6, <2>3 DEF ByteNow, FlushedByte, Batched
    <3>2. n \notin Covered(offset, data)
      <4>1. SUFFICES ASSUME n \in offset .. offset + Len(data) - 1 PROVE FALSE
        BY DEF Covered
      <4>2. n \in Nat /\ offset <= n /\ n <= offset + Len(data) - 1
        BY <1>0, <1>1, <4>1
      <4>3. PageOf(offset) <= i /\ i <= PageOf(offset + Len(data) - 1)
        BY <1>0, <1>1, <4>2, PageOfGrows
      <4>4. PageOf(offset) \in Nat /\ PageOf(offset + Len(data) - 1) \in Nat
        BY <1>0, <1>1, PageOfFacts
      <4>. QED BY <2>1, <2>3, <4>3, <4>4 DEF Span
    <3>. QED BY <3>1, <3>2
  <2>. QED BY <2>2, <2>3
<1>8. Covered(offset, data) \subseteq 0..Capacity - 1
  BY <1>0 DEF Covered
<1>9. \A g \in Files \ {f} : KeptBut(g, {})
  BY <1>2, SameKept DEF Same, IInv
<1>. QED BY <1>7, <1>8, <1>9 DEF KeptBut

LEMMA TruncateKeeps ==
  ASSUME IInv, NEW f \in Files, NEW size \in 0..Capacity, XTruncate(f, size)
  PROVE  KeptBut(f, {}) /\ \A g \in Files \ {f} : Same(g)
<1> DEFINE new == [i \in LastPage(f) + 1 .. PageOf(size - 1) |-> AtRest(f, Plain(ZeroPage))]
<1>1. store' = store /\ (files' = files \/ files' = [files EXCEPT ![f] = Batched(f, new)])
  BY DEF XTruncate
<1>2. CASE files' = files
  BY <1>1, <1>2, SameKept DEF Same
<1>3. CASE files' = [files EXCEPT ![f] = Batched(f, new)]
  <2>1. DOMAIN new = LastPage(f) + 1 .. PageOf(size - 1) /\ \A i \in DOMAIN new : new[i].data = ZeroPage
    BY AtRestIs
  <2>. HIDE DEF new
  <2>2. \A i \in DOMAIN new : i \notin DOMAIN store[f]
    <3>1. DOMAIN store[f] \in SUBSET Indices
      BY DEF IInv, PageMap
    <3>2. ASSUME NEW i \in DOMAIN store[f] PROVE i <= LastPage(f) /\ LastPage(f) \in Int /\ i \in Int
      <4>1. store[f] # Empty BY <3>2 DEF Empty
      <4>2. i <= Max(DOMAIN store[f]) /\ Max(DOMAIN store[f]) \in DOMAIN store[f]
        BY <3>1, MaxOfPages
      <4>. QED BY <3>1, <4>1, <4>2 DEF LastPage, Indices
    <3>. QED BY <2>1, <3>2
  <2>3. files'[f] = Batched(f, new) /\ (files'[f] = NULL \/ Pending(f)' = Batched(f, new))
    BY <1>3 DEF IInv, Pending
  <2>4. ASSUME NEW n \in 0..Capacity - 1
        PROVE  ByteNow(f, n)' \in {ByteNow(f, n), FlushedByte(f, n)}
    <3>1. FlushedByte(f, n)' = FlushedByte(f, n)
      BY <1>1 DEF FlushedByte
    <3>2. CASE files'[f] = NULL
      <4>1. Pending(f)' = Empty BY <3>2 DEF Pending
      <4>. QED BY <3>1, <4>1 DEF ByteNow, Empty
    <3>3. CASE Pending(f)' = Batched(f, new)
      <4>1. CASE PageOf(n) \in DOMAIN new
        <5>1. ByteNow(f, n)' = ZeroPage[(n % PAGE_SIZE) + 1]
          BY <2>1, <3>3, <4>1 DEF ByteNow, Batched
        <5>2. FlushedByte(f, n) = 0
          BY <2>2, <4>1 DEF FlushedByte
        <5>. QED BY <5>1, <5>2, PlaceOf DEF ZeroPage
      <4>2. CASE PageOf(n) \notin DOMAIN new
        BY <3>1, <3>3, <4>2 DEF ByteNow, Batched
      <4>. QED BY <4>1, <4>2
    <3>. QED BY <2>3, <3>2, <3>3
  <2>5. \A g \in Files \ {f} : Same(g)
    BY <1>1, <1>3 DEF Same, IInv
  <2>. QED BY <2>4, <2>5 DEF KeptBut
<1>. QED BY <1>1, <1>2, <1>3

\* A flush of a batch of pages leaves every byte as it was.
LEMMA SyncKeeps ==
  ASSUME IInv, NEW f \in Files, XSync(f)
  PROVE  KeptBut(f, {}) /\ \A g \in Files \ {f} : Same(g)
<1>1. CASE files[f] = NULL
  BY <1>1, SameKept DEF XSync, Same
<1>2. CASE files[f] # NULL
  <2>1. /\ files' = [files EXCEPT ![f] = NULL]
        /\ store' = [store EXCEPT ![f] = Flushed(f, files[f])]
    BY <1>2 DEF XSync, Flush
  <2>2. Pending(f)' = Empty /\ store'[f] = Flushed(f, Pending(f))
    BY <1>2, <2>1 DEF Pending, IInv
  <2>3. \A i \in DOMAIN Pending(f) : Pending(f)[i] # DELETED
    BY PendingMap, PageMapNotNull
  <2>4. ASSUME NEW n PROVE ByteNow(f, n)' = ByteNow(f, n)
    <3>1. ByteNow(f, n)' = FlushedByte(f, n)'
      BY <2>2 DEF ByteNow, Empty
    <3>2. FlushedByte(f, n)' = ByteNow(f, n)
      BY <2>2, <2>3 DEF FlushedByte, ByteNow, Flushed
    <3>. QED BY <3>1, <3>2
  <2>5. \A g \in Files \ {f} : Same(g)
    BY <2>1 DEF Same, IInv
  <2>. QED BY <2>4, <2>5 DEF KeptBut
<1>. QED BY <1>1, <1>2

\* A delete leaves no byte but those of pending pages beyond the flushed ones.
LEMMA DeleteClears ==
  ASSUME IInv, NEW f \in Files, XDelete(f)
  PROVE  /\ KeptBut(f, {}) \/ \A n \in 0..Capacity - 1 : ByteNow(f, n)' \in {0, ByteNow(f, n)}
         /\ \A g \in Files \ {f} : Same(g)
<1> DEFINE batch == Batched(f, [i \in 0..LastPage(f) |-> DELETED])
<1>1. CASE UNCHANGED <<store, files>>
  BY <1>1, SameKept DEF Same
<1>2. CASE Flush(f, batch)
  <2>1. /\ files' = [files EXCEPT ![f] = NULL]
        /\ store' = [store EXCEPT ![f] = Flushed(f, batch)]
    BY <1>2 DEF Flush
  <2>2. Pending(f)' = Empty /\ store'[f] = Flushed(f, batch)
    BY <2>1 DEF Pending, IInv
  <2>3. ASSUME NEW n PROVE ByteNow(f, n)' \in {0, ByteNow(f, n)}
    <3> DEFINE i == PageOf(n)
    <3>1. ByteNow(f, n)' = FlushedByte(f, n)'
      BY <2>2 DEF ByteNow, Empty
    <3>2. CASE i \in DOMAIN Flushed(f, batch)
      <4>1. CASE i \in DOMAIN batch
        <5>1. i \in DOMAIN Pending(f) /\ Flushed(f, batch)[i] = Pending(f)[i]
          BY <3>2, <4>1 DEF Flushed, Batched
        <5>. QED BY <2>2, <3>1, <3>2, <5>1 DEF FlushedByte, ByteNow
      <4>2. CASE i \notin DOMAIN batch
        <5>1. i \in DOMAIN store[f] /\ Flushed(f, batch)[i] = store[f][i] /\ i \notin DOMAIN Pending(f)
          BY <3>2, <4>2 DEF Flushed, Batched
        <5>. QED BY <2>2, <3>1, <3>2, <5>1 DEF FlushedByte, ByteNow
      <4>. QED BY <4>1, <4>2
    <3>3. CASE i \notin DOMAIN Flushed(f, batch)
      BY <2>2, <3>1, <3>3 DEF FlushedByte
    <3>. QED BY <3>2, <3>3
  <2>4. \A g \in Files \ {f} : Same(g)
    BY <2>1 DEF Same, IInv
  <2>. QED BY <2>3, <2>4
<1>. QED BY <1>1, <1>2 DEF XDelete

\* In every file, journals that SQLite rewrites before a sync included, what a
\* write covers becomes its data, and any other byte keeps its value or falls
\* back to what the last flush left, except that a delete clears it.
THEOREM BytesKeptAlways == Spec => BytesKept
<1> DEFINE Quiet == /\ writes' = writes
                    /\ \A f \in Files :
                         \/ KeptBut(f, {})
                         \/ /\ XDelete(f)
                            /\ \A n \in 0..Capacity - 1 : ByteNow(f, n)' \in {0, ByteNow(f, n)}
           Wrote == \E f \in Files, offset \in 0..Capacity - 1, data \in Data :
                      /\ offset + Len(data) <= Capacity /\ XWrite(f, offset, data)
                      /\ KeptBut(f, Covered(offset, data))
                      /\ \A n \in Covered(offset, data) : ByteNow(f, n)' = data[n - offset + 1]
                      /\ \A g \in Files \ {f} : KeptBut(g, {})
<1>1. IInv /\ [Next]_vars => [KeepsBytes]_vars
  <2>. SUFFICES ASSUME IInv, Next PROVE Quiet \/ Wrote
    BY DEF KeepsBytes
  <2>1. CASE Close
    <3>1. \A f \in Files : files'[f] = NULL /\ store' = store
      BY <2>1 DEF Close
    <3>2. \A f \in Files : KeptBut(f, {})
      BY <3>1 DEF KeptBut, ByteNow, FlushedByte, Pending, Empty
    <3>. QED BY <2>1, <3>2 DEF Close
  <2>2. ASSUME NEW f \in Files, \/ \E offset, len : XRead(f, offset, len)
                               \/ XSize(f) \/ XAccess(f)
        PROVE  Quiet
    <3>1. UNCHANGED <<store, files, writes>>
      BY <2>2 DEF XRead, XSize, XAccess
    <3>. QED BY <3>1, SameKept DEF Same
  <2>3. ASSUME NEW f \in Files, NEW size \in 0..Capacity, XTruncate(f, size)
        PROVE  Quiet
    <3>1. writes' = writes BY <2>3 DEF XTruncate
    <3>. QED BY <2>3, <3>1, TruncateKeeps, SameKept
  <2>4. ASSUME NEW f \in Files, XSync(f) PROVE Quiet
    <3>1. writes' = writes BY <2>4 DEF XSync
    <3>. QED BY <2>4, <3>1, SyncKeeps, SameKept
  <2>5. ASSUME NEW f \in Files, XDelete(f) PROVE Quiet
    <3>1. writes' = writes BY <2>5 DEF XDelete
    <3>. QED BY <2>5, <3>1, DeleteClears, SameKept
  <2>6. ASSUME NEW f \in Files, NEW offset \in 0..Capacity - 1, NEW data \in Data,
               offset + Len(data) <= Capacity, XWrite(f, offset, data)
        PROVE  Wrote
    BY <2>6, WriteKeeps
  <2>. HIDE DEF Quiet, Wrote
  <2>. QED BY <2>1, <2>2, <2>3, <2>4, <2>5, <2>6 DEF Next
<1>. QED BY <1>1, Invariance, PTL DEF Spec, BytesKept
=============================================================================
