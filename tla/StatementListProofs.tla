-------------------------- MODULE StatementListProofs --------------------------
(***************************************************************************)
(* Proofs about StatementList, for every set of threads and every finite   *)
(* set of statements.                                                      *)
(*                                                                         *)
(* Which job may touch a statement holds whatever overlaps: Jobs, OneOwner,*)
(* Lives and Owned say how the places of the jobs go with what JavaScript  *)
(* knows of their statements, Spent that no handle is finalized twice.     *)
(* While no two jobs have overlapped, at most one is under way (Single)    *)
(* and Shape says, for each place it can be at, how far prev, next and     *)
(* db->statements are from the list they will be when it ends.             *)
(*                                                                         *)
(* A list is Threaded when its statements can be ranked so that next goes  *)
(* up: no order of insertion is kept in the state, so Threaded asserts     *)
(* that a ranking exists.                                                  *)
(***************************************************************************)
EXTENDS StatementList, FiniteSetTheorems, WellFoundedInduction, TLAPS

Maybe == Stmts \cup {NULL}

InsertPlaces == {"insert", "insertPrev", "insertHead"}
RemovePlaces == {"remove", "removeNext", "unlink", "removed"}
Places == InsertPlaces \cup RemovePlaces \cup {"idle", "return", "finalize", "null", "walk", "clear"}
Kinds == {"none", "prepare", "finalize", "collect", "collectDb"}

JobType == [kind : Kinds, s : Maybe, at : Places, next : Maybe]

Typed ==
  /\ dbMem \in {"alloc", "freed"} /\ dbJs \in {"held", "collected"}
  /\ head \in Maybe /\ prev \in [Stmts -> Maybe] /\ next \in [Stmts -> Maybe]
  /\ linked \in [Stmts -> BOOLEAN]
  /\ mem \in [Stmts -> {"none", "alloc", "freed"}]
  /\ handle \in [Stmts -> {"live", "null"}]
  /\ js \in [Stmts -> {"none", "preparing", "held", "finalizing", "released", "collected"}]
  /\ job \in [Threads -> JobType]
  /\ listed \in SUBSET Stmts
  /\ finals \in [Stmts -> Nat]
  /\ overlapped \in BOOLEAN /\ fault \in BOOLEAN

-----------------------------------------------------------------------------
(* Jobs and their statements, whatever overlaps.                            *)

Owns(t, s) ==
  /\ job[t].s = s
  /\ job[t].kind \in {"prepare", "finalize", "collect"} /\ job[t].at # "return"

Jobs == \A t \in Threads :
  /\ job[t].kind = "none" => job[t] = Idle
  /\ job[t].kind = "prepare" => /\ Me(t) \in Stmts
                                /\ \/ job[t].at = "return"
                                   \/ job[t].at \in InsertPlaces /\ js[Me(t)] = "preparing"
  /\ job[t].kind = "finalize" => /\ Me(t) \in Stmts /\ js[Me(t)] = "finalizing"
                                 /\ job[t].at \in {"finalize", "null"} \cup RemovePlaces
                                 /\ job[t].at \in RemovePlaces => handle[Me(t)] = "null"
  /\ job[t].kind = "collect" => /\ Me(t) \in Stmts /\ js[Me(t)] = "collected"
                                /\ mem[Me(t)] = "alloc"
                                /\ job[t].at \in {"finalize"} \cup RemovePlaces
  /\ job[t].kind = "collectDb" => /\ dbJs = "collected"
                                  /\ job[t].at \in {"walk", "clear"}
                                  /\ job[t].at = "clear" => Me(t) \in Stmts

OneOwner == \A t, u \in Threads, s \in Stmts : Owns(t, s) /\ Owns(u, s) => t = u

Lives == \A s \in Stmts :
  /\ mem[s] = "none" => js[s] = "none"
  /\ js[s] = "none" => handle[s] = "null" /\ finals[s] = 0 /\ ~linked[s]
  /\ js[s] \in {"preparing", "held", "finalizing", "released"} => mem[s] = "alloc"
  /\ js[s] = "released" => handle[s] = "null"
  /\ dbJs = "collected" => js[s] # "preparing"

Owned == \A s \in Stmts :
  \/ js[s] \in {"preparing", "finalizing"} \/ (js[s] = "collected" /\ mem[s] # "freed")
  => \E t \in Threads : Owns(t, s)

\* Until the database is collected at the same time as something else runs, a
\* handle that was finalized is one nobody will finalize again.
SpentOnce(s) ==
  /\ finals[s] <= 1
  /\ handle[s] = "live" /\ finals[s] = 1 =>
       \/ js[s] \in {"finalizing", "collected"}
       \/ \E t \in Threads : job[t].at = "clear" /\ job[t].s = s

SpentBy(t) ==
  /\ job[t].at = "finalize" /\ handle[Me(t)] = "live" => finals[Me(t)] = 0
  /\ job[t].kind = "collect" /\ job[t].at \in RemovePlaces /\ handle[Me(t)] = "live" =>
       finals[Me(t)] = 1

Spent == ~overlapped \/ dbJs = "held" =>
           (\A s \in Stmts : SpentOnce(s)) /\ \A t \in Threads : SpentBy(t)

-----------------------------------------------------------------------------
(* The list, as long as no two jobs have overlapped.                        *)

\* The statements of S, from first along nx, with pv the way back.
Threaded(S, first, nx, pv) ==
  /\ first \in S \cup {NULL} /\ (first = NULL => S = {})
  /\ \A s \in S : /\ nx[s] # NULL => nx[s] \in S /\ nx[s] # first /\ pv[nx[s]] = s
                  /\ s # first => pv[s] \in S /\ nx[pv[s]] = s
  /\ \E rank \in [Stmts -> Nat] : \A s \in S : nx[s] # NULL => rank[s] < rank[nx[s]]

Chain(S, first, nx, pv) == Threaded(S, first, nx, pv) /\ (first # NULL => pv[first] = NULL)

\* pv once the statement after s has learnt of the one before.
Past(s, nx, pv) == IF nx[s] # NULL THEN [pv EXCEPT ![nx[s]] = pv[s]] ELSE pv

Linked == {s \in Stmts : linked[s]}
Settled == Chain(listed, head, next, prev) /\ Linked = listed

Busy == {"insertPrev", "insertHead", "removeNext", "unlink", "walk", "clear"}

Shape(t) ==
  /\ job[t].at = "insert" => ~linked[Me(t)]
  /\ job[t].at = "insertPrev" =>
       /\ Chain(listed, head, next, prev) /\ Me(t) \notin listed /\ Linked = listed \cup {Me(t)}
       /\ prev[Me(t)] = NULL /\ next[Me(t)] = head
  /\ job[t].at = "insertHead" =>
       /\ Chain(listed \cup {Me(t)}, Me(t), next, prev)
       /\ Me(t) \notin listed /\ Linked = listed \cup {Me(t)}
  /\ job[t].at = "removeNext" =>
       /\ Me(t) \in listed /\ Linked = listed /\ next[Me(t)] \in listed \cup {NULL}
       /\ Chain(listed \ {Me(t)}, head, next, Past(Me(t), next, prev))
  /\ job[t].at = "unlink" =>
       /\ Me(t) \in listed /\ Linked = listed
       /\ Chain(listed \ {Me(t)}, head, next, prev)
  /\ job[t].at = "removed" => ~linked[Me(t)]
  /\ job[t].at = "walk" => Linked = listed /\ Threaded(listed, Me(t), next, prev)
  /\ job[t].at = "clear" => /\ Linked = listed /\ Threaded(listed, Me(t), next, prev)
                            /\ Me(t) \in listed /\ job[t].next = next[Me(t)]

Single == \A t, u \in Threads : job[t] # Idle /\ job[u] # Idle => t = u

Sequential ==
  /\ ~fault
  /\ Single
  /\ (\A t \in Threads : job[t].at \notin Busy) => Settled
  /\ \A t \in Threads : Shape(t)
  /\ \A s \in listed : mem[s] = "alloc"
  /\ \A s \in Stmts : handle[s] = "live" /\ s \notin listed => finals[s] = 1 \/ js[s] = "preparing"
  /\ dbMem = "freed" => dbJs = "collected" /\ listed = {} /\ head = NULL

IInv == Typed /\ Jobs /\ OneOwner /\ Lives /\ Owned /\ Spent /\ (~overlapped => Sequential)

-----------------------------------------------------------------------------
(* Threaded lists.                                                          *)

\* A set of naturals that is not empty has a least member.
LEMMA LeastMember ==
  ASSUME NEW T \in SUBSET Nat, T # {}
  PROVE  \E x \in T : \A y \in T : x <= y
<1>1. PICK x \in T : \A y \in T : ~ (<<y, x>> \in OpToRel(<, Nat))
  BY WFMin, NatLessThanWellFounded
<1>2. \A y \in T : ~(y < x)
  BY <1>1 DEF OpToRel
<1>. QED BY <1>2

\* A statement of S with no predecessor in T is the first one.
LEMMA LeastRanked ==
  ASSUME NEW T \in SUBSET Stmts, T # {}, NEW rank \in [Stmts -> Nat]
  PROVE  \E s \in T : \A u \in T : rank[s] <= rank[u]
<1>1. {rank[s] : s \in T} \in SUBSET Nat /\ {rank[s] : s \in T} # {}
  OBVIOUS
<1>2. PICK n \in {rank[s] : s \in T} : \A m \in {rank[s] : s \in T} : n <= m
  BY <1>1, LeastMember
<1>. QED BY <1>2

\* Only prev and next of the statements in it matter.
LEMMA ThreadedFrame ==
  ASSUME NEW S \in SUBSET Stmts, NEW first, NEW nx, NEW pv, NEW nx2, NEW pv2,
         Threaded(S, first, nx, pv),
         \A s \in S : nx2[s] = nx[s] /\ (s # first => pv2[s] = pv[s])
  PROVE  Threaded(S, first, nx2, pv2)
<1>1. PICK rank \in [Stmts -> Nat] : \A s \in S : nx[s] # NULL => rank[s] < rank[nx[s]]
  BY DEF Threaded
<1>2. \E r \in [Stmts -> Nat] : \A s \in S : nx2[s] # NULL => r[s] < r[nx2[s]]
  BY <1>1
<1>. QED BY <1>2 DEF Threaded

LEMMA ChainFrame ==
  ASSUME NEW S \in SUBSET Stmts, NEW first, NEW nx, NEW pv, NEW nx2, NEW pv2,
         Chain(S, first, nx, pv), \A s \in S : nx2[s] = nx[s] /\ pv2[s] = pv[s]
  PROVE  Chain(S, first, nx2, pv2)
<1>1. Threaded(S, first, nx2, pv2)
  BY ThreadedFrame DEF Chain
<1>. QED BY <1>1 DEF Chain, Threaded

\* A statement put in front of the list.
LEMMA ThreadedInsert ==
  ASSUME NEW S \in SUBSET Stmts, NEW first, NEW nx \in [Stmts -> Maybe], NEW pv \in [Stmts -> Maybe],
         Chain(S, first, nx, pv), NEW s \in Stmts, s \notin S, nx[s] = first, pv[s] = NULL
  PROVE  Chain(S \cup {s}, s, nx, IF first # NULL THEN [pv EXCEPT ![first] = s] ELSE pv)
<1> DEFINE pv2 == IF first # NULL THEN [pv EXCEPT ![first] = s] ELSE pv
<1>0. NULL \notin Stmts /\ s # NULL
  BY StatementListAssumption
<1>1. PICK rank \in [Stmts -> Nat] : \A u \in S : nx[u] # NULL => rank[u] < rank[nx[u]]
  BY DEF Threaded, Chain
<1>2. \E r \in [Stmts -> Nat] : \A u \in S \cup {s} : nx[u] # NULL => r[u] < r[nx[u]]
  <2> DEFINE r == [u \in Stmts |-> IF u = s THEN 0 ELSE rank[u] + 1]
  <2>1. r \in [Stmts -> Nat] OBVIOUS
  <2>2. \A u \in S : nx[u] # NULL => nx[u] \in S BY DEF Threaded, Chain
  <2>3. first # NULL => first \in S BY DEF Threaded, Chain
  <2>4. ASSUME NEW u \in S \cup {s}, nx[u] # NULL PROVE r[u] < r[nx[u]]
    <3>1. CASE u = s BY <2>3, <2>4, <3>1
    <3>2. CASE u \in S BY <1>1, <2>2, <2>4, <3>2
    <3>. QED BY <3>1, <3>2
  <2>. QED BY <2>1, <2>4
<1>3. pv2[s] = NULL /\ \A u \in Stmts : pv2[u] = IF u = first /\ u # NULL THEN s ELSE pv[u]
  BY <1>0 DEF Threaded, Chain
<1>. HIDE DEF pv2
<1>4. \A u \in S \cup {s} : /\ nx[u] # NULL => nx[u] \in S \cup {s} /\ nx[u] # s /\ pv2[nx[u]] = u
                            /\ u # s => pv2[u] \in S \cup {s} /\ nx[pv2[u]] = u
  BY <1>0, <1>3 DEF Threaded, Chain
<1>5. Threaded(S \cup {s}, s, nx, pv2)
  BY <1>0, <1>2, <1>4 DEF Threaded
<1>. QED BY <1>3, <1>5 DEF Chain, pv2

\* The first statement taken off the list.
LEMMA ThreadedDrop ==
  ASSUME NEW S \in SUBSET Stmts, NEW first \in S, NEW nx, NEW pv, Threaded(S, first, nx, pv)
  PROVE  Threaded(S \ {first}, nx[first], nx, pv)
<1>0. NULL \notin Stmts
  BY StatementListAssumption
<1>1. PICK rank \in [Stmts -> Nat] : \A u \in S : nx[u] # NULL => rank[u] < rank[nx[u]]
  BY DEF Threaded
<1>2. nx[first] = NULL => S \ {first} = {}
  <2>1. SUFFICES ASSUME nx[first] = NULL, S \ {first} # {} PROVE FALSE
    OBVIOUS
  <2>2. PICK s \in S \ {first} : \A u \in S \ {first} : rank[s] <= rank[u]
    BY <2>1, LeastRanked
  <2>3. pv[s] \in S /\ nx[pv[s]] = s
    BY <2>2 DEF Threaded
  <2>4. pv[s] # first
    BY <1>0, <2>1, <2>2, <2>3
  <2>5. rank[pv[s]] < rank[s] /\ rank[s] <= rank[pv[s]]
    BY <1>0, <1>1, <2>2, <2>3, <2>4
  <2>. QED BY <2>2, <2>3, <2>5
<1>3. nx[first] \in (S \ {first}) \cup {NULL}
  BY <1>1 DEF Threaded
<1>4. \A u \in S \ {first} :
        /\ nx[u] # NULL => nx[u] \in S \ {first} /\ nx[u] # nx[first] /\ pv[nx[u]] = u
        /\ u # nx[first] => pv[u] \in S \ {first} /\ nx[pv[u]] = u
  BY DEF Threaded
<1>. QED BY <1>1, <1>2, <1>3, <1>4 DEF Threaded

\* A statement taken out of the list: what comes before points past it.
LEMMA ThreadedRemove ==
  ASSUME NEW S \in SUBSET Stmts, NEW first, NEW nx \in [Stmts -> Maybe], NEW pv \in [Stmts -> Maybe],
         Chain(S, first, nx, pv), NEW s \in S
  PROVE  Chain(S \ {s}, IF pv[s] # NULL THEN first ELSE nx[s],
               IF pv[s] # NULL THEN [nx EXCEPT ![pv[s]] = nx[s]] ELSE nx, Past(s, nx, pv))
<1>0. NULL \notin Stmts
  BY StatementListAssumption
<1>1. PICK rank \in [Stmts -> Nat] : \A u \in S : nx[u] # NULL => rank[u] < rank[nx[u]]
  BY DEF Threaded, Chain
<1> DEFINE pv2 == Past(s, nx, pv)
<1>2. \A u \in Stmts : pv2[u] = IF u = nx[s] /\ u # NULL THEN pv[s] ELSE pv[u]
  BY <1>0 DEF Past
<1>3. Threaded(S, first, nx, pv) /\ (first # NULL => pv[first] = NULL)
  BY DEF Chain
<1>4. pv[s] = NULL <=> s = first
  BY <1>0, <1>3 DEF Threaded
<1>5. CASE pv[s] = NULL
  <2>1. Threaded(S \ {s}, nx[s], nx, pv)
    BY <1>3, <1>4, <1>5, ThreadedDrop
  <2>2. Threaded(S \ {s}, nx[s], nx, pv2)
    BY <1>2, <2>1, ThreadedFrame
  <2>3. nx[s] # NULL => pv2[nx[s]] = NULL
    <3>1. nx[s] # NULL => nx[s] \in Stmts BY DEF Maybe
    <3>. QED BY <1>2, <1>5, <3>1
  <2>. QED BY <1>5, <2>2, <2>3 DEF Chain
<1>6. CASE pv[s] # NULL
  <2> DEFINE p == pv[s]
             nx2 == [nx EXCEPT ![p] = nx[s]]
  <2>1. p \in S /\ nx[p] = s /\ p # s /\ s # first
    BY <1>0, <1>1, <1>3, <1>4, <1>6 DEF Threaded
  <2>2. \A u \in Stmts : nx2[u] = IF u = p THEN nx[s] ELSE nx[u]
    BY <2>1
  <2>3. nx[s] # NULL => nx[s] \in S \ {s} /\ nx[s] # p
    <3>1. rank[p] < rank[s] BY <1>0, <1>1, <2>1
    <3>2. nx[s] # NULL => rank[s] < rank[nx[s]] BY <1>1
    <3>. QED BY <1>1, <1>3, <2>1, <3>1, <3>2 DEF Threaded
  <2>. HIDE DEF pv2, nx2, p
  <2>4. \A u \in S \ {s} : nx2[u] # NULL => nx2[u] \in S \ {s} /\ nx2[u] # first /\ pv2[nx2[u]] = u
    <3>1. TAKE u \in S \ {s}
    <3>2. CASE u = p
      <4>1. nx2[u] = nx[s] BY <2>2, <3>2
      <4>2. nx[s] # NULL => pv2[nx[s]] = p BY <1>2, <2>3 DEF p
      <4>3. nx[s] # NULL => nx[s] # first BY <1>3 DEF Threaded
      <4>. QED BY <2>3, <3>2, <4>1, <4>2, <4>3
    <3>3. CASE u # p
      <4>1. nx2[u] = nx[u] BY <2>2, <3>3
      <4>2. nx[u] # NULL => nx[u] \in S /\ nx[u] # first /\ pv[nx[u]] = u BY <1>3 DEF Threaded
      <4>3. nx[u] # s BY <1>0, <3>3, <4>2 DEF p
      <4>4. nx[u] # NULL => nx[u] # nx[s] BY <1>3, <3>1 DEF Threaded
      <4>. QED BY <1>2, <4>1, <4>2, <4>3, <4>4
    <3>. QED BY <3>2, <3>3
  <2>5. \A u \in S \ {s} : u # first => pv2[u] \in S \ {s} /\ nx2[pv2[u]] = u
    <3>1. TAKE u \in S \ {s}
    <3>2. HAVE u # first
    <3>3. pv[u] \in S /\ nx[pv[u]] = u BY <1>3, <3>2 DEF Threaded
    <3>4. CASE u = nx[s]
      <4>1. pv2[u] = p BY <1>0, <1>2, <3>4 DEF p
      <4>. QED BY <2>1, <2>2, <3>4, <4>1
    <3>5. CASE u # nx[s]
      <4>1. pv2[u] = pv[u] BY <1>2, <3>5
      <4>2. pv[u] # s /\ pv[u] # p BY <2>1, <3>3, <3>5
      <4>. QED BY <2>2, <3>3, <4>1, <4>2
    <3>. QED BY <3>4, <3>5
  <2>6. \A u \in S \ {s} : nx2[u] # NULL => rank[u] < rank[nx2[u]]
    <3>1. TAKE u \in S \ {s}
    <3>2. CASE u = p
      <4>1. nx2[u] = nx[s] BY <2>2, <3>2
      <4>2. rank[p] < rank[s] BY <1>0, <1>1, <2>1
      <4>3. nx[s] # NULL => rank[s] < rank[nx[s]] BY <1>1
      <4>4. nx[s] # NULL => nx[s] \in Stmts BY <2>3
      <4>. QED BY <2>1, <3>2, <4>1, <4>2, <4>3, <4>4
    <3>3. CASE u # p BY <1>1, <2>2, <3>3
    <3>. QED BY <3>2, <3>3
  <2>7. first \in (S \ {s}) \cup {NULL} /\ (first = NULL => S \ {s} = {})
    BY <1>3, <2>1 DEF Threaded
  <2>8. Threaded(S \ {s}, first, nx2, pv2)
    BY <2>4, <2>5, <2>6, <2>7 DEF Threaded
  <2>9. first # NULL => pv2[first] = NULL
    <3>1. first # NULL => first # nx[s] BY <1>3 DEF Threaded
    <3>2. first # NULL => first \in Stmts BY <2>7
    <3>. QED BY <1>2, <1>3, <3>1, <3>2
  <2>. QED BY <1>6, <2>8, <2>9 DEF Chain, pv2, nx2, p
<1>. QED BY <1>5, <1>6
-----------------------------------------------------------------------------
(* Places.                                                                  *)

\* Only the job for the database walks the list.
LEMMA WalksDb ==
  ASSUME IInv, NEW t \in Threads, job[t].at \in {"walk", "clear"}
  PROVE  job[t].kind = "collectDb" /\ dbJs = "collected" /\ job[t] # Idle
BY DEF IInv, Typed, Jobs, JobType, Kinds, Idle, InsertPlaces, RemovePlaces

-----------------------------------------------------------------------------
(* The steps.                                                               *)

LEMMA PrepareStmtStep ==
  ASSUME IInv, NEW t \in Threads, NEW s \in Stmts, PrepareStmt(t, s)
  PROVE  IInv'
<1>. USE DEF PrepareStmt, Begin, fields
<1>0. NULL \notin Stmts
  BY StatementListAssumption
<1>1. /\ \A u \in Threads \ {t} : job'[u] = job[u]
      /\ job'[t].kind = "prepare" /\ job'[t].s = s /\ job'[t].at = "insert" /\ job'[t].next = NULL
  BY DEF IInv, Typed, JobType, Idle, Me
<1>2. job[t] = Idle /\ job[t].kind = "none"
  BY <1>0 DEF Me, Idle
<1>3. \A u \in Threads \ {t}, r \in Stmts : Owns(u, r)' <=> Owns(u, r)
  BY <1>1 DEF Owns
<1>4. Typed'
  BY <1>0, <1>2 DEF IInv, Typed, JobType, Idle, Me, Maybe, Kinds, Places, InsertPlaces, RemovePlaces
<1>5. Jobs'
  BY <1>0, <1>1, <1>2 DEF IInv, Typed, Jobs, Idle, Me, OneOwner, Owns, Lives, InsertPlaces, RemovePlaces
<1>6. OneOwner'
  BY <1>1, <1>2, <1>3 DEF IInv, Typed, Jobs, OneOwner, Owned, Owns, Lives, Me
<1>7. Lives'
  BY <1>1, <1>2 DEF IInv, Typed, Jobs, OneOwner, Owns, Lives, Me
<1>8. Owned'
  BY <1>1, <1>2, <1>3 DEF IInv, Typed, Jobs, OneOwner, Owned, Owns, Lives, Me
<1>9. Spent'
  <2>1. SUFFICES ASSUME ~overlapped' \/ dbJs' = "held"
                PROVE  (\A r \in Stmts : SpentOnce(r)') /\ \A u \in Threads : SpentBy(u)'
    BY DEF Spent
  <2>2. (\A r \in Stmts : SpentOnce(r)) /\ \A u \in Threads : SpentBy(u)
    BY <1>2, <2>1 DEF IInv, Spent, Typed
  <2>3. \A r \in Stmts : SpentOnce(r)'
    <3>1. \A u \in Threads : job[u].at = "clear" => job'[u].at = "clear" /\ job'[u].s = job[u].s
      BY <1>1, <1>2 DEF Idle
    <3>2. TAKE r \in Stmts
    <3>3. SpentOnce(r)
      BY <2>2
    <3>. QED BY <1>2, <2>2, <3>1, <3>3 DEF SpentOnce, SpentBy, IInv, Typed, Lives, Jobs
  <2>4. \A u \in Threads \ {t} : SpentBy(u)'
    BY <1>1, <1>2, <2>2 DEF SpentBy, IInv, Typed, Jobs, OneOwner, Owns, Lives, Me, RemovePlaces
  <2>5. SpentBy(t)'
    BY <1>1, <1>2, <2>2 DEF SpentOnce, SpentBy, IInv, Typed, Lives, Jobs, Me, RemovePlaces
  <2>. QED BY <2>3, <2>4, <2>5
<1>10. ASSUME ~overlapped' PROVE Sequential'
  <2>1. ~overlapped /\ Sequential /\ \A u \in Threads \ {t} : job[u] = Idle
    BY <1>2, <1>10 DEF IInv, Typed, Sequential, Single, Idle
  <2>2. ~fault'
    BY <1>0, <1>1, <1>2, <2>1 DEF IInv, Typed, Sequential, Shape, Settled, Jobs, Lives, Linked, Me
  <2>3. Single'
    BY <1>1, <2>1 DEF Single
  <2>4. (\A u \in Threads : job'[u].at \notin Busy) => Settled'
    BY <1>1, <1>2, <2>1 DEF Sequential, Settled, Busy, Shape, Linked, Me, Idle
  <2>5. Shape(t)'
    BY <1>1, <1>2, <2>1 DEF Sequential, Settled, Busy, Shape, Linked, Me, IInv, Jobs, Lives, Typed
  <2>6. \A u \in Threads \ {t} : Shape(u)'
    <3>1. \A u \in Threads \ {t} : job'[u].at = "idle"
      BY ONLY <1>1, <2>1 DEF Idle
    <3>. QED BY ONLY <3>1 DEF Shape
  <2>7. \A u \in listed' : mem'[u] = "alloc"
    BY <1>1, <1>2, <2>1 DEF Sequential, Settled, Shape, Linked, Me, IInv, Jobs, Lives, Typed
  <2>8. \A u \in Stmts : handle'[u] = "live" /\ u \notin listed' => finals'[u] = 1 \/ js'[u] = "preparing"
    BY <1>1, <1>2, <2>1 DEF Sequential, Spent, Shape, Me, IInv, Jobs, Lives, Typed, RemovePlaces
  <2>9. dbMem' = "freed" => dbJs' = "collected" /\ listed' = {} /\ head' = NULL
    BY <1>0, <1>1, <1>2, <2>1 DEF Sequential, Shape, Me, IInv, Jobs, Lives, Typed
  <2>. QED BY <2>2, <2>3, <2>4, <2>5, <2>6, <2>7, <2>8, <2>9 DEF Sequential
<1>. QED BY <1>4, <1>5, <1>6, <1>7, <1>8, <1>9, <1>10 DEF IInv

LEMMA PrepareFailsStep ==
  ASSUME IInv, NEW t \in Threads, NEW s \in Stmts, PrepareFails(t, s)
  PROVE  IInv'
<1>. USE DEF PrepareFails, Begin, fields
<1>0. NULL \notin Stmts
  BY StatementListAssumption
<1>1. /\ \A u \in Threads \ {t} : job'[u] = job[u]
      /\ job'[t].kind = "prepare" /\ job'[t].s = s /\ job'[t].at = "return" /\ job'[t].next = NULL
  BY DEF IInv, Typed, JobType, Idle, Me
<1>2. job[t] = Idle /\ job[t].kind = "none"
  BY <1>0 DEF Me, Idle
<1>3. \A u \in Threads \ {t}, r \in Stmts : Owns(u, r)' <=> Owns(u, r)
  BY <1>1 DEF Owns
<1>4. Typed'
  BY <1>0, <1>2 DEF IInv, Typed, JobType, Idle, Me, Maybe, Kinds, Places, InsertPlaces, RemovePlaces
<1>5. Jobs'
  BY <1>0, <1>1, <1>2 DEF IInv, Typed, Jobs, Idle, Me, OneOwner, Owns, Lives, InsertPlaces, RemovePlaces
<1>6. OneOwner'
  BY <1>1, <1>2, <1>3 DEF IInv, Typed, Jobs, OneOwner, Owned, Owns, Lives, Me
<1>7. Lives'
  BY <1>1, <1>2 DEF IInv, Typed, Jobs, OneOwner, Owns, Lives, Me
<1>8. Owned'
  BY <1>1, <1>2, <1>3 DEF IInv, Typed, Jobs, OneOwner, Owned, Owns, Lives, Me
<1>9. Spent'
  <2>1. SUFFICES ASSUME ~overlapped' \/ dbJs' = "held"
                PROVE  (\A r \in Stmts : SpentOnce(r)') /\ \A u \in Threads : SpentBy(u)'
    BY DEF Spent
  <2>2. (\A r \in Stmts : SpentOnce(r)) /\ \A u \in Threads : SpentBy(u)
    BY <1>2, <2>1 DEF IInv, Spent, Typed
  <2>3. \A r \in Stmts : SpentOnce(r)'
    <3>1. \A u \in Threads : job[u].at = "clear" => job'[u].at = "clear" /\ job'[u].s = job[u].s
      BY <1>1, <1>2 DEF Idle
    <3>2. TAKE r \in Stmts
    <3>3. SpentOnce(r)
      BY <2>2
    <3>. QED BY <1>2, <2>2, <3>1, <3>3 DEF SpentOnce, SpentBy, IInv, Typed, Lives, Jobs
  <2>4. \A u \in Threads \ {t} : SpentBy(u)'
    BY <1>1, <1>2, <2>2 DEF SpentBy, IInv, Typed, Jobs, OneOwner, Owns, Lives, Me, RemovePlaces
  <2>5. SpentBy(t)'
    BY <1>1, <1>2, <2>2 DEF SpentOnce, SpentBy, IInv, Typed, Lives, Jobs, Me, RemovePlaces
  <2>. QED BY <2>3, <2>4, <2>5
<1>10. ASSUME ~overlapped' PROVE Sequential'
  <2>1. ~overlapped /\ Sequential /\ \A u \in Threads \ {t} : job[u] = Idle
    BY <1>2, <1>10 DEF IInv, Typed, Sequential, Single, Idle
  <2>2. ~fault'
    BY <1>0, <1>1, <1>2, <2>1 DEF IInv, Typed, Sequential, Shape, Settled, Jobs, Lives, Linked, Me
  <2>3. Single'
    BY <1>1, <2>1 DEF Single
  <2>4. (\A u \in Threads : job'[u].at \notin Busy) => Settled'
    BY <1>1, <1>2, <2>1 DEF Sequential, Settled, Busy, Shape, Linked, Me, Idle
  <2>5. Shape(t)'
    BY <1>1, <1>2, <2>1 DEF Sequential, Settled, Busy, Shape, Linked, Me, IInv, Jobs, Lives, Typed
  <2>6. \A u \in Threads \ {t} : Shape(u)'
    <3>1. \A u \in Threads \ {t} : job'[u].at = "idle"
      BY ONLY <1>1, <2>1 DEF Idle
    <3>. QED BY ONLY <3>1 DEF Shape
  <2>7. \A u \in listed' : mem'[u] = "alloc"
    BY <1>1, <1>2, <2>1 DEF Sequential, Settled, Shape, Linked, Me, IInv, Jobs, Lives, Typed
  <2>8. \A u \in Stmts : handle'[u] = "live" /\ u \notin listed' => finals'[u] = 1 \/ js'[u] = "preparing"
    BY <1>1, <1>2, <2>1 DEF Sequential, Spent, Shape, Me, IInv, Jobs, Lives, Typed, RemovePlaces
  <2>9. dbMem' = "freed" => dbJs' = "collected" /\ listed' = {} /\ head' = NULL
    BY <1>0, <1>1, <1>2, <2>1 DEF Sequential, Shape, Me, IInv, Jobs, Lives, Typed
  <2>. QED BY <2>2, <2>3, <2>4, <2>5, <2>6, <2>7, <2>8, <2>9 DEF Sequential
<1>. QED BY <1>4, <1>5, <1>6, <1>7, <1>8, <1>9, <1>10 DEF IInv

LEMMA FinalizeStep ==
  ASSUME IInv, NEW t \in Threads, NEW s \in Stmts, Finalize(t, s)
  PROVE  IInv'
<1>. USE DEF Finalize, Begin, fields
<1>0. NULL \notin Stmts
  BY StatementListAssumption
<1>1. /\ \A u \in Threads \ {t} : job'[u] = job[u]
      /\ job'[t].kind = "finalize" /\ job'[t].s = s /\ job'[t].at = "finalize" /\ job'[t].next = NULL
  BY DEF IInv, Typed, JobType, Idle, Me
<1>2. job[t] = Idle /\ job[t].kind = "none"
  BY <1>0 DEF Me, Idle
<1>3. \A u \in Threads \ {t}, r \in Stmts : Owns(u, r)' <=> Owns(u, r)
  BY <1>1 DEF Owns
<1>4. Typed'
  BY <1>0, <1>2 DEF IInv, Typed, JobType, Idle, Me, Maybe, Kinds, Places, InsertPlaces, RemovePlaces
<1>5. Jobs'
  BY <1>0, <1>1, <1>2 DEF IInv, Typed, Jobs, Idle, Me, OneOwner, Owns, Lives, InsertPlaces, RemovePlaces
<1>6. OneOwner'
  BY <1>1, <1>2, <1>3 DEF IInv, Typed, Jobs, OneOwner, Owned, Owns, Lives, Me
<1>7. Lives'
  BY <1>1, <1>2 DEF IInv, Typed, Jobs, OneOwner, Owns, Lives, Me
<1>8. Owned'
  BY <1>1, <1>2, <1>3 DEF IInv, Typed, Jobs, OneOwner, Owned, Owns, Lives, Me
<1>9. Spent'
  <2>1. SUFFICES ASSUME ~overlapped' \/ dbJs' = "held"
                PROVE  (\A r \in Stmts : SpentOnce(r)') /\ \A u \in Threads : SpentBy(u)'
    BY DEF Spent
  <2>2. (\A r \in Stmts : SpentOnce(r)) /\ \A u \in Threads : SpentBy(u)
    BY <1>2, <2>1 DEF IInv, Spent, Typed
  <2>3. \A r \in Stmts : SpentOnce(r)'
    <3>1. \A u \in Threads : job[u].at = "clear" => job'[u].at = "clear" /\ job'[u].s = job[u].s
      BY <1>1, <1>2 DEF Idle
    <3>2. TAKE r \in Stmts
    <3>3. SpentOnce(r)
      BY <2>2
    <3>. QED BY <1>2, <2>2, <3>1, <3>3 DEF SpentOnce, SpentBy, IInv, Typed, Lives, Jobs
  <2>4. \A u \in Threads \ {t} : SpentBy(u)'
    BY <1>1, <1>2, <2>2 DEF SpentBy, IInv, Typed, Jobs, OneOwner, Owns, Lives, Me, RemovePlaces
  <2>5. SpentBy(t)'
    <3>1. handle[s] = "live" => finals[s] = 0
      <4>1. SpentOnce(s) /\ finals[s] \in Nat BY <2>2 DEF IInv, Typed
      <4>2. \A u \in Threads : job[u].at # "clear" BY WalksDb
      <4>3. js[s] = "held" OBVIOUS
      <4>. QED BY ONLY <4>1, <4>2, <4>3 DEF SpentOnce
    <3>. QED BY <1>1, <3>1 DEF SpentBy, Me, IInv, Typed, RemovePlaces
  <2>. QED BY <2>3, <2>4, <2>5
<1>10. ASSUME ~overlapped' PROVE Sequential'
  <2>1. ~overlapped /\ Sequential /\ \A u \in Threads \ {t} : job[u] = Idle
    BY <1>2, <1>10 DEF IInv, Typed, Sequential, Single, Idle
  <2>2. ~fault'
    BY <1>0, <1>1, <1>2, <2>1 DEF IInv, Typed, Sequential, Shape, Settled, Jobs, Lives, Linked, Me
  <2>3. Single'
    BY <1>1, <2>1 DEF Single
  <2>4. (\A u \in Threads : job'[u].at \notin Busy) => Settled'
    BY <1>1, <1>2, <2>1 DEF Sequential, Settled, Busy, Shape, Linked, Me, Idle
  <2>5. Shape(t)'
    BY <1>1, <1>2, <2>1 DEF Sequential, Settled, Busy, Shape, Linked, Me, IInv, Jobs, Lives, Typed
  <2>6. \A u \in Threads \ {t} : Shape(u)'
    <3>1. \A u \in Threads \ {t} : job'[u].at = "idle"
      BY ONLY <1>1, <2>1 DEF Idle
    <3>. QED BY ONLY <3>1 DEF Shape
  <2>7. \A u \in listed' : mem'[u] = "alloc"
    BY <1>1, <1>2, <2>1 DEF Sequential, Settled, Shape, Linked, Me, IInv, Jobs, Lives, Typed
  <2>8. \A u \in Stmts : handle'[u] = "live" /\ u \notin listed' => finals'[u] = 1 \/ js'[u] = "preparing"
    BY <1>1, <1>2, <2>1 DEF Sequential, Spent, Shape, Me, IInv, Jobs, Lives, Typed, RemovePlaces
  <2>9. dbMem' = "freed" => dbJs' = "collected" /\ listed' = {} /\ head' = NULL
    BY <1>0, <1>1, <1>2, <2>1 DEF Sequential, Shape, Me, IInv, Jobs, Lives, Typed
  <2>. QED BY <2>2, <2>3, <2>4, <2>5, <2>6, <2>7, <2>8, <2>9 DEF Sequential
<1>. QED BY <1>4, <1>5, <1>6, <1>7, <1>8, <1>9, <1>10 DEF IInv

LEMMA CollectStmtStep ==
  ASSUME IInv, NEW t \in Threads, NEW s \in Stmts, CollectStmt(t, s)
  PROVE  IInv'
<1>. USE DEF CollectStmt, Begin, fields
<1>0. NULL \notin Stmts
  BY StatementListAssumption
<1>1. /\ \A u \in Threads \ {t} : job'[u] = job[u]
      /\ job'[t].kind = "collect" /\ job'[t].s = s /\ job'[t].at = "finalize" /\ job'[t].next = NULL
  BY DEF IInv, Typed, JobType, Idle, Me
<1>2. job[t] = Idle /\ job[t].kind = "none"
  BY <1>0 DEF Me, Idle
<1>3. \A u \in Threads \ {t}, r \in Stmts : Owns(u, r)' <=> Owns(u, r)
  BY <1>1 DEF Owns
<1>4. Typed'
  BY <1>0, <1>2 DEF IInv, Typed, JobType, Idle, Me, Maybe, Kinds, Places, InsertPlaces, RemovePlaces
<1>5. Jobs'
  BY <1>0, <1>1, <1>2 DEF IInv, Typed, Jobs, Idle, Me, OneOwner, Owns, Lives, InsertPlaces, RemovePlaces
<1>6. OneOwner'
  BY <1>1, <1>2, <1>3 DEF IInv, Typed, Jobs, OneOwner, Owned, Owns, Lives, Me
<1>7. Lives'
  BY <1>1, <1>2 DEF IInv, Typed, Jobs, OneOwner, Owns, Lives, Me
<1>8. Owned'
  BY <1>1, <1>2, <1>3 DEF IInv, Typed, Jobs, OneOwner, Owned, Owns, Lives, Me
<1>9. Spent'
  <2>1. SUFFICES ASSUME ~overlapped' \/ dbJs' = "held"
                PROVE  (\A r \in Stmts : SpentOnce(r)') /\ \A u \in Threads : SpentBy(u)'
    BY DEF Spent
  <2>2. (\A r \in Stmts : SpentOnce(r)) /\ \A u \in Threads : SpentBy(u)
    BY <1>2, <2>1 DEF IInv, Spent, Typed
  <2>3. \A r \in Stmts : SpentOnce(r)'
    <3>1. \A u \in Threads : job[u].at = "clear" => job'[u].at = "clear" /\ job'[u].s = job[u].s
      BY <1>1, <1>2 DEF Idle
    <3>2. TAKE r \in Stmts
    <3>3. SpentOnce(r)
      BY <2>2
    <3>. QED BY <1>2, <2>2, <3>1, <3>3 DEF SpentOnce, SpentBy, IInv, Typed, Lives, Jobs
  <2>4. \A u \in Threads \ {t} : SpentBy(u)'
    BY <1>1, <1>2, <2>2 DEF SpentBy, IInv, Typed, Jobs, OneOwner, Owns, Lives, Me, RemovePlaces
  <2>5. SpentBy(t)'
    <3>1. \A u \in Threads : job[u].at # "clear"
      BY <2>1, WalksDb
    <3>2. handle[s] = "live" => finals[s] = 0
      <4>1. SpentOnce(s) /\ finals[s] \in Nat BY <2>2 DEF IInv, Typed
      <4>2. js[s] = "held" \/ handle[s] = "null" BY DEF IInv, Lives
      <4>. QED BY ONLY <3>1, <4>1, <4>2 DEF SpentOnce
    <3>. QED BY <1>1, <3>2 DEF SpentBy, Me, IInv, Typed, RemovePlaces
  <2>. QED BY <2>3, <2>4, <2>5
<1>10. ASSUME ~overlapped' PROVE Sequential'
  <2>1. ~overlapped /\ Sequential /\ \A u \in Threads \ {t} : job[u] = Idle
    BY <1>2, <1>10 DEF IInv, Typed, Sequential, Single, Idle
  <2>2. ~fault'
    BY <1>0, <1>1, <1>2, <2>1 DEF IInv, Typed, Sequential, Shape, Settled, Jobs, Lives, Linked, Me
  <2>3. Single'
    BY <1>1, <2>1 DEF Single
  <2>4. (\A u \in Threads : job'[u].at \notin Busy) => Settled'
    BY <1>1, <1>2, <2>1 DEF Sequential, Settled, Busy, Shape, Linked, Me, Idle
  <2>5. Shape(t)'
    BY <1>1, <1>2, <2>1 DEF Sequential, Settled, Busy, Shape, Linked, Me, IInv, Jobs, Lives, Typed
  <2>6. \A u \in Threads \ {t} : Shape(u)'
    <3>1. \A u \in Threads \ {t} : job'[u].at = "idle"
      BY ONLY <1>1, <2>1 DEF Idle
    <3>. QED BY ONLY <3>1 DEF Shape
  <2>7. \A u \in listed' : mem'[u] = "alloc"
    BY <1>1, <1>2, <2>1 DEF Sequential, Settled, Shape, Linked, Me, IInv, Jobs, Lives, Typed
  <2>8. \A u \in Stmts : handle'[u] = "live" /\ u \notin listed' => finals'[u] = 1 \/ js'[u] = "preparing"
    BY <1>1, <1>2, <2>1 DEF Sequential, Spent, Shape, Me, IInv, Jobs, Lives, Typed, RemovePlaces
  <2>9. dbMem' = "freed" => dbJs' = "collected" /\ listed' = {} /\ head' = NULL
    BY <1>0, <1>1, <1>2, <2>1 DEF Sequential, Shape, Me, IInv, Jobs, Lives, Typed
  <2>. QED BY <2>2, <2>3, <2>4, <2>5, <2>6, <2>7, <2>8, <2>9 DEF Sequential
<1>. QED BY <1>4, <1>5, <1>6, <1>7, <1>8, <1>9, <1>10 DEF IInv

LEMMA CollectDbStep ==
  ASSUME IInv, NEW t \in Threads, CollectDb(t)
  PROVE  IInv'
<1>. USE DEF CollectDb, Begin, fields
<1>0. NULL \notin Stmts
  BY StatementListAssumption
<1>1. /\ \A u \in Threads \ {t} : job'[u] = job[u]
      /\ job'[t].kind = "collectDb" /\ job'[t].s = head /\ job'[t].at = "walk" /\ job'[t].next = NULL
  BY DEF IInv, Typed, JobType, Idle, Me
<1>2. job[t] = Idle /\ job[t].kind = "none"
  BY <1>0 DEF Me, Idle
<1>3. \A u \in Threads \ {t}, r \in Stmts : Owns(u, r)' <=> Owns(u, r)
  BY <1>1 DEF Owns
<1>4. Typed'
  BY <1>0, <1>2 DEF IInv, Typed, JobType, Idle, Me, Maybe, Kinds, Places, InsertPlaces, RemovePlaces
<1>5. Jobs'
  BY <1>0, <1>1, <1>2 DEF IInv, Typed, Jobs, Idle, Me, OneOwner, Owns, Lives, InsertPlaces, RemovePlaces
<1>6. OneOwner'
  BY <1>1, <1>2, <1>3 DEF IInv, Typed, Jobs, OneOwner, Owned, Owns, Lives, Me
<1>7. Lives'
  BY <1>1, <1>2 DEF IInv, Typed, Jobs, OneOwner, Owns, Lives, Me
<1>8. Owned'
  BY <1>1, <1>2, <1>3 DEF IInv, Typed, Jobs, OneOwner, Owned, Owns, Lives, Me
<1>9. Spent'
  <2>1. SUFFICES ASSUME ~overlapped' \/ dbJs' = "held"
                PROVE  (\A r \in Stmts : SpentOnce(r)') /\ \A u \in Threads : SpentBy(u)'
    BY DEF Spent
  <2>2. (\A r \in Stmts : SpentOnce(r)) /\ \A u \in Threads : SpentBy(u)
    BY <1>2, <2>1 DEF IInv, Spent, Typed
  <2>3. \A r \in Stmts : SpentOnce(r)'
    <3>1. \A u \in Threads : job[u].at = "clear" => job'[u].at = "clear" /\ job'[u].s = job[u].s
      BY <1>1, <1>2 DEF Idle
    <3>2. TAKE r \in Stmts
    <3>3. SpentOnce(r)
      BY <2>2
    <3>. QED BY <1>2, <2>2, <3>1, <3>3 DEF SpentOnce, SpentBy, IInv, Typed, Lives, Jobs
  <2>4. \A u \in Threads \ {t} : SpentBy(u)'
    BY <1>1, <1>2, <2>2 DEF SpentBy, IInv, Typed, Jobs, OneOwner, Owns, Lives, Me, RemovePlaces
  <2>5. SpentBy(t)'
    BY <1>1, <1>2, <2>2 DEF SpentOnce, SpentBy, IInv, Typed, Lives, Jobs, Me, RemovePlaces
  <2>. QED BY <2>3, <2>4, <2>5
<1>10. ASSUME ~overlapped' PROVE Sequential'
  <2>1. ~overlapped /\ Sequential /\ \A u \in Threads \ {t} : job[u] = Idle
    BY <1>2, <1>10 DEF IInv, Typed, Sequential, Single, Idle
  <2>2. ~fault'
    BY <1>0, <1>1, <1>2, <2>1 DEF IInv, Typed, Sequential, Shape, Settled, Jobs, Lives, Linked, Me
  <2>3. Single'
    BY <1>1, <2>1 DEF Single
  <2>4. (\A u \in Threads : job'[u].at \notin Busy) => Settled'
    BY <1>1, <1>2, <2>1 DEF Sequential, Settled, Busy, Shape, Linked, Me, Idle
  <2>5. Shape(t)'
    <3>1. Settled
      BY <1>2, <2>1 DEF Sequential, Busy, Idle
    <3>. QED BY <1>1, <3>1 DEF Shape, Settled, Chain, Linked, Me
  <2>6. \A u \in Threads \ {t} : Shape(u)'
    <3>1. \A u \in Threads \ {t} : job'[u].at = "idle"
      BY ONLY <1>1, <2>1 DEF Idle
    <3>. QED BY ONLY <3>1 DEF Shape
  <2>7. \A u \in listed' : mem'[u] = "alloc"
    BY <1>1, <1>2, <2>1 DEF Sequential, Settled, Shape, Linked, Me, IInv, Jobs, Lives, Typed
  <2>8. \A u \in Stmts : handle'[u] = "live" /\ u \notin listed' => finals'[u] = 1 \/ js'[u] = "preparing"
    BY <1>1, <1>2, <2>1 DEF Sequential, Spent, Shape, Me, IInv, Jobs, Lives, Typed, RemovePlaces
  <2>9. dbMem' = "freed" => dbJs' = "collected" /\ listed' = {} /\ head' = NULL
    BY <1>0, <1>1, <1>2, <2>1 DEF Sequential, Shape, Me, IInv, Jobs, Lives, Typed
  <2>. QED BY <2>2, <2>3, <2>4, <2>5, <2>6, <2>7, <2>8, <2>9 DEF Sequential
<1>. QED BY <1>4, <1>5, <1>6, <1>7, <1>8, <1>9, <1>10 DEF IInv

LEMMA InsertFieldsStep ==
  ASSUME IInv, NEW t \in Threads, InsertFields(t)
  PROVE  IInv'
<1>. USE DEF InsertFields, At, Goto, fields
<1>0. NULL \notin Stmts
  BY StatementListAssumption
<1>1. /\ \A u \in Threads \ {t} : job'[u] = job[u]
      /\ job'[t].kind = job[t].kind /\ job'[t].s = Me(t) /\ job'[t].at = "insertPrev" /\ job'[t].next = job[t].next
  BY DEF IInv, Typed, JobType, Idle, Me
<1>2. job[t].kind = "prepare" /\ Me(t) \in Stmts /\ js[Me(t)] = "preparing" /\ mem[Me(t)] = "alloc"
  BY <1>0 DEF Me, IInv, Typed, Jobs, Lives, InsertPlaces, RemovePlaces, Idle, Places, Kinds, JobType
<1>3. \A u \in Threads \ {t}, r \in Stmts : Owns(u, r)' <=> Owns(u, r)
  BY <1>1 DEF Owns
<1>4. Typed'
  BY <1>0, <1>2 DEF IInv, Typed, JobType, Idle, Me, Maybe, Kinds, Places, InsertPlaces, RemovePlaces
<1>5. Jobs'
  BY <1>0, <1>1, <1>2 DEF IInv, Typed, Jobs, Idle, Me, OneOwner, Owns, Lives, InsertPlaces, RemovePlaces
<1>6. OneOwner'
  BY <1>1, <1>2, <1>3 DEF IInv, Typed, Jobs, OneOwner, Owned, Owns, Lives, Me
<1>7. Lives'
  BY <1>1, <1>2 DEF IInv, Typed, Jobs, OneOwner, Owns, Lives, Me
<1>8. Owned'
  BY <1>1, <1>2, <1>3 DEF IInv, Typed, Jobs, OneOwner, Owned, Owns, Lives, Me
<1>9. Spent'
  <2>1. SUFFICES ASSUME ~overlapped' \/ dbJs' = "held"
                PROVE  (\A r \in Stmts : SpentOnce(r)') /\ \A u \in Threads : SpentBy(u)'
    BY DEF Spent
  <2>2. (\A r \in Stmts : SpentOnce(r)) /\ \A u \in Threads : SpentBy(u)
    BY <1>2, <2>1 DEF IInv, Spent, Typed
  <2>3. \A r \in Stmts : SpentOnce(r)'
    <3>1. \A u \in Threads : job[u].at = "clear" => job'[u].at = "clear" /\ job'[u].s = job[u].s
      BY <1>1, <1>2 DEF Idle
    <3>2. TAKE r \in Stmts
    <3>3. SpentOnce(r)
      BY <2>2
    <3>. QED BY <1>2, <2>2, <3>1, <3>3 DEF SpentOnce, SpentBy, IInv, Typed, Lives, Jobs
  <2>4. \A u \in Threads \ {t} : SpentBy(u)'
    BY <1>1, <1>2, <2>2 DEF SpentBy, IInv, Typed, Jobs, OneOwner, Owns, Lives, Me, RemovePlaces
  <2>5. SpentBy(t)'
    BY <1>1, <1>2, <2>2 DEF SpentOnce, SpentBy, IInv, Typed, Lives, Jobs, Me, RemovePlaces
  <2>. QED BY <2>3, <2>4, <2>5
<1>10. ASSUME ~overlapped' PROVE Sequential'
  <2>1. ~overlapped /\ Sequential /\ \A u \in Threads \ {t} : job[u] = Idle
    BY <1>2, <1>10 DEF IInv, Typed, Sequential, Single, Idle
  <2>2. ~fault'
    BY <1>0, <1>1, <1>2, <2>1 DEF IInv, Typed, Sequential, Shape, Settled, Jobs, Lives, Linked, Me
  <2>3. Single'
    BY <1>1, <2>1 DEF Single
  <2>4. (\A u \in Threads : job'[u].at \notin Busy) => Settled'
    BY <1>1, <1>2, <2>1 DEF Sequential, Settled, Busy, Shape, Linked, Me, Idle
  <2>5. Shape(t)'
    <3>0. Settled
      BY <1>2, <2>1 DEF Sequential, Busy, Idle
    <3>1. Settled /\ ~linked[Me(t)]
      BY <2>1, <3>0 DEF Sequential, Shape
    <3>2. Me(t) \notin listed
      BY <3>1 DEF Settled, Linked
    <3>3. \A r \in listed : next'[r] = next[r] /\ prev'[r] = prev[r]
      BY <3>2 DEF IInv, Typed
    <3>4. Chain(listed, head, next', prev')
      <4>1. Chain(listed, head, next, prev) /\ listed \in SUBSET Stmts
        BY <3>1 DEF Settled, IInv, Typed
      <4>. QED BY ONLY <3>3, <4>1, ChainFrame
    <3>5. Linked' = listed \cup {Me(t)}
      BY <1>2, <3>1 DEF Settled, Linked, IInv, Typed
    <3>6. prev'[Me(t)] = NULL /\ next'[Me(t)] = head
      BY <1>2 DEF IInv, Typed
    <3>7. job'[t].at = "insertPrev" /\ job'[t].s = Me(t) /\ UNCHANGED <<head, listed>>
      BY <1>1
    <3>. QED BY ONLY <3>2, <3>4, <3>5, <3>6, <3>7 DEF Shape, Me
  <2>6. \A u \in Threads \ {t} : Shape(u)'
    <3>1. \A u \in Threads \ {t} : job'[u].at = "idle"
      BY ONLY <1>1, <2>1 DEF Idle
    <3>. QED BY ONLY <3>1 DEF Shape
  <2>7. \A u \in listed' : mem'[u] = "alloc"
    BY <1>1, <1>2, <2>1 DEF Sequential, Settled, Shape, Linked, Me, IInv, Jobs, Lives, Typed
  <2>8. \A u \in Stmts : handle'[u] = "live" /\ u \notin listed' => finals'[u] = 1 \/ js'[u] = "preparing"
    BY <1>1, <1>2, <2>1 DEF Sequential, Spent, Shape, Me, IInv, Jobs, Lives, Typed, RemovePlaces
  <2>9. dbMem' = "freed" => dbJs' = "collected" /\ listed' = {} /\ head' = NULL
    BY <1>0, <1>1, <1>2, <2>1 DEF Sequential, Shape, Me, IInv, Jobs, Lives, Typed
  <2>. QED BY <2>2, <2>3, <2>4, <2>5, <2>6, <2>7, <2>8, <2>9 DEF Sequential
<1>. QED BY <1>4, <1>5, <1>6, <1>7, <1>8, <1>9, <1>10 DEF IInv

LEMMA InsertPrevStep ==
  ASSUME IInv, NEW t \in Threads, InsertPrev(t)
  PROVE  IInv'
<1>. USE DEF InsertPrev, At, Goto, Bad, fields
<1>0. NULL \notin Stmts
  BY StatementListAssumption
<1>1. /\ \A u \in Threads \ {t} : job'[u] = job[u]
      /\ job'[t].kind = job[t].kind /\ job'[t].s = Me(t) /\ job'[t].at = "insertHead" /\ job'[t].next = job[t].next
  BY DEF IInv, Typed, JobType, Idle, Me
<1>2. job[t].kind = "prepare" /\ Me(t) \in Stmts /\ js[Me(t)] = "preparing" /\ mem[Me(t)] = "alloc"
  BY <1>0 DEF Me, IInv, Typed, Jobs, Lives, InsertPlaces, RemovePlaces, Idle, Places, Kinds, JobType
<1>3. \A u \in Threads \ {t}, r \in Stmts : Owns(u, r)' <=> Owns(u, r)
  BY <1>1 DEF Owns
<1>4. Typed'
  BY <1>0, <1>2 DEF IInv, Typed, JobType, Idle, Me, Maybe, Kinds, Places, InsertPlaces, RemovePlaces
<1>5. Jobs'
  BY <1>0, <1>1, <1>2 DEF IInv, Typed, Jobs, Idle, Me, OneOwner, Owns, Lives, InsertPlaces, RemovePlaces
<1>6. OneOwner'
  BY <1>1, <1>2, <1>3 DEF IInv, Typed, Jobs, OneOwner, Owned, Owns, Lives, Me
<1>7. Lives'
  BY <1>1, <1>2 DEF IInv, Typed, Jobs, OneOwner, Owns, Lives, Me
<1>8. Owned'
  BY <1>1, <1>2, <1>3 DEF IInv, Typed, Jobs, OneOwner, Owned, Owns, Lives, Me
<1>9. Spent'
  <2>1. SUFFICES ASSUME ~overlapped' \/ dbJs' = "held"
                PROVE  (\A r \in Stmts : SpentOnce(r)') /\ \A u \in Threads : SpentBy(u)'
    BY DEF Spent
  <2>2. (\A r \in Stmts : SpentOnce(r)) /\ \A u \in Threads : SpentBy(u)
    BY <1>2, <2>1 DEF IInv, Spent, Typed
  <2>3. \A r \in Stmts : SpentOnce(r)'
    <3>1. \A u \in Threads : job[u].at = "clear" => job'[u].at = "clear" /\ job'[u].s = job[u].s
      BY <1>1, <1>2 DEF Idle
    <3>2. TAKE r \in Stmts
    <3>3. SpentOnce(r)
      BY <2>2
    <3>. QED BY <1>2, <2>2, <3>1, <3>3 DEF SpentOnce, SpentBy, IInv, Typed, Lives, Jobs
  <2>4. \A u \in Threads \ {t} : SpentBy(u)'
    BY <1>1, <1>2, <2>2 DEF SpentBy, IInv, Typed, Jobs, OneOwner, Owns, Lives, Me, RemovePlaces
  <2>5. SpentBy(t)'
    BY <1>1, <1>2, <2>2 DEF SpentOnce, SpentBy, IInv, Typed, Lives, Jobs, Me, RemovePlaces
  <2>. QED BY <2>3, <2>4, <2>5
<1>10. ASSUME ~overlapped' PROVE Sequential'
  <2>1. ~overlapped /\ Sequential /\ \A u \in Threads \ {t} : job[u] = Idle
    BY <1>2, <1>10 DEF IInv, Typed, Sequential, Single, Idle
  <2>2. ~fault'
    <3>1. head \in listed \cup {NULL}
      BY <2>1 DEF Sequential, Shape, Chain, Threaded
    <3>. QED BY <1>0, <2>1, <3>1 DEF Sequential
  <2>3. Single'
    BY <1>1, <2>1 DEF Single
  <2>4. (\A u \in Threads : job'[u].at \notin Busy) => Settled'
    BY <1>1, <1>2, <2>1 DEF Sequential, Settled, Busy, Shape, Linked, Me, Idle
  <2>5. Shape(t)'
    <3>1. /\ Chain(listed, head, next, prev) /\ Me(t) \notin listed /\ Linked = listed \cup {Me(t)}
          /\ prev[Me(t)] = NULL /\ next[Me(t)] = head
      BY <2>1 DEF Sequential, Shape
    <3>2. Chain(listed \cup {Me(t)}, Me(t), next, prev')
      BY <1>2, <3>1, ThreadedInsert DEF IInv, Typed
    <3>3. Linked' = listed \cup {Me(t)} /\ UNCHANGED <<listed, next>>
      BY <3>1 DEF Linked
    <3>4. job'[t].at = "insertHead" /\ job'[t].s = Me(t)
      BY <1>1
    <3>. QED BY ONLY <3>1, <3>2, <3>3, <3>4 DEF Shape, Me
  <2>6. \A u \in Threads \ {t} : Shape(u)'
    <3>1. \A u \in Threads \ {t} : job'[u].at = "idle"
      BY ONLY <1>1, <2>1 DEF Idle
    <3>. QED BY ONLY <3>1 DEF Shape
  <2>7. \A u \in listed' : mem'[u] = "alloc"
    BY <1>1, <1>2, <2>1 DEF Sequential, Settled, Shape, Linked, Me, IInv, Jobs, Lives, Typed
  <2>8. \A u \in Stmts : handle'[u] = "live" /\ u \notin listed' => finals'[u] = 1 \/ js'[u] = "preparing"
    BY <1>1, <1>2, <2>1 DEF Sequential, Spent, Shape, Me, IInv, Jobs, Lives, Typed, RemovePlaces
  <2>9. dbMem' = "freed" => dbJs' = "collected" /\ listed' = {} /\ head' = NULL
    BY <1>0, <1>1, <1>2, <2>1 DEF Sequential, Shape, Me, IInv, Jobs, Lives, Typed
  <2>. QED BY <2>2, <2>3, <2>4, <2>5, <2>6, <2>7, <2>8, <2>9 DEF Sequential
<1>. QED BY <1>4, <1>5, <1>6, <1>7, <1>8, <1>9, <1>10 DEF IInv

LEMMA InsertHeadStep ==
  ASSUME IInv, NEW t \in Threads, InsertHead(t)
  PROVE  IInv'
<1>. USE DEF InsertHead, At, Done, fields
<1>0. NULL \notin Stmts
  BY StatementListAssumption
<1>1. /\ \A u \in Threads \ {t} : job'[u] = job[u]
      /\ job'[t].kind = "none" /\ job'[t].s = NULL /\ job'[t].at = "idle" /\ job'[t].next = NULL
  BY DEF IInv, Typed, JobType, Idle, Me
<1>2. job[t].kind = "prepare" /\ Me(t) \in Stmts /\ js[Me(t)] = "preparing" /\ mem[Me(t)] = "alloc"
  BY <1>0 DEF Me, IInv, Typed, Jobs, Lives, InsertPlaces, RemovePlaces, Idle, Places, Kinds, JobType
<1>3. \A u \in Threads \ {t}, r \in Stmts : Owns(u, r)' <=> Owns(u, r)
  BY <1>1 DEF Owns
<1>4. Typed'
  BY <1>0, <1>2 DEF IInv, Typed, JobType, Idle, Me, Maybe, Kinds, Places, InsertPlaces, RemovePlaces
<1>5. Jobs'
  BY <1>0, <1>1, <1>2 DEF IInv, Typed, Jobs, Idle, Me, OneOwner, Owns, Lives, InsertPlaces, RemovePlaces
<1>6. OneOwner'
  BY <1>1, <1>2, <1>3 DEF IInv, Typed, Jobs, OneOwner, Owned, Owns, Lives, Me
<1>7. Lives'
  BY <1>1, <1>2 DEF IInv, Typed, Jobs, OneOwner, Owns, Lives, Me
<1>8. Owned'
  BY <1>1, <1>2, <1>3 DEF IInv, Typed, Jobs, OneOwner, Owned, Owns, Lives, Me
<1>9. Spent'
  <2>1. SUFFICES ASSUME ~overlapped' \/ dbJs' = "held"
                PROVE  (\A r \in Stmts : SpentOnce(r)') /\ \A u \in Threads : SpentBy(u)'
    BY DEF Spent
  <2>2. (\A r \in Stmts : SpentOnce(r)) /\ \A u \in Threads : SpentBy(u)
    BY <1>2, <2>1 DEF IInv, Spent, Typed
  <2>3. \A r \in Stmts : SpentOnce(r)'
    <3>1. \A u \in Threads : job[u].at = "clear" => job'[u].at = "clear" /\ job'[u].s = job[u].s
      BY <1>1, <1>2 DEF Idle
    <3>2. TAKE r \in Stmts
    <3>3. SpentOnce(r)
      BY <2>2
    <3>. QED BY <1>2, <2>2, <3>1, <3>3 DEF SpentOnce, SpentBy, IInv, Typed, Lives, Jobs
  <2>4. \A u \in Threads \ {t} : SpentBy(u)'
    BY <1>1, <1>2, <2>2 DEF SpentBy, IInv, Typed, Jobs, OneOwner, Owns, Lives, Me, RemovePlaces
  <2>5. SpentBy(t)'
    BY <1>1, <1>2, <2>2 DEF SpentOnce, SpentBy, IInv, Typed, Lives, Jobs, Me, RemovePlaces
  <2>. QED BY <2>3, <2>4, <2>5
<1>10. ASSUME ~overlapped' PROVE Sequential'
  <2>1. ~overlapped /\ Sequential /\ \A u \in Threads \ {t} : job[u] = Idle
    BY <1>2, <1>10 DEF IInv, Typed, Sequential, Single, Idle
  <2>2. ~fault'
    BY <1>0, <1>1, <1>2, <2>1 DEF IInv, Typed, Sequential, Shape, Settled, Jobs, Lives, Linked, Me
  <2>3. Single'
    BY <1>1, <2>1 DEF Single
  <2>4. (\A u \in Threads : job'[u].at \notin Busy) => Settled'
    BY <1>1, <1>2, <2>1 DEF Sequential, Settled, Busy, Shape, Linked, Me, Idle
  <2>5. Shape(t)'
    BY <1>1, <1>2, <2>1 DEF Sequential, Settled, Busy, Shape, Linked, Me, IInv, Jobs, Lives, Typed
  <2>6. \A u \in Threads \ {t} : Shape(u)'
    <3>1. \A u \in Threads \ {t} : job'[u].at = "idle"
      BY ONLY <1>1, <2>1 DEF Idle
    <3>. QED BY ONLY <3>1 DEF Shape
  <2>7. \A u \in listed' : mem'[u] = "alloc"
    BY <1>1, <1>2, <2>1 DEF Sequential, Settled, Shape, Linked, Me, IInv, Jobs, Lives, Typed
  <2>8. \A u \in Stmts : handle'[u] = "live" /\ u \notin listed' => finals'[u] = 1 \/ js'[u] = "preparing"
    BY <1>1, <1>2, <2>1 DEF Sequential, Spent, Shape, Me, IInv, Jobs, Lives, Typed, RemovePlaces
  <2>9. dbMem' = "freed" => dbJs' = "collected" /\ listed' = {} /\ head' = NULL
    BY <1>0, <1>1, <1>2, <2>1 DEF Sequential, Shape, Me, IInv, Jobs, Lives, Typed
  <2>. QED BY <2>2, <2>3, <2>4, <2>5, <2>6, <2>7, <2>8, <2>9 DEF Sequential
<1>. QED BY <1>4, <1>5, <1>6, <1>7, <1>8, <1>9, <1>10 DEF IInv

LEMMA ReturnStep ==
  ASSUME IInv, NEW t \in Threads, Return(t)
  PROVE  IInv'
<1>. USE DEF Return, At, Done, fields
<1>0. NULL \notin Stmts
  BY StatementListAssumption
<1>1. /\ \A u \in Threads \ {t} : job'[u] = job[u]
      /\ job'[t].kind = "none" /\ job'[t].s = NULL /\ job'[t].at = "idle" /\ job'[t].next = NULL
  BY DEF IInv, Typed, JobType, Idle, Me
<1>2. job[t].kind = "prepare" /\ Me(t) \in Stmts
  BY <1>0 DEF Me, IInv, Typed, Jobs, InsertPlaces, RemovePlaces, Idle, Places, Kinds, JobType
<1>3. \A u \in Threads \ {t}, r \in Stmts : Owns(u, r)' <=> Owns(u, r)
  BY <1>1 DEF Owns
<1>4. Typed'
  BY <1>0, <1>2 DEF IInv, Typed, JobType, Idle, Me, Maybe, Kinds, Places, InsertPlaces, RemovePlaces
<1>5. Jobs'
  BY <1>0, <1>1, <1>2 DEF IInv, Typed, Jobs, Idle, Me, OneOwner, Owns, Lives, InsertPlaces, RemovePlaces
<1>6. OneOwner'
  BY <1>1, <1>2, <1>3 DEF IInv, Typed, Jobs, OneOwner, Owned, Owns, Lives, Me
<1>7. Lives'
  BY <1>1, <1>2 DEF IInv, Typed, Jobs, OneOwner, Owns, Lives, Me
<1>8. Owned'
  BY <1>1, <1>2, <1>3 DEF IInv, Typed, Jobs, OneOwner, Owned, Owns, Lives, Me
<1>9. Spent'
  <2>1. SUFFICES ASSUME ~overlapped' \/ dbJs' = "held"
                PROVE  (\A r \in Stmts : SpentOnce(r)') /\ \A u \in Threads : SpentBy(u)'
    BY DEF Spent
  <2>2. (\A r \in Stmts : SpentOnce(r)) /\ \A u \in Threads : SpentBy(u)
    BY <1>2, <2>1 DEF IInv, Spent, Typed
  <2>3. \A r \in Stmts : SpentOnce(r)'
    <3>1. \A u \in Threads : job[u].at = "clear" => job'[u].at = "clear" /\ job'[u].s = job[u].s
      BY <1>1, <1>2 DEF Idle
    <3>2. TAKE r \in Stmts
    <3>3. SpentOnce(r)
      BY <2>2
    <3>. QED BY <1>2, <2>2, <3>1, <3>3 DEF SpentOnce, SpentBy, IInv, Typed, Lives, Jobs
  <2>4. \A u \in Threads \ {t} : SpentBy(u)'
    BY <1>1, <1>2, <2>2 DEF SpentBy, IInv, Typed, Jobs, OneOwner, Owns, Lives, Me, RemovePlaces
  <2>5. SpentBy(t)'
    BY <1>1, <1>2, <2>2 DEF SpentOnce, SpentBy, IInv, Typed, Lives, Jobs, Me, RemovePlaces
  <2>. QED BY <2>3, <2>4, <2>5
<1>10. ASSUME ~overlapped' PROVE Sequential'
  <2>1. ~overlapped /\ Sequential /\ \A u \in Threads \ {t} : job[u] = Idle
    BY <1>2, <1>10 DEF IInv, Typed, Sequential, Single, Idle
  <2>2. ~fault'
    BY <1>0, <1>1, <1>2, <2>1 DEF IInv, Typed, Sequential, Shape, Settled, Jobs, Lives, Linked, Me
  <2>3. Single'
    BY <1>1, <2>1 DEF Single
  <2>4. (\A u \in Threads : job'[u].at \notin Busy) => Settled'
    BY <1>1, <1>2, <2>1 DEF Sequential, Settled, Busy, Shape, Linked, Me, Idle
  <2>5. Shape(t)'
    BY <1>1, <1>2, <2>1 DEF Sequential, Settled, Busy, Shape, Linked, Me, IInv, Jobs, Lives, Typed
  <2>6. \A u \in Threads \ {t} : Shape(u)'
    <3>1. \A u \in Threads \ {t} : job'[u].at = "idle"
      BY ONLY <1>1, <2>1 DEF Idle
    <3>. QED BY ONLY <3>1 DEF Shape
  <2>7. \A u \in listed' : mem'[u] = "alloc"
    BY <1>1, <1>2, <2>1 DEF Sequential, Settled, Shape, Linked, Me, IInv, Jobs, Lives, Typed
  <2>8. \A u \in Stmts : handle'[u] = "live" /\ u \notin listed' => finals'[u] = 1 \/ js'[u] = "preparing"
    BY <1>1, <1>2, <2>1 DEF Sequential, Spent, Shape, Me, IInv, Jobs, Lives, Typed, RemovePlaces
  <2>9. dbMem' = "freed" => dbJs' = "collected" /\ listed' = {} /\ head' = NULL
    BY <1>0, <1>1, <1>2, <2>1 DEF Sequential, Shape, Me, IInv, Jobs, Lives, Typed
  <2>. QED BY <2>2, <2>3, <2>4, <2>5, <2>6, <2>7, <2>8, <2>9 DEF Sequential
<1>. QED BY <1>4, <1>5, <1>6, <1>7, <1>8, <1>9, <1>10 DEF IInv

LEMMA FinalizeHandleStep ==
  ASSUME IInv, NEW t \in Threads, FinalizeHandle(t)
  PROVE  IInv'
<1>. USE DEF FinalizeHandle, At, Goto, Bad, fields
<1>0. NULL \notin Stmts
  BY StatementListAssumption
<1>1. /\ \A u \in Threads \ {t} : job'[u] = job[u]
      /\ job'[t].kind = job[t].kind /\ job'[t].s = Me(t) /\ job'[t].at = (IF job[t].kind = "finalize" THEN "null" ELSE "remove") /\ job'[t].next = job[t].next
  BY DEF IInv, Typed, JobType, Idle, Me
<1>2. /\ job[t].kind \in {"finalize", "collect"} /\ Me(t) \in Stmts /\ mem[Me(t)] = "alloc"
      /\ js[Me(t)] = IF job[t].kind = "finalize" THEN "finalizing" ELSE "collected"
  BY <1>0 DEF Me, IInv, Typed, Jobs, Lives, InsertPlaces, RemovePlaces, Idle, Places, Kinds, JobType
<1>3. \A u \in Threads \ {t}, r \in Stmts : Owns(u, r)' <=> Owns(u, r)
  BY <1>1 DEF Owns
<1>4. Typed'
  BY <1>0, <1>2 DEF IInv, Typed, JobType, Idle, Me, Maybe, Kinds, Places, InsertPlaces, RemovePlaces
<1>5. Jobs'
  BY <1>0, <1>1, <1>2 DEF IInv, Typed, Jobs, Idle, Me, OneOwner, Owns, Lives, InsertPlaces, RemovePlaces
<1>6. OneOwner'
  BY <1>1, <1>2, <1>3 DEF IInv, Typed, Jobs, OneOwner, Owned, Owns, Lives, Me
<1>7. Lives'
  BY <1>1, <1>2 DEF IInv, Typed, Jobs, OneOwner, Owns, Lives, Me
<1>8. Owned'
  BY <1>1, <1>2, <1>3 DEF IInv, Typed, Jobs, OneOwner, Owned, Owns, Lives, Me
<1>9. Spent'
  <2>1. SUFFICES ASSUME ~overlapped' \/ dbJs' = "held"
                PROVE  (\A r \in Stmts : SpentOnce(r)') /\ \A u \in Threads : SpentBy(u)'
    BY DEF Spent
  <2>2. (\A r \in Stmts : SpentOnce(r)) /\ \A u \in Threads : SpentBy(u)
    BY <1>2, <2>1 DEF IInv, Spent, Typed
  <2>3. \A r \in Stmts : SpentOnce(r)'
    <3>1. \A u \in Threads : job[u].at = "clear" => job'[u].at = "clear" /\ job'[u].s = job[u].s
      BY <1>1, <1>2 DEF Idle
    <3>2. TAKE r \in Stmts
    <3>3. SpentOnce(r)
      BY <2>2
    <3>. QED BY <1>2, <2>2, <3>1, <3>3 DEF SpentOnce, SpentBy, IInv, Typed, Lives, Jobs
  <2>4. \A u \in Threads \ {t} : SpentBy(u)'
    <3>1. TAKE u \in Threads \ {t}
    <3>2. job[u].at = "finalize" \/ job[u].kind = "collect" => Me(u) \in Stmts /\ Me(u) # Me(t)
      BY <1>2 DEF IInv, Jobs, OneOwner, Owns, Me, Typed, JobType, Kinds, Idle, InsertPlaces, RemovePlaces
    <3>3. SpentBy(u) /\ job'[u] = job[u]
      BY <1>1, <2>2
    <3>. QED BY <1>2, <3>2, <3>3 DEF SpentBy, Me, IInv, Typed
  <2>5. SpentBy(t)'
    BY <1>1, <1>2, <2>2 DEF SpentOnce, SpentBy, IInv, Typed, Lives, Jobs, Me, RemovePlaces
  <2>. QED BY <2>3, <2>4, <2>5
<1>10. ASSUME ~overlapped' PROVE Sequential'
  <2>1. ~overlapped /\ Sequential /\ \A u \in Threads \ {t} : job[u] = Idle
    BY <1>2, <1>10 DEF IInv, Typed, Sequential, Single, Idle
  <2>2. ~fault'
    BY <1>0, <1>1, <1>2, <2>1 DEF IInv, Typed, Sequential, Shape, Settled, Jobs, Lives, Linked, Me
  <2>3. Single'
    BY <1>1, <2>1 DEF Single
  <2>4. (\A u \in Threads : job'[u].at \notin Busy) => Settled'
    BY <1>1, <1>2, <2>1 DEF Sequential, Settled, Busy, Shape, Linked, Me, Idle
  <2>5. Shape(t)'
    BY <1>1, <1>2, <2>1 DEF Sequential, Settled, Busy, Shape, Linked, Me, IInv, Jobs, Lives, Typed
  <2>6. \A u \in Threads \ {t} : Shape(u)'
    <3>1. \A u \in Threads \ {t} : job'[u].at = "idle"
      BY ONLY <1>1, <2>1 DEF Idle
    <3>. QED BY ONLY <3>1 DEF Shape
  <2>7. \A u \in listed' : mem'[u] = "alloc"
    BY <1>1, <1>2, <2>1 DEF Sequential, Settled, Shape, Linked, Me, IInv, Jobs, Lives, Typed
  <2>8. \A u \in Stmts : handle'[u] = "live" /\ u \notin listed' => finals'[u] = 1 \/ js'[u] = "preparing"
    <3>1. SpentBy(t) /\ \A r \in Stmts : finals[r] \in Nat
      BY <2>1 DEF IInv, Spent, Typed
    <3>2. handle[Me(t)] = "live" => finals'[Me(t)] = 1
      BY <1>2, <3>1 DEF SpentBy, IInv, Typed
    <3>. QED BY <2>1, <3>2 DEF Sequential, IInv, Typed
  <2>9. dbMem' = "freed" => dbJs' = "collected" /\ listed' = {} /\ head' = NULL
    BY <1>0, <1>1, <1>2, <2>1 DEF Sequential, Shape, Me, IInv, Jobs, Lives, Typed
  <2>. QED BY <2>2, <2>3, <2>4, <2>5, <2>6, <2>7, <2>8, <2>9 DEF Sequential
<1>. QED BY <1>4, <1>5, <1>6, <1>7, <1>8, <1>9, <1>10 DEF IInv

LEMMA NullHandleStep ==
  ASSUME IInv, NEW t \in Threads, NullHandle(t)
  PROVE  IInv'
<1>. USE DEF NullHandle, At, Goto, fields
<1>0. NULL \notin Stmts
  BY StatementListAssumption
<1>1. /\ \A u \in Threads \ {t} : job'[u] = job[u]
      /\ job'[t].kind = job[t].kind /\ job'[t].s = Me(t) /\ job'[t].at = "remove" /\ job'[t].next = job[t].next
  BY DEF IInv, Typed, JobType, Idle, Me
<1>2. job[t].kind = "finalize" /\ Me(t) \in Stmts /\ mem[Me(t)] = "alloc" /\ js[Me(t)] = "finalizing"
  BY <1>0 DEF Me, IInv, Typed, Jobs, Lives, InsertPlaces, RemovePlaces, Idle, Places, Kinds, JobType
<1>3. \A u \in Threads \ {t}, r \in Stmts : Owns(u, r)' <=> Owns(u, r)
  BY <1>1 DEF Owns
<1>4. Typed'
  BY <1>0, <1>2 DEF IInv, Typed, JobType, Idle, Me, Maybe, Kinds, Places, InsertPlaces, RemovePlaces
<1>5. Jobs'
  BY <1>0, <1>1, <1>2 DEF IInv, Typed, Jobs, Idle, Me, OneOwner, Owns, Lives, InsertPlaces, RemovePlaces
<1>6. OneOwner'
  BY <1>1, <1>2, <1>3 DEF IInv, Typed, Jobs, OneOwner, Owned, Owns, Lives, Me
<1>7. Lives'
  BY <1>1, <1>2 DEF IInv, Typed, Jobs, OneOwner, Owns, Lives, Me
<1>8. Owned'
  BY <1>1, <1>2, <1>3 DEF IInv, Typed, Jobs, OneOwner, Owned, Owns, Lives, Me
<1>9. Spent'
  <2>1. SUFFICES ASSUME ~overlapped' \/ dbJs' = "held"
                PROVE  (\A r \in Stmts : SpentOnce(r)') /\ \A u \in Threads : SpentBy(u)'
    BY DEF Spent
  <2>2. (\A r \in Stmts : SpentOnce(r)) /\ \A u \in Threads : SpentBy(u)
    BY <1>2, <2>1 DEF IInv, Spent, Typed
  <2>3. \A r \in Stmts : SpentOnce(r)'
    <3>1. \A u \in Threads : job[u].at = "clear" => job'[u].at = "clear" /\ job'[u].s = job[u].s
      BY <1>1, <1>2 DEF Idle
    <3>2. TAKE r \in Stmts
    <3>3. SpentOnce(r)
      BY <2>2
    <3>. QED BY <1>2, <2>2, <3>1, <3>3 DEF SpentOnce, SpentBy, IInv, Typed, Lives, Jobs
  <2>4. \A u \in Threads \ {t} : SpentBy(u)'
    <3>1. TAKE u \in Threads \ {t}
    <3>2. job[u].at = "finalize" \/ job[u].kind = "collect" => Me(u) \in Stmts /\ Me(u) # Me(t)
      BY <1>2 DEF IInv, Jobs, OneOwner, Owns, Me, Typed, JobType, Kinds, Idle, InsertPlaces, RemovePlaces
    <3>3. SpentBy(u) /\ job'[u] = job[u]
      BY <1>1, <2>2
    <3>. QED BY <1>2, <3>2, <3>3 DEF SpentBy, Me, IInv, Typed
  <2>5. SpentBy(t)'
    BY <1>1, <1>2, <2>2 DEF SpentOnce, SpentBy, IInv, Typed, Lives, Jobs, Me, RemovePlaces
  <2>. QED BY <2>3, <2>4, <2>5
<1>10. ASSUME ~overlapped' PROVE Sequential'
  <2>1. ~overlapped /\ Sequential /\ \A u \in Threads \ {t} : job[u] = Idle
    BY <1>2, <1>10 DEF IInv, Typed, Sequential, Single, Idle
  <2>2. ~fault'
    BY <1>0, <1>1, <1>2, <2>1 DEF IInv, Typed, Sequential, Shape, Settled, Jobs, Lives, Linked, Me
  <2>3. Single'
    BY <1>1, <2>1 DEF Single
  <2>4. (\A u \in Threads : job'[u].at \notin Busy) => Settled'
    BY <1>1, <1>2, <2>1 DEF Sequential, Settled, Busy, Shape, Linked, Me, Idle
  <2>5. Shape(t)'
    BY <1>1, <1>2, <2>1 DEF Sequential, Settled, Busy, Shape, Linked, Me, IInv, Jobs, Lives, Typed
  <2>6. \A u \in Threads \ {t} : Shape(u)'
    <3>1. \A u \in Threads \ {t} : job'[u].at = "idle"
      BY ONLY <1>1, <2>1 DEF Idle
    <3>. QED BY ONLY <3>1 DEF Shape
  <2>7. \A u \in listed' : mem'[u] = "alloc"
    BY <1>1, <1>2, <2>1 DEF Sequential, Settled, Shape, Linked, Me, IInv, Jobs, Lives, Typed
  <2>8. \A u \in Stmts : handle'[u] = "live" /\ u \notin listed' => finals'[u] = 1 \/ js'[u] = "preparing"
    BY <1>1, <1>2, <2>1 DEF Sequential, Spent, Shape, Me, IInv, Jobs, Lives, Typed, RemovePlaces
  <2>9. dbMem' = "freed" => dbJs' = "collected" /\ listed' = {} /\ head' = NULL
    BY <1>0, <1>1, <1>2, <2>1 DEF Sequential, Shape, Me, IInv, Jobs, Lives, Typed
  <2>. QED BY <2>2, <2>3, <2>4, <2>5, <2>6, <2>7, <2>8, <2>9 DEF Sequential
<1>. QED BY <1>4, <1>5, <1>6, <1>7, <1>8, <1>9, <1>10 DEF IInv

LEMMA RemoveFromPrevStep ==
  ASSUME IInv, NEW t \in Threads, RemoveFromPrev(t)
  PROVE  IInv'
<1>. USE DEF RemoveFromPrev, At, Goto, Bad, fields
<1>0. NULL \notin Stmts
  BY StatementListAssumption
<1>1. /\ \A u \in Threads \ {t} : job'[u] = job[u]
      /\ job'[t].kind = job[t].kind /\ job'[t].s = Me(t) /\ job'[t].at = (IF linked[Me(t)] THEN "removeNext" ELSE "removed") /\ job'[t].next = job[t].next
  BY DEF IInv, Typed, JobType, Idle, Me
<1>2. /\ job[t].kind \in {"finalize", "collect"} /\ Me(t) \in Stmts /\ mem[Me(t)] = "alloc"
      /\ js[Me(t)] = IF job[t].kind = "finalize" THEN "finalizing" ELSE "collected"
  BY <1>0 DEF Me, IInv, Typed, Jobs, Lives, InsertPlaces, RemovePlaces, Idle, Places, Kinds, JobType
<1>3. \A u \in Threads \ {t}, r \in Stmts : Owns(u, r)' <=> Owns(u, r)
  BY <1>1 DEF Owns
<1>4. Typed'
  BY <1>0, <1>2 DEF IInv, Typed, JobType, Idle, Me, Maybe, Kinds, Places, InsertPlaces, RemovePlaces
<1>5. Jobs'
  BY <1>0, <1>1, <1>2 DEF IInv, Typed, Jobs, Idle, Me, OneOwner, Owns, Lives, InsertPlaces, RemovePlaces
<1>6. OneOwner'
  BY <1>1, <1>2, <1>3 DEF IInv, Typed, Jobs, OneOwner, Owned, Owns, Lives, Me
<1>7. Lives'
  BY <1>1, <1>2 DEF IInv, Typed, Jobs, OneOwner, Owns, Lives, Me
<1>8. Owned'
  BY <1>1, <1>2, <1>3 DEF IInv, Typed, Jobs, OneOwner, Owned, Owns, Lives, Me
<1>9. Spent'
  <2>1. SUFFICES ASSUME ~overlapped' \/ dbJs' = "held"
                PROVE  (\A r \in Stmts : SpentOnce(r)') /\ \A u \in Threads : SpentBy(u)'
    BY DEF Spent
  <2>2. (\A r \in Stmts : SpentOnce(r)) /\ \A u \in Threads : SpentBy(u)
    BY <1>2, <2>1 DEF IInv, Spent, Typed
  <2>3. \A r \in Stmts : SpentOnce(r)'
    <3>1. \A u \in Threads : job[u].at = "clear" => job'[u].at = "clear" /\ job'[u].s = job[u].s
      BY <1>1, <1>2 DEF Idle
    <3>2. TAKE r \in Stmts
    <3>3. SpentOnce(r)
      BY <2>2
    <3>. QED BY <1>2, <2>2, <3>1, <3>3 DEF SpentOnce, SpentBy, IInv, Typed, Lives, Jobs
  <2>4. \A u \in Threads \ {t} : SpentBy(u)'
    BY <1>1, <1>2, <2>2 DEF SpentBy, IInv, Typed, Jobs, OneOwner, Owns, Lives, Me, RemovePlaces
  <2>5. SpentBy(t)'
    BY <1>1, <1>2, <2>2 DEF SpentOnce, SpentBy, IInv, Typed, Lives, Jobs, Me, RemovePlaces
  <2>. QED BY <2>3, <2>4, <2>5
<1>10. ASSUME ~overlapped' PROVE Sequential'
  <2>1. ~overlapped /\ Sequential /\ \A u \in Threads \ {t} : job[u] = Idle
    BY <1>2, <1>10 DEF IInv, Typed, Sequential, Single, Idle
  <2>2. ~fault'
    <3>1. Settled
      BY <1>2, <2>1 DEF Sequential, Busy, Idle
    <3>2. CASE linked[Me(t)]
      <4>1. Me(t) \in listed
        BY <1>2, <3>1, <3>2 DEF Settled, Linked
      <4>2. prev[Me(t)] # NULL => prev[Me(t)] \in listed
        BY <3>1, <4>1 DEF Settled, Chain, Threaded
      <4>3. mem[prev[Me(t)]] = "alloc" \/ prev[Me(t)] = NULL
        BY <2>1, <4>2 DEF Sequential
      <4>4. dbMem # "freed"
        BY <2>1, <4>1 DEF Sequential
      <4>. QED BY <3>2, <4>3, <4>4
    <3>3. CASE ~linked[Me(t)]
      BY <2>1, <3>3 DEF Sequential
    <3>. QED BY <3>2, <3>3
  <2>3. Single'
    BY <1>1, <2>1 DEF Single
  <2>4. (\A u \in Threads : job'[u].at \notin Busy) => Settled'
    BY <1>1, <1>2, <2>1 DEF Sequential, Settled, Busy, Shape, Linked, Me, Idle
  <2>5. Shape(t)'
    <3>1. Settled
      BY <1>2, <2>1 DEF Sequential, Busy, Idle
    <3>2. CASE linked[Me(t)]
      <4>1. Me(t) \in listed
        BY <1>2, <3>1, <3>2 DEF Settled, Linked
      <4>2. prev[Me(t)] # Me(t)
        <5>1. PICK rank \in [Stmts -> Nat] :
                \A r \in listed : next[r] # NULL => rank[r] < rank[next[r]]
          BY <3>1 DEF Settled, Chain, Threaded
        <5>2. prev[Me(t)] = Me(t) => next[Me(t)] = Me(t)
          BY <1>0, <1>2, <3>1, <4>1 DEF Settled, Chain, Threaded
        <5>. QED BY <1>0, <1>2, <4>1, <5>1, <5>2
      <4>3. Chain(listed \ {Me(t)}, head', next', Past(Me(t), next, prev))
        <5>1. /\ head' = (IF prev[Me(t)] # NULL THEN head ELSE next[Me(t)])
              /\ next' = IF prev[Me(t)] # NULL THEN [next EXCEPT ![prev[Me(t)]] = next[Me(t)]]
                                               ELSE next
          BY <3>2
        <5>2. Chain(listed, head, next, prev)
          BY <3>1 DEF Settled
        <5>3. Chain(listed \ {Me(t)}, IF prev[Me(t)] # NULL THEN head ELSE next[Me(t)],
                    IF prev[Me(t)] # NULL THEN [next EXCEPT ![prev[Me(t)]] = next[Me(t)]] ELSE next,
                    Past(Me(t), next, prev))
          <6>1. /\ listed \in SUBSET Stmts
                /\ next \in [Stmts -> Maybe] /\ prev \in [Stmts -> Maybe]
            BY DEF IInv, Typed
          <6>. QED BY ONLY <4>1, <5>2, <6>1, ThreadedRemove
        <5>. QED BY ONLY <5>1, <5>3
      <4>4. next'[Me(t)] = next[Me(t)] /\ Past(Me(t), next', prev) = Past(Me(t), next, prev)
        <5>1. next'[Me(t)] = next[Me(t)] BY <1>2, <3>2, <4>2 DEF IInv, Typed
        <5>. QED BY ONLY <5>1 DEF Past
      <4>5. next[Me(t)] \in listed \cup {NULL}
        BY <3>1, <4>1 DEF Settled, Chain, Threaded
      <4>6. Linked' = listed
        BY <3>1 DEF Settled, Linked
      <4>7. job'[t].at = "removeNext" /\ job'[t].s = Me(t) /\ prev' = prev /\ listed' = listed
        BY <1>1, <3>2
      <4>. QED BY ONLY <4>1, <4>3, <4>4, <4>5, <4>6, <4>7 DEF Shape, Me
    <3>3. CASE ~linked[Me(t)]
      BY <1>1, <3>3 DEF Shape, Me
    <3>. QED BY <3>2, <3>3
  <2>6. \A u \in Threads \ {t} : Shape(u)'
    <3>1. \A u \in Threads \ {t} : job'[u].at = "idle"
      BY ONLY <1>1, <2>1 DEF Idle
    <3>. QED BY ONLY <3>1 DEF Shape
  <2>7. \A u \in listed' : mem'[u] = "alloc"
    BY <1>1, <1>2, <2>1 DEF Sequential, Settled, Shape, Linked, Me, IInv, Jobs, Lives, Typed
  <2>8. \A u \in Stmts : handle'[u] = "live" /\ u \notin listed' => finals'[u] = 1 \/ js'[u] = "preparing"
    BY <1>1, <1>2, <2>1 DEF Sequential, Spent, Shape, Me, IInv, Jobs, Lives, Typed, RemovePlaces
  <2>9. dbMem' = "freed" => dbJs' = "collected" /\ listed' = {} /\ head' = NULL
    <3>1. Settled
      BY <1>2, <2>1 DEF Sequential, Busy, Idle
    <3>2. linked[Me(t)] => dbMem # "freed"
      BY <1>2, <2>1, <3>1 DEF Sequential, Settled, Linked
    <3>. QED BY <2>1, <3>2 DEF Sequential
  <2>. QED BY <2>2, <2>3, <2>4, <2>5, <2>6, <2>7, <2>8, <2>9 DEF Sequential
<1>. QED BY <1>4, <1>5, <1>6, <1>7, <1>8, <1>9, <1>10 DEF IInv

LEMMA RemoveFromNextStep ==
  ASSUME IInv, NEW t \in Threads, RemoveFromNext(t)
  PROVE  IInv'
<1>. USE DEF RemoveFromNext, At, Goto, Bad, fields
<1>0. NULL \notin Stmts
  BY StatementListAssumption
<1>1. /\ \A u \in Threads \ {t} : job'[u] = job[u]
      /\ job'[t].kind = job[t].kind /\ job'[t].s = Me(t) /\ job'[t].at = "unlink" /\ job'[t].next = job[t].next
  BY DEF IInv, Typed, JobType, Idle, Me
<1>2. /\ job[t].kind \in {"finalize", "collect"} /\ Me(t) \in Stmts /\ mem[Me(t)] = "alloc"
      /\ js[Me(t)] = IF job[t].kind = "finalize" THEN "finalizing" ELSE "collected"
  BY <1>0 DEF Me, IInv, Typed, Jobs, Lives, InsertPlaces, RemovePlaces, Idle, Places, Kinds, JobType
<1>3. \A u \in Threads \ {t}, r \in Stmts : Owns(u, r)' <=> Owns(u, r)
  BY <1>1 DEF Owns
<1>4. Typed'
  BY <1>0, <1>2 DEF IInv, Typed, JobType, Idle, Me, Maybe, Kinds, Places, InsertPlaces, RemovePlaces
<1>5. Jobs'
  BY <1>0, <1>1, <1>2 DEF IInv, Typed, Jobs, Idle, Me, OneOwner, Owns, Lives, InsertPlaces, RemovePlaces
<1>6. OneOwner'
  BY <1>1, <1>2, <1>3 DEF IInv, Typed, Jobs, OneOwner, Owned, Owns, Lives, Me
<1>7. Lives'
  BY <1>1, <1>2 DEF IInv, Typed, Jobs, OneOwner, Owns, Lives, Me
<1>8. Owned'
  BY <1>1, <1>2, <1>3 DEF IInv, Typed, Jobs, OneOwner, Owned, Owns, Lives, Me
<1>9. Spent'
  <2>1. SUFFICES ASSUME ~overlapped' \/ dbJs' = "held"
                PROVE  (\A r \in Stmts : SpentOnce(r)') /\ \A u \in Threads : SpentBy(u)'
    BY DEF Spent
  <2>2. (\A r \in Stmts : SpentOnce(r)) /\ \A u \in Threads : SpentBy(u)
    BY <1>2, <2>1 DEF IInv, Spent, Typed
  <2>3. \A r \in Stmts : SpentOnce(r)'
    <3>1. \A u \in Threads : job[u].at = "clear" => job'[u].at = "clear" /\ job'[u].s = job[u].s
      BY <1>1, <1>2 DEF Idle
    <3>2. TAKE r \in Stmts
    <3>3. SpentOnce(r)
      BY <2>2
    <3>. QED BY <1>2, <2>2, <3>1, <3>3 DEF SpentOnce, SpentBy, IInv, Typed, Lives, Jobs
  <2>4. \A u \in Threads \ {t} : SpentBy(u)'
    BY <1>1, <1>2, <2>2 DEF SpentBy, IInv, Typed, Jobs, OneOwner, Owns, Lives, Me, RemovePlaces
  <2>5. SpentBy(t)'
    BY <1>1, <1>2, <2>2 DEF SpentOnce, SpentBy, IInv, Typed, Lives, Jobs, Me, RemovePlaces
  <2>. QED BY <2>3, <2>4, <2>5
<1>10. ASSUME ~overlapped' PROVE Sequential'
  <2>1. ~overlapped /\ Sequential /\ \A u \in Threads \ {t} : job[u] = Idle
    BY <1>2, <1>10 DEF IInv, Typed, Sequential, Single, Idle
  <2>2. ~fault'
    BY <1>0, <1>1, <1>2, <2>1 DEF IInv, Typed, Sequential, Shape, Settled, Jobs, Lives, Linked, Me
  <2>3. Single'
    BY <1>1, <2>1 DEF Single
  <2>4. (\A u \in Threads : job'[u].at \notin Busy) => Settled'
    BY <1>1, <1>2, <2>1 DEF Sequential, Settled, Busy, Shape, Linked, Me, Idle
  <2>5. Shape(t)'
    <3>1. /\ Me(t) \in listed /\ Linked = listed
          /\ Chain(listed \ {Me(t)}, head, next, Past(Me(t), next, prev))
      BY <2>1 DEF Sequential, Shape
    <3>2. prev' = Past(Me(t), next, prev)
      BY DEF Past
    <3>3. Linked' = listed
      BY <3>1 DEF Linked
    <3>4. job'[t].at = "unlink" /\ job'[t].s = Me(t) /\ UNCHANGED <<head, next, listed>>
      BY <1>1
    <3>. QED BY ONLY <3>1, <3>2, <3>3, <3>4 DEF Shape, Me
  <2>6. \A u \in Threads \ {t} : Shape(u)'
    <3>1. \A u \in Threads \ {t} : job'[u].at = "idle"
      BY ONLY <1>1, <2>1 DEF Idle
    <3>. QED BY ONLY <3>1 DEF Shape
  <2>7. \A u \in listed' : mem'[u] = "alloc"
    BY <1>1, <1>2, <2>1 DEF Sequential, Settled, Shape, Linked, Me, IInv, Jobs, Lives, Typed
  <2>8. \A u \in Stmts : handle'[u] = "live" /\ u \notin listed' => finals'[u] = 1 \/ js'[u] = "preparing"
    BY <1>1, <1>2, <2>1 DEF Sequential, Spent, Shape, Me, IInv, Jobs, Lives, Typed, RemovePlaces
  <2>9. dbMem' = "freed" => dbJs' = "collected" /\ listed' = {} /\ head' = NULL
    BY <1>0, <1>1, <1>2, <2>1 DEF Sequential, Shape, Me, IInv, Jobs, Lives, Typed
  <2>. QED BY <2>2, <2>3, <2>4, <2>5, <2>6, <2>7, <2>8, <2>9 DEF Sequential
<1>. QED BY <1>4, <1>5, <1>6, <1>7, <1>8, <1>9, <1>10 DEF IInv

LEMMA UnlinkStep ==
  ASSUME IInv, NEW t \in Threads, Unlink(t)
  PROVE  IInv'
<1>. USE DEF Unlink, At, Goto, fields
<1>0. NULL \notin Stmts
  BY StatementListAssumption
<1>1. /\ \A u \in Threads \ {t} : job'[u] = job[u]
      /\ job'[t].kind = job[t].kind /\ job'[t].s = Me(t) /\ job'[t].at = "removed" /\ job'[t].next = job[t].next
  BY DEF IInv, Typed, JobType, Idle, Me
<1>2. /\ job[t].kind \in {"finalize", "collect"} /\ Me(t) \in Stmts /\ mem[Me(t)] = "alloc"
      /\ js[Me(t)] = IF job[t].kind = "finalize" THEN "finalizing" ELSE "collected"
  BY <1>0 DEF Me, IInv, Typed, Jobs, Lives, InsertPlaces, RemovePlaces, Idle, Places, Kinds, JobType
<1>3. \A u \in Threads \ {t}, r \in Stmts : Owns(u, r)' <=> Owns(u, r)
  BY <1>1 DEF Owns
<1>4. Typed'
  BY <1>0, <1>2 DEF IInv, Typed, JobType, Idle, Me, Maybe, Kinds, Places, InsertPlaces, RemovePlaces
<1>5. Jobs'
  BY <1>0, <1>1, <1>2 DEF IInv, Typed, Jobs, Idle, Me, OneOwner, Owns, Lives, InsertPlaces, RemovePlaces
<1>6. OneOwner'
  BY <1>1, <1>2, <1>3 DEF IInv, Typed, Jobs, OneOwner, Owned, Owns, Lives, Me
<1>7. Lives'
  BY <1>1, <1>2 DEF IInv, Typed, Jobs, OneOwner, Owns, Lives, Me
<1>8. Owned'
  BY <1>1, <1>2, <1>3 DEF IInv, Typed, Jobs, OneOwner, Owned, Owns, Lives, Me
<1>9. Spent'
  <2>1. SUFFICES ASSUME ~overlapped' \/ dbJs' = "held"
                PROVE  (\A r \in Stmts : SpentOnce(r)') /\ \A u \in Threads : SpentBy(u)'
    BY DEF Spent
  <2>2. (\A r \in Stmts : SpentOnce(r)) /\ \A u \in Threads : SpentBy(u)
    BY <1>2, <2>1 DEF IInv, Spent, Typed
  <2>3. \A r \in Stmts : SpentOnce(r)'
    <3>1. \A u \in Threads : job[u].at = "clear" => job'[u].at = "clear" /\ job'[u].s = job[u].s
      BY <1>1, <1>2 DEF Idle
    <3>2. TAKE r \in Stmts
    <3>3. SpentOnce(r)
      BY <2>2
    <3>. QED BY <1>2, <2>2, <3>1, <3>3 DEF SpentOnce, SpentBy, IInv, Typed, Lives, Jobs
  <2>4. \A u \in Threads \ {t} : SpentBy(u)'
    BY <1>1, <1>2, <2>2 DEF SpentBy, IInv, Typed, Jobs, OneOwner, Owns, Lives, Me, RemovePlaces
  <2>5. SpentBy(t)'
    BY <1>1, <1>2, <2>2 DEF SpentOnce, SpentBy, IInv, Typed, Lives, Jobs, Me, RemovePlaces
  <2>. QED BY <2>3, <2>4, <2>5
<1>10. ASSUME ~overlapped' PROVE Sequential'
  <2>1. ~overlapped /\ Sequential /\ \A u \in Threads \ {t} : job[u] = Idle
    BY <1>2, <1>10 DEF IInv, Typed, Sequential, Single, Idle
  <2>2. ~fault'
    BY <1>0, <1>1, <1>2, <2>1 DEF IInv, Typed, Sequential, Shape, Settled, Jobs, Lives, Linked, Me
  <2>3. Single'
    BY <1>1, <2>1 DEF Single
  <2>4. (\A u \in Threads : job'[u].at \notin Busy) => Settled'
    <3>1. /\ Me(t) \in listed /\ Linked = listed
          /\ Chain(listed \ {Me(t)}, head, next, prev)
      BY <2>1 DEF Sequential, Shape
    <3>2. \A r \in listed \ {Me(t)} : next'[r] = next[r] /\ prev'[r] = prev[r]
      BY DEF IInv, Typed
    <3>3. listed \ {Me(t)} \in SUBSET Stmts
      BY DEF IInv, Typed
    <3>4. Chain(listed \ {Me(t)}, head, next', prev')
      BY ONLY <3>1, <3>2, <3>3, ChainFrame
    <3>5. Linked' = listed \ {Me(t)}
      BY <1>2, <3>1 DEF Linked, IInv, Typed
    <3>. QED BY <3>4, <3>5 DEF Settled
  <2>5. Shape(t)'
    BY <1>1, <1>2, <2>1 DEF Sequential, Settled, Busy, Shape, Linked, Me, IInv, Jobs, Lives, Typed
  <2>6. \A u \in Threads \ {t} : Shape(u)'
    <3>1. \A u \in Threads \ {t} : job'[u].at = "idle"
      BY ONLY <1>1, <2>1 DEF Idle
    <3>. QED BY ONLY <3>1 DEF Shape
  <2>7. \A u \in listed' : mem'[u] = "alloc"
    BY <1>1, <1>2, <2>1 DEF Sequential, Settled, Shape, Linked, Me, IInv, Jobs, Lives, Typed
  <2>8. \A u \in Stmts : handle'[u] = "live" /\ u \notin listed' => finals'[u] = 1 \/ js'[u] = "preparing"
    <3>1. SpentBy(t)
      BY <2>1 DEF IInv, Spent
    <3>2. handle[Me(t)] = "live" => finals[Me(t)] = 1
      BY <1>2, <3>1 DEF SpentBy, IInv, Jobs, RemovePlaces
    <3>. QED BY <2>1, <3>2 DEF Sequential, IInv, Typed
  <2>9. dbMem' = "freed" => dbJs' = "collected" /\ listed' = {} /\ head' = NULL
    BY <1>0, <1>1, <1>2, <2>1 DEF Sequential, Shape, Me, IInv, Jobs, Lives, Typed
  <2>. QED BY <2>2, <2>3, <2>4, <2>5, <2>6, <2>7, <2>8, <2>9 DEF Sequential
<1>. QED BY <1>4, <1>5, <1>6, <1>7, <1>8, <1>9, <1>10 DEF IInv

LEMMA RemovedStep ==
  ASSUME IInv, NEW t \in Threads, Removed(t)
  PROVE  IInv'
<1>. USE DEF Removed, At, Done, fields
<1>0. NULL \notin Stmts
  BY StatementListAssumption
<1>1. /\ \A u \in Threads \ {t} : job'[u] = job[u]
      /\ job'[t].kind = "none" /\ job'[t].s = NULL /\ job'[t].at = "idle" /\ job'[t].next = NULL
  BY DEF IInv, Typed, JobType, Idle, Me
<1>2. /\ job[t].kind \in {"finalize", "collect"} /\ Me(t) \in Stmts /\ mem[Me(t)] = "alloc"
      /\ js[Me(t)] = IF job[t].kind = "finalize" THEN "finalizing" ELSE "collected"
  BY <1>0 DEF Me, IInv, Typed, Jobs, Lives, InsertPlaces, RemovePlaces, Idle, Places, Kinds, JobType
<1>3. \A u \in Threads \ {t}, r \in Stmts : Owns(u, r)' <=> Owns(u, r)
  BY <1>1 DEF Owns
<1>4. Typed'
  BY <1>0, <1>2 DEF IInv, Typed, JobType, Idle, Me, Maybe, Kinds, Places, InsertPlaces, RemovePlaces
<1>5. Jobs'
  BY <1>0, <1>1, <1>2 DEF IInv, Typed, Jobs, Idle, Me, OneOwner, Owns, Lives, InsertPlaces, RemovePlaces
<1>6. OneOwner'
  BY <1>1, <1>2, <1>3 DEF IInv, Typed, Jobs, OneOwner, Owned, Owns, Lives, Me
<1>7. Lives'
  BY <1>1, <1>2 DEF IInv, Typed, Jobs, OneOwner, Owns, Lives, Me
<1>8. Owned'
  BY <1>1, <1>2, <1>3 DEF IInv, Typed, Jobs, OneOwner, Owned, Owns, Lives, Me
<1>9. Spent'
  <2>1. SUFFICES ASSUME ~overlapped' \/ dbJs' = "held"
                PROVE  (\A r \in Stmts : SpentOnce(r)') /\ \A u \in Threads : SpentBy(u)'
    BY DEF Spent
  <2>2. (\A r \in Stmts : SpentOnce(r)) /\ \A u \in Threads : SpentBy(u)
    BY <1>2, <2>1 DEF IInv, Spent, Typed
  <2>3. \A r \in Stmts : SpentOnce(r)'
    <3>1. \A u \in Threads : job[u].at = "clear" => job'[u].at = "clear" /\ job'[u].s = job[u].s
      BY <1>1, <1>2 DEF Idle
    <3>2. TAKE r \in Stmts
    <3>3. SpentOnce(r)
      BY <2>2
    <3>. QED BY <1>2, <2>2, <3>1, <3>3 DEF SpentOnce, SpentBy, IInv, Typed, Lives, Jobs
  <2>4. \A u \in Threads \ {t} : SpentBy(u)'
    BY <1>1, <1>2, <2>2 DEF SpentBy, IInv, Typed, Jobs, OneOwner, Owns, Lives, Me, RemovePlaces
  <2>5. SpentBy(t)'
    BY <1>1, <1>2, <2>2 DEF SpentOnce, SpentBy, IInv, Typed, Lives, Jobs, Me, RemovePlaces
  <2>. QED BY <2>3, <2>4, <2>5
<1>10. ASSUME ~overlapped' PROVE Sequential'
  <2>1. ~overlapped /\ Sequential /\ \A u \in Threads \ {t} : job[u] = Idle
    BY <1>2, <1>10 DEF IInv, Typed, Sequential, Single, Idle
  <2>2. ~fault'
    BY <1>0, <1>1, <1>2, <2>1 DEF IInv, Typed, Sequential, Shape, Settled, Jobs, Lives, Linked, Me
  <2>3. Single'
    BY <1>1, <2>1 DEF Single
  <2>4. (\A u \in Threads : job'[u].at \notin Busy) => Settled'
    BY <1>1, <1>2, <2>1 DEF Sequential, Settled, Busy, Shape, Linked, Me, Idle
  <2>5. Shape(t)'
    BY <1>1, <1>2, <2>1 DEF Sequential, Settled, Busy, Shape, Linked, Me, IInv, Jobs, Lives, Typed
  <2>6. \A u \in Threads \ {t} : Shape(u)'
    <3>1. \A u \in Threads \ {t} : job'[u].at = "idle"
      BY ONLY <1>1, <2>1 DEF Idle
    <3>. QED BY ONLY <3>1 DEF Shape
  <2>7. \A u \in listed' : mem'[u] = "alloc"
    <3>0. Settled
      BY <1>2, <2>1 DEF Sequential, Busy, Idle
    <3>1. Settled /\ ~linked[Me(t)]
      BY <2>1, <3>0 DEF Sequential, Shape
    <3>2. Me(t) \notin listed
      BY <3>1 DEF Settled, Linked
    <3>. QED BY <2>1, <3>2 DEF Sequential, IInv, Typed
  <2>8. \A u \in Stmts : handle'[u] = "live" /\ u \notin listed' => finals'[u] = 1 \/ js'[u] = "preparing"
    BY <1>1, <1>2, <2>1 DEF Sequential, Spent, Shape, Me, IInv, Jobs, Lives, Typed, RemovePlaces
  <2>9. dbMem' = "freed" => dbJs' = "collected" /\ listed' = {} /\ head' = NULL
    BY <1>0, <1>1, <1>2, <2>1 DEF Sequential, Shape, Me, IInv, Jobs, Lives, Typed
  <2>. QED BY <2>2, <2>3, <2>4, <2>5, <2>6, <2>7, <2>8, <2>9 DEF Sequential
<1>. QED BY <1>4, <1>5, <1>6, <1>7, <1>8, <1>9, <1>10 DEF IInv

LEMMA WalkStep ==
  ASSUME IInv, NEW t \in Threads, Walk(t)
  PROVE  IInv'
<1>. USE DEF Walk, At, Bad, fields
<1>0. NULL \notin Stmts
  BY StatementListAssumption
<1>1. /\ \A u \in Threads \ {t} : job'[u] = job[u]
      /\ job'[t].kind = job[t].kind /\ job'[t].s = Me(t) /\ job'[t].at = "clear" /\ job'[t].next = next[Me(t)]
  BY DEF IInv, Typed, JobType, Idle, Me
<1>2. job[t].kind = "collectDb" /\ dbJs = "collected" /\ Me(t) \in Stmts
  BY <1>0 DEF Me, IInv, Typed, Jobs, InsertPlaces, RemovePlaces, Idle, Places, Kinds, JobType, Maybe
<1>3. \A u \in Threads \ {t}, r \in Stmts : Owns(u, r)' <=> Owns(u, r)
  BY <1>1 DEF Owns
<1>4. Typed'
  BY <1>0, <1>2 DEF IInv, Typed, JobType, Idle, Me, Maybe, Kinds, Places, InsertPlaces, RemovePlaces
<1>5. Jobs'
  BY <1>0, <1>1, <1>2 DEF IInv, Typed, Jobs, Idle, Me, OneOwner, Owns, Lives, InsertPlaces, RemovePlaces
<1>6. OneOwner'
  BY <1>1, <1>2, <1>3 DEF IInv, Typed, Jobs, OneOwner, Owned, Owns, Lives, Me
<1>7. Lives'
  BY <1>1, <1>2 DEF IInv, Typed, Jobs, OneOwner, Owns, Lives, Me
<1>8. Owned'
  BY <1>1, <1>2, <1>3 DEF IInv, Typed, Jobs, OneOwner, Owned, Owns, Lives, Me
<1>9. Spent'
  <2>1. SUFFICES ASSUME ~overlapped' \/ dbJs' = "held"
                PROVE  (\A r \in Stmts : SpentOnce(r)') /\ \A u \in Threads : SpentBy(u)'
    BY DEF Spent
  <2>2. (\A r \in Stmts : SpentOnce(r)) /\ \A u \in Threads : SpentBy(u)
    BY <1>2, <2>1 DEF IInv, Spent, Typed
  <2>3. \A r \in Stmts : SpentOnce(r)'
    <3>1. ~overlapped /\ Sequential
      BY <1>2, <2>1 DEF IInv
    <3>2. Me(t) \in listed /\ mem[Me(t)] = "alloc"
      BY <1>0, <1>2, <3>1 DEF Sequential, Shape, Threaded, Me
    <3>3. \A u \in Threads \ {t} : job[u] = Idle
      BY <1>2, <3>1 DEF Sequential, Single, Idle
    <3>4. \A u \in Threads : ~Owns(u, Me(t)) /\ job[u].at # "clear"
      BY <1>2, <3>3 DEF Owns, Idle
    <3>5. js[Me(t)] \notin {"finalizing", "collected"}
      BY <1>2, <3>2, <3>4 DEF IInv, Owned
    <3>6. handle[Me(t)] = "live" => finals[Me(t)] = 0
      <4>1. PICK r \in Stmts : r = Me(t) BY <1>2
      <4>2. SpentOnce(r) BY <2>2
      <4>3. ~\E u \in Threads : job[u].at = "clear" BY <3>4
      <4>4. js[r] \notin {"finalizing", "collected"} /\ finals[r] \in Nat BY <3>5, <4>1 DEF IInv, Typed
      <4>. QED BY ONLY <4>1, <4>2, <4>3, <4>4 DEF SpentOnce
    <3>7. ASSUME NEW r \in Stmts, r # Me(t) PROVE SpentOnce(r)'
      BY <1>1, <1>2, <2>2, <3>4, <3>7 DEF SpentOnce, IInv, Typed, Me
    <3>8. SpentOnce(Me(t))'
      <4>1. finals'[Me(t)] <= 1 BY <1>2, <2>2, <3>6 DEF SpentOnce, IInv, Typed
      <4>2. job'[t].at = "clear" /\ job'[t].s = Me(t) BY <1>1
      <4>3. PICK r \in Stmts : r = Me(t) BY <1>2
      <4>4. SpentOnce(r)' BY <4>1, <4>2, <4>3 DEF SpentOnce
      <4>. QED BY <1>1, <4>3, <4>4 DEF Me
    <3>. QED BY <1>1, <3>7, <3>8 DEF Me
  <2>4. \A u \in Threads \ {t} : SpentBy(u)'
    BY <1>1, <1>2, <2>2, <2>1 DEF SpentBy, IInv, Typed, Sequential, Single, Idle, RemovePlaces
  <2>5. SpentBy(t)'
    BY <1>1, <1>2 DEF SpentBy, RemovePlaces
  <2>. QED BY <2>3, <2>4, <2>5
<1>10. ASSUME ~overlapped' PROVE Sequential'
  <2>1. ~overlapped /\ Sequential /\ \A u \in Threads \ {t} : job[u] = Idle
    BY <1>2, <1>10 DEF IInv, Typed, Sequential, Single, Idle
  <2>2. ~fault'
    <3>1. Me(t) \in listed /\ Linked = listed /\ Threaded(listed, Me(t), next, prev)
      BY <1>0, <1>2, <2>1 DEF Sequential, Shape, Threaded
    <3>. QED BY <2>1, <3>1 DEF Sequential
  <2>3. Single'
    BY <1>1, <2>1 DEF Single
  <2>4. (\A u \in Threads : job'[u].at \notin Busy) => Settled'
    BY <1>1, <1>2, <2>1 DEF Sequential, Settled, Busy, Shape, Linked, Me, Idle
  <2>5. Shape(t)'
    <3>1. Me(t) \in listed /\ Linked = listed /\ Threaded(listed, Me(t), next, prev)
      BY <1>0, <1>2, <2>1 DEF Sequential, Shape, Threaded
    <3>2. job'[t].at = "clear" /\ job'[t].s = Me(t) /\ job'[t].next = next[Me(t)]
      BY <1>1
    <3>3. Linked' = listed /\ UNCHANGED <<listed, next, prev>>
      BY <3>1 DEF Linked
    <3>. QED BY ONLY <3>1, <3>2, <3>3 DEF Shape, Me
  <2>6. \A u \in Threads \ {t} : Shape(u)'
    <3>1. \A u \in Threads \ {t} : job'[u].at = "idle"
      BY ONLY <1>1, <2>1 DEF Idle
    <3>. QED BY ONLY <3>1 DEF Shape
  <2>7. \A u \in listed' : mem'[u] = "alloc"
    BY <1>1, <1>2, <2>1 DEF Sequential, Settled, Shape, Linked, Me, IInv, Jobs, Lives, Typed
  <2>8. \A u \in Stmts : handle'[u] = "live" /\ u \notin listed' => finals'[u] = 1 \/ js'[u] = "preparing"
    <3>1. Me(t) \in listed /\ Linked = listed /\ Threaded(listed, Me(t), next, prev)
      BY <1>0, <1>2, <2>1 DEF Sequential, Shape, Threaded
    <3>. QED BY <2>1, <3>1 DEF Sequential, IInv, Typed
  <2>9. dbMem' = "freed" => dbJs' = "collected" /\ listed' = {} /\ head' = NULL
    BY <1>0, <1>1, <1>2, <2>1 DEF Sequential, Shape, Me, IInv, Jobs, Lives, Typed
  <2>. QED BY <2>2, <2>3, <2>4, <2>5, <2>6, <2>7, <2>8, <2>9 DEF Sequential
<1>. QED BY <1>4, <1>5, <1>6, <1>7, <1>8, <1>9, <1>10 DEF IInv

LEMMA ClearStep ==
  ASSUME IInv, NEW t \in Threads, Clear(t)
  PROVE  IInv'
<1>. USE DEF Clear, At, Bad, fields
<1>0. NULL \notin Stmts
  BY StatementListAssumption
<1>1. /\ \A u \in Threads \ {t} : job'[u] = job[u]
      /\ job'[t].kind = job[t].kind /\ job'[t].s = job[t].next /\ job'[t].at = "walk" /\ job'[t].next = job[t].next
  BY DEF IInv, Typed, JobType, Idle, Me
<1>2. job[t].kind = "collectDb" /\ dbJs = "collected" /\ Me(t) \in Stmts
  BY <1>0 DEF Me, IInv, Typed, Jobs, InsertPlaces, RemovePlaces, Idle, Places, Kinds, JobType, Maybe
<1>3. \A u \in Threads \ {t}, r \in Stmts : Owns(u, r)' <=> Owns(u, r)
  BY <1>1 DEF Owns
<1>4. Typed'
  BY <1>0, <1>2 DEF IInv, Typed, JobType, Idle, Me, Maybe, Kinds, Places, InsertPlaces, RemovePlaces
<1>5. Jobs'
  BY <1>0, <1>1, <1>2 DEF IInv, Typed, Jobs, Idle, Me, OneOwner, Owns, Lives, InsertPlaces, RemovePlaces
<1>6. OneOwner'
  BY <1>1, <1>2, <1>3 DEF IInv, Typed, Jobs, OneOwner, Owned, Owns, Lives, Me
<1>7. Lives'
  BY <1>1, <1>2 DEF IInv, Typed, Jobs, OneOwner, Owns, Lives, Me
<1>8. Owned'
  BY <1>1, <1>2, <1>3 DEF IInv, Typed, Jobs, OneOwner, Owned, Owns, Lives, Me
<1>9. Spent'
  <2>1. SUFFICES ASSUME ~overlapped' \/ dbJs' = "held"
                PROVE  (\A r \in Stmts : SpentOnce(r)') /\ \A u \in Threads : SpentBy(u)'
    BY DEF Spent
  <2>2. (\A r \in Stmts : SpentOnce(r)) /\ \A u \in Threads : SpentBy(u)
    BY <1>2, <2>1 DEF IInv, Spent, Typed
  <2>3. \A r \in Stmts : SpentOnce(r)'
    <3>1. \A u \in Threads \ {t} : job[u].at = "clear" => job'[u].at = "clear" /\ job'[u].s = job[u].s
      BY <1>1
    <3>2. TAKE r \in Stmts
    <3>3. SpentOnce(r)
      BY <2>2
    <3>4. CASE r = Me(t)
      BY <1>2, <3>3, <3>4 DEF SpentOnce, IInv, Typed
    <3>5. CASE r # Me(t)
      <4>1. \A u \in Threads : job[u].at = "clear" /\ job[u].s = r => u # t
        BY <3>5 DEF Me
      <4>2. handle'[r] = handle[r] /\ finals'[r] = finals[r] /\ js'[r] = js[r]
        BY <3>5 DEF IInv, Typed
      <4>. QED BY ONLY <3>1, <3>3, <4>1, <4>2 DEF SpentOnce
    <3>. QED BY <3>4, <3>5
  <2>4. \A u \in Threads \ {t} : SpentBy(u)'
    BY <1>1, <1>2, <2>2 DEF SpentBy, IInv, Typed, Jobs, OneOwner, Owns, Lives, Me, RemovePlaces
  <2>5. SpentBy(t)'
    BY <1>1, <1>2, <2>2 DEF SpentOnce, SpentBy, IInv, Typed, Lives, Jobs, Me, RemovePlaces
  <2>. QED BY <2>3, <2>4, <2>5
<1>10. ASSUME ~overlapped' PROVE Sequential'
  <2>1. ~overlapped /\ Sequential /\ \A u \in Threads \ {t} : job[u] = Idle
    BY <1>2, <1>10 DEF IInv, Typed, Sequential, Single, Idle
  <2>2. ~fault'
    BY <1>0, <1>1, <1>2, <2>1 DEF IInv, Typed, Sequential, Shape, Settled, Jobs, Lives, Linked, Me
  <2>3. Single'
    BY <1>1, <2>1 DEF Single
  <2>4. (\A u \in Threads : job'[u].at \notin Busy) => Settled'
    BY <1>1, <1>2, <2>1 DEF Sequential, Settled, Busy, Shape, Linked, Me, Idle
  <2>5. Shape(t)'
    <3>1. /\ Me(t) \in listed /\ Linked = listed /\ Threaded(listed, Me(t), next, prev)
          /\ job[t].next = next[Me(t)]
      BY <2>1 DEF Sequential, Shape
    <3>2. Threaded(listed \ {Me(t)}, next[Me(t)], next, prev)
      BY <3>1, ThreadedDrop DEF IInv, Typed
    <3>3. \A r \in listed \ {Me(t)} : next'[r] = next[r] /\ prev'[r] = prev[r]
      BY DEF IInv, Typed
    <3>4. listed \ {Me(t)} \in SUBSET Stmts
      BY DEF IInv, Typed
    <3>5. Threaded(listed \ {Me(t)}, next[Me(t)], next', prev')
      BY ONLY <3>2, <3>3, <3>4, ThreadedFrame
    <3>6. Linked' = listed \ {Me(t)}
      BY <1>2, <3>1 DEF Linked, IInv, Typed
    <3>7. job'[t].at = "walk" /\ job'[t].s = next[Me(t)] /\ listed' = listed \ {Me(t)}
      BY <1>1, <3>1
    <3>. QED BY ONLY <3>5, <3>6, <3>7 DEF Shape, Me
  <2>6. \A u \in Threads \ {t} : Shape(u)'
    <3>1. \A u \in Threads \ {t} : job'[u].at = "idle"
      BY ONLY <1>1, <2>1 DEF Idle
    <3>. QED BY ONLY <3>1 DEF Shape
  <2>7. \A u \in listed' : mem'[u] = "alloc"
    BY <1>1, <1>2, <2>1 DEF Sequential, Settled, Shape, Linked, Me, IInv, Jobs, Lives, Typed
  <2>8. \A u \in Stmts : handle'[u] = "live" /\ u \notin listed' => finals'[u] = 1 \/ js'[u] = "preparing"
    BY <1>1, <1>2, <2>1 DEF Sequential, Spent, Shape, Me, IInv, Jobs, Lives, Typed, RemovePlaces
  <2>9. dbMem' = "freed" => dbJs' = "collected" /\ listed' = {} /\ head' = NULL
    BY <1>0, <1>1, <1>2, <2>1 DEF Sequential, Shape, Me, IInv, Jobs, Lives, Typed
  <2>. QED BY <2>2, <2>3, <2>4, <2>5, <2>6, <2>7, <2>8, <2>9 DEF Sequential
<1>. QED BY <1>4, <1>5, <1>6, <1>7, <1>8, <1>9, <1>10 DEF IInv

LEMMA FreeDbStep ==
  ASSUME IInv, NEW t \in Threads, FreeDb(t)
  PROVE  IInv'
<1>. USE DEF FreeDb, At, Done, fields
<1>0. NULL \notin Stmts
  BY StatementListAssumption
<1>1. /\ \A u \in Threads \ {t} : job'[u] = job[u]
      /\ job'[t].kind = "none" /\ job'[t].s = NULL /\ job'[t].at = "idle" /\ job'[t].next = NULL
  BY DEF IInv, Typed, JobType, Idle, Me
<1>2. job[t].kind = "collectDb" /\ dbJs = "collected" /\ Me(t) = NULL
  BY <1>0 DEF Me, IInv, Typed, Jobs, InsertPlaces, RemovePlaces, Idle, Places, Kinds, JobType, Maybe
<1>3. \A u \in Threads \ {t}, r \in Stmts : Owns(u, r)' <=> Owns(u, r)
  BY <1>1 DEF Owns
<1>4. Typed'
  BY <1>0, <1>2 DEF IInv, Typed, JobType, Idle, Me, Maybe, Kinds, Places, InsertPlaces, RemovePlaces
<1>5. Jobs'
  BY <1>0, <1>1, <1>2 DEF IInv, Typed, Jobs, Idle, Me, OneOwner, Owns, Lives, InsertPlaces, RemovePlaces
<1>6. OneOwner'
  BY <1>1, <1>2, <1>3 DEF IInv, Typed, Jobs, OneOwner, Owned, Owns, Lives, Me
<1>7. Lives'
  BY <1>1, <1>2 DEF IInv, Typed, Jobs, OneOwner, Owns, Lives, Me
<1>8. Owned'
  BY <1>1, <1>2, <1>3 DEF IInv, Typed, Jobs, OneOwner, Owned, Owns, Lives, Me
<1>9. Spent'
  <2>1. SUFFICES ASSUME ~overlapped' \/ dbJs' = "held"
                PROVE  (\A r \in Stmts : SpentOnce(r)') /\ \A u \in Threads : SpentBy(u)'
    BY DEF Spent
  <2>2. (\A r \in Stmts : SpentOnce(r)) /\ \A u \in Threads : SpentBy(u)
    BY <1>2, <2>1 DEF IInv, Spent, Typed
  <2>3. \A r \in Stmts : SpentOnce(r)'
    <3>1. \A u \in Threads : job[u].at = "clear" => job'[u].at = "clear" /\ job'[u].s = job[u].s
      BY <1>1, <1>2 DEF Idle
    <3>2. TAKE r \in Stmts
    <3>3. SpentOnce(r)
      BY <2>2
    <3>. QED BY <1>2, <2>2, <3>1, <3>3 DEF SpentOnce, SpentBy, IInv, Typed, Lives, Jobs
  <2>4. \A u \in Threads \ {t} : SpentBy(u)'
    BY <1>1, <1>2, <2>2 DEF SpentBy, IInv, Typed, Jobs, OneOwner, Owns, Lives, Me, RemovePlaces
  <2>5. SpentBy(t)'
    BY <1>1, <1>2, <2>2 DEF SpentOnce, SpentBy, IInv, Typed, Lives, Jobs, Me, RemovePlaces
  <2>. QED BY <2>3, <2>4, <2>5
<1>10. ASSUME ~overlapped' PROVE Sequential'
  <2>1. ~overlapped /\ Sequential /\ \A u \in Threads \ {t} : job[u] = Idle
    BY <1>2, <1>10 DEF IInv, Typed, Sequential, Single, Idle
  <2>2. ~fault'
    BY <1>0, <1>1, <1>2, <2>1 DEF IInv, Typed, Sequential, Shape, Settled, Jobs, Lives, Linked, Me
  <2>3. Single'
    BY <1>1, <2>1 DEF Single
  <2>4. (\A u \in Threads : job'[u].at \notin Busy) => Settled'
    <3>1. listed = {} /\ Linked = listed /\ Threaded({}, NULL, next, prev)
      BY <1>2, <2>1 DEF Sequential, Shape, Threaded
    <3>2. Linked' = listed' /\ listed' = {} /\ head' = NULL /\ UNCHANGED <<next, prev>>
      BY <3>1 DEF Linked
    <3>. QED BY ONLY <3>1, <3>2 DEF Settled, Chain
  <2>5. Shape(t)'
    BY <1>1, <1>2, <2>1 DEF Sequential, Settled, Busy, Shape, Linked, Me, IInv, Jobs, Lives, Typed
  <2>6. \A u \in Threads \ {t} : Shape(u)'
    <3>1. \A u \in Threads \ {t} : job'[u].at = "idle"
      BY ONLY <1>1, <2>1 DEF Idle
    <3>. QED BY ONLY <3>1 DEF Shape
  <2>7. \A u \in listed' : mem'[u] = "alloc"
    BY <1>1, <1>2, <2>1 DEF Sequential, Settled, Shape, Linked, Me, IInv, Jobs, Lives, Typed
  <2>8. \A u \in Stmts : handle'[u] = "live" /\ u \notin listed' => finals'[u] = 1 \/ js'[u] = "preparing"
    BY <1>1, <1>2, <2>1 DEF Sequential, Spent, Shape, Me, IInv, Jobs, Lives, Typed, RemovePlaces
  <2>9. dbMem' = "freed" => dbJs' = "collected" /\ listed' = {} /\ head' = NULL
    <3>1. listed = {} /\ Linked = listed /\ Threaded({}, NULL, next, prev)
      BY <1>2, <2>1 DEF Sequential, Shape, Threaded
    <3>. QED BY <1>2, <3>1
  <2>. QED BY <2>2, <2>3, <2>4, <2>5, <2>6, <2>7, <2>8, <2>9 DEF Sequential
<1>. QED BY <1>4, <1>5, <1>6, <1>7, <1>8, <1>9, <1>10 DEF IInv
-----------------------------------------------------------------------------
(* The theorems.                                                            *)

LEMMA InitIInv == Init => IInv
<1>. SUFFICES ASSUME Init PROVE IInv
  OBVIOUS
<1>. USE DEF Init, Idle
<1>1. Typed
  BY DEF Typed, JobType, Kinds, Places, Maybe
<1>2. Jobs /\ OneOwner /\ Lives /\ Owned /\ Spent
  BY DEF Jobs, OneOwner, Lives, Owned, Spent, SpentOnce, SpentBy, Owns
<1>3. Settled
  <2>1. \E rank \in [Stmts -> Nat] : \A s \in {} : next[s] # NULL => rank[s] < rank[next[s]]
    <3>1. [s \in Stmts |-> 0] \in [Stmts -> Nat] OBVIOUS
    <3>. QED BY <3>1
  <2>2. Linked = {} BY DEF Linked
  <2>. QED BY <2>1, <2>2 DEF Settled, Chain, Threaded
<1>4. Sequential
  BY <1>3 DEF Sequential, Single, Shape
<1>. QED BY <1>1, <1>2, <1>4 DEF IInv

LEMMA StutterIInv == ASSUME IInv, UNCHANGED vars PROVE IInv'
<1>. USE DEF vars, fields
<1>1. Typed' /\ Jobs' /\ OneOwner' /\ Lives' /\ Owned'
  <2>1. Typed' /\ Jobs' BY DEF IInv, Typed, Jobs, Me
  <2>2. OneOwner' BY DEF IInv, OneOwner, Owns, Me
  <2>3. Lives' BY DEF IInv, Lives, Owns, Me
  <2>4. Owned' BY DEF IInv, Owned, Owns, Me
  <2>. QED BY <2>1, <2>2, <2>3, <2>4
<1>2. Spent'
  BY DEF IInv, Spent, SpentOnce, SpentBy, Me
<1>3. ~overlapped' => Sequential'
  <2>1. SUFFICES ASSUME ~overlapped' PROVE Sequential' OBVIOUS
  <2>2. Sequential BY <2>1 DEF IInv
  <2>3. Settled => Settled' BY DEF Settled, Linked
  <2>4. \A t \in Threads : Shape(t) => Shape(t)' BY DEF Shape, Settled, Linked, Me
  <2>. QED BY <2>2, <2>3, <2>4 DEF Sequential, Single
<1>. QED BY <1>1, <1>2, <1>3 DEF IInv

LEMMA NextIInv == IInv /\ [Next]_vars => IInv'
<1>. SUFFICES ASSUME IInv, [Next]_vars PROVE IInv'
  OBVIOUS
<1>1. CASE UNCHANGED vars
  BY <1>1, StutterIInv
<1>2. CASE Next
  <2>1. PICK t \in Threads :
          \/ \E s \in Stmts : PrepareStmt(t, s) \/ PrepareFails(t, s) \/ Finalize(t, s)
                                \/ CollectStmt(t, s)
          \/ CollectDb(t)
          \/ InsertFields(t) \/ InsertPrev(t) \/ InsertHead(t) \/ Return(t)
          \/ FinalizeHandle(t) \/ NullHandle(t)
          \/ RemoveFromPrev(t) \/ RemoveFromNext(t) \/ Unlink(t) \/ Removed(t)
          \/ Walk(t) \/ Clear(t) \/ FreeDb(t)
    BY <1>2 DEF Next
  <2>2. CASE \E s \in Stmts : PrepareStmt(t, s) \/ PrepareFails(t, s) \/ Finalize(t, s)
                                \/ CollectStmt(t, s)
    BY <2>2, PrepareStmtStep, PrepareFailsStep, FinalizeStep, CollectStmtStep
  <2>3. CASE CollectDb(t) \/ InsertFields(t) \/ InsertPrev(t) \/ InsertHead(t) \/ Return(t)
    BY <2>3, CollectDbStep, InsertFieldsStep, InsertPrevStep, InsertHeadStep, ReturnStep
  <2>4. CASE \/ FinalizeHandle(t) \/ NullHandle(t)
             \/ RemoveFromPrev(t) \/ RemoveFromNext(t) \/ Unlink(t) \/ Removed(t)
    BY <2>4, FinalizeHandleStep, NullHandleStep, RemoveFromPrevStep, RemoveFromNextStep,
       UnlinkStep, RemovedStep
  <2>5. CASE Walk(t) \/ Clear(t) \/ FreeDb(t)
    BY <2>5, WalkStep, ClearStep, FreeDbStep
  <2>. QED BY <2>1, <2>2, <2>3, <2>4, <2>5
<1>. QED BY <1>1, <1>2

LEMMA Invariance == Spec => []IInv
<1>. QED BY InitIInv, NextIInv, PTL DEF Spec

\* No job of a database touches freed memory, as long as its jobs run one
\* after the other: insert, remove and finalize_statements find every
\* neighbour they follow, and the database, still allocated.
THEOREM NoUseAfterFreeAlways == Spec => []NoUseAfterFree
<1>1. IInv => NoUseAfterFree
  BY DEF IInv, Sequential, NoUseAfterFree
<1>. QED BY <1>1, Invariance, PTL

\* A statement is passed to sqlite3_finalize once at most, by finalize(), its
\* collector or the database's, and exactly once when the database is gone and
\* no jobs overlapped.
THEOREM FinalizedOnceAlways == Spec => []FinalizedOnce
<1>1. IInv => FinalizedOnce
  <2>. SUFFICES ASSUME IInv PROVE FinalizedOnce
    OBVIOUS
  <2>1. (overlapped /\ dbJs = "collected") \/ \A s \in Stmts : finals[s] <= 1
    BY DEF IInv, Spent, SpentOnce, Typed
  <2>2. ASSUME ~overlapped, dbMem = "freed", NEW s \in Stmts, handle[s] = "live"
        PROVE  finals[s] = 1
    BY <2>2 DEF IInv, Sequential, Lives
  <2>. QED BY <2>1, <2>2 DEF FinalizedOnce
<1>. QED BY <1>1, Invariance, PTL

-----------------------------------------------------------------------------
(* The way along the list.                                                  *)

\* A set of naturals with 0 and every successor of its members is Nat.
LEMMA SetInduction ==
  ASSUME NEW T \in SUBSET Nat, 0 \in T, \A n \in T : n + 1 \in T
  PROVE  T = Nat
<1>1. SUFFICES ASSUME Nat \ T # {} PROVE FALSE
  OBVIOUS
<1>2. PICK x \in Nat \ T : \A y \in Nat \ T : x <= y
  BY <1>1, LeastMember
<1>3. x # 0 /\ x - 1 \in Nat
  BY <1>2
<1>4. x - 1 \in T
  <2>1. ~(x <= x - 1) BY <1>2, <1>3
  <2>. QED BY ONLY <1>2, <1>3, <2>1
<1>5. (x - 1) + 1 = x BY <1>2
<1>. QED BY <1>2, <1>4, <1>5

After(s) == IF s = NULL THEN NULL ELSE next[s]
IsMet(met, n) == met = [i \in 0..n |-> IF i = 0 THEN head ELSE After(met[i - 1])]

\* The recursive definition of the way has a solution.
LEMMA MetEquation ==
  ASSUME Cardinality(Stmts) \in Nat
  PROVE  IsMet(Met, Cardinality(Stmts))
<1> DEFINE T == {n \in Nat : \E g : IsMet(g, n)}
<1>1. 0 \in T
  <2>1. IsMet([i \in 0..0 |-> head], 0) BY DEF IsMet
  <2>. QED BY <2>1
<1>2. \A n \in T : n + 1 \in T
  <2>1. SUFFICES ASSUME NEW n \in Nat, NEW g, IsMet(g, n) PROVE \E h : IsMet(h, n + 1)
    OBVIOUS
  <2> DEFINE h == [i \in 0..n+1 |-> IF i \in 0..n THEN g[i] ELSE After(g[n])]
  <2>2. \A i \in 0..n+1 : h[i] = IF i = 0 THEN head ELSE After(h[i - 1])
    <3>1. TAKE i \in 0..n+1
    <3>2. CASE i = 0 BY <3>2, <2>1 DEF IsMet
    <3>3. CASE i = n + 1
      <4>1. h[i] = After(g[n]) /\ h[i - 1] = g[n] BY <3>3
      <4>. QED BY <4>1, <3>3
    <3>4. CASE i # 0 /\ i # n + 1
      <4>1. g[i] = After(g[i - 1]) BY <3>4, <2>1 DEF IsMet
      <4>2. h[i] = g[i] /\ h[i - 1] = g[i - 1] BY <3>4
      <4>. QED BY <4>1, <4>2, <3>4
    <3>. QED BY <3>2, <3>3, <3>4
  <2>3. h = [i \in 0..n+1 |-> IF i = 0 THEN head ELSE After(h[i - 1])]
    BY <2>2
  <2>. HIDE DEF h
  <2>. QED BY <2>3 DEF IsMet
<1>3. T = Nat
  <2>. HIDE DEF T
  <2>0. T \in SUBSET Nat BY DEF T
  <2>. QED BY <1>1, <1>2, <2>0, SetInduction
<1>4. \E g : IsMet(g, Cardinality(Stmts)) BY <1>3
<1>. QED
  <2> DEFINE C == Cardinality(Stmts)
             G == CHOOSE g : IsMet(g, C)
  <2>1. Met = G BY DEF Met, IsMet, After
  <2>2. IsMet(G, C)
    <3>. HIDE DEF C
    <3>1. \E g : IsMet(g, C) BY <1>4 DEF C
    <3>. HIDE DEF IsMet
    <3>. QED BY ONLY <3>1
  <2>. QED BY <2>1, <2>2

\* Walking a Threaded list meets its statements, each once, and then NULL.
LEMMA WalkMeetsAll ==
  ASSUME NEW S \in SUBSET Stmts, Threaded(S, head, next, prev)
  PROVE  Met[Cardinality(Stmts)] = NULL /\ OnList = S
<1> DEFINE C == Cardinality(Stmts)
<1>0. NULL \notin Stmts /\ IsFiniteSet(Stmts) /\ C \in Nat
  BY StatementListAssumption, FS_CardinalityType
<1>1. PICK rank \in [Stmts -> Nat] : \A s \in S : next[s] # NULL => rank[s] < rank[next[s]]
  BY DEF Threaded
<1>2. Met[0] = head /\ \A i \in 1..C : Met[i] = After(Met[i - 1])
  BY <1>0, MetEquation DEF IsMet
<1>. HIDE DEF C
<1>3. \A n \in Nat : n <= C => Met[n] \in S \cup {NULL}
  <2> DEFINE T == {n \in Nat : n <= C => Met[n] \in S \cup {NULL}}
  <2>1. 0 \in T BY <1>2 DEF Threaded
  <2>2. ASSUME NEW n \in T PROVE n + 1 \in T
    <3>1. CASE n + 1 <= C
      <4>1. Met[n] \in S \cup {NULL} /\ Met[n + 1] = After(Met[n]) BY <1>0, <1>2, <3>1
      <4>2. After(Met[n]) \in S \cup {NULL} BY <4>1 DEF After, Threaded
      <4>. QED BY <4>1, <4>2
    <3>. QED BY <3>1
  <2>3. T = Nat
    <3>. HIDE DEF T
    <3>0. T \in SUBSET Nat BY DEF T
    <3>. QED BY <2>1, <2>2, <3>0, SetInduction
  <2>. QED BY <2>3
<1>4. \A n \in Nat : n <= C /\ Met[n] # NULL =>
        \A i \in 0..(n - 1) : Met[i] # NULL /\ rank[Met[i]] < rank[Met[n]]
  <2> DEFINE Up(n) == \A i \in 0..(n - 1) : Met[i] # NULL /\ rank[Met[i]] < rank[Met[n]]
             T == {n \in Nat : n <= C /\ Met[n] # NULL => Up(n)}
  <2>1. 0 \in T OBVIOUS
  <2>2. ASSUME NEW n \in T PROVE n + 1 \in T
    <3>. SUFFICES ASSUME n + 1 <= C, Met[n + 1] # NULL PROVE Up(n + 1)
      OBVIOUS
    <3>1. Met[n + 1] = After(Met[n]) BY <1>0, <1>2
    <3>2. Met[n] # NULL /\ Met[n] \in S /\ Met[n + 1] = next[Met[n]]
      BY <1>0, <1>3, <3>1 DEF After
    <3>3. rank[Met[n]] < rank[Met[n + 1]] /\ Met[n + 1] \in Stmts
      BY <1>1, <3>2 DEF Threaded
    <3>4. Up(n) BY <1>0, <3>2
    <3>. HIDE DEF T
    <3>5. ASSUME NEW i \in 0..n PROVE Met[i] # NULL /\ rank[Met[i]] < rank[Met[n + 1]]
      <4>1. CASE i = n BY <3>2, <3>3, <4>1
      <4>2. CASE i # n
        <5>1. i \in 0..(n - 1) /\ i \in Nat /\ i <= C BY <1>0, <4>2 DEF T
        <5>2. Met[i] # NULL /\ rank[Met[i]] < rank[Met[n]] BY <3>4, <5>1
        <5>3. Met[i] \in Stmts BY <1>3, <5>1, <5>2
        <5>. QED BY <1>1, <3>2, <3>3, <5>2, <5>3
      <4>. QED BY <4>1, <4>2
    <3>6. (n + 1) - 1 = n BY DEF T
    <3>. QED BY <3>5, <3>6
  <2>3. T = Nat
    <3>. HIDE DEF T
    <3>0. T \in SUBSET Nat BY DEF T
    <3>. QED BY <2>1, <2>2, <3>0, SetInduction
  <2>. QED BY <2>3
<1>5. Met[C] = NULL
  <2>. SUFFICES ASSUME Met[C] # NULL PROVE FALSE
    OBVIOUS
  <2> DEFINE way == [n \in 0..C |-> Met[n]]
  <2>1. \A n \in 0..C : Met[n] \in S /\ Met[n] # NULL
    BY <1>0, <1>3, <1>4
  <2>2. \A m, n \in 0..C : m < n => Met[m] # Met[n]
    <3>1. TAKE m, n \in 0..C
    <3>2. HAVE m < n
    <3>3. rank[Met[m]] < rank[Met[n]] BY <1>0, <1>4, <2>1, <3>2
    <3>4. rank[Met[n]] \in Nat BY <1>1, <2>1
    <3>. QED BY <3>3, <3>4
  <2>3. way \in Injection(0..C, Stmts)
    <3>1. way \in [0..C -> Stmts] BY <2>1
    <3>2. \A m, n \in 0..C : way[m] = way[n] => m = n BY <1>0, <2>2
    <3>. QED BY <3>1, <3>2 DEF Injection, IsInjective
  <2>4. Cardinality(0..C) <= C
    BY <1>0, <2>3, FS_Injection DEF C
  <2>. QED BY <1>0, <2>4, FS_Interval
<1>6. OnList \subseteq S
  BY <1>0, <1>3 DEF OnList, C
<1>7. S \subseteq OnList
  <2>1. SUFFICES ASSUME S \ OnList # {} PROVE FALSE
    OBVIOUS
  <2>2. PICK s \in S \ OnList : \A u \in S \ OnList : rank[s] <= rank[u]
    BY <2>1, LeastRanked
  <2>3. \A n \in 0..C : Met[n] # s
    BY <1>0, <2>2 DEF OnList, C
  <2>4. prev[s] \in S /\ next[prev[s]] = s /\ s # NULL
    BY <1>0, <1>2, <2>2, <2>3 DEF Threaded
  <2>5. rank[prev[s]] < rank[s]
    BY <1>1, <2>4
  <2>6. prev[s] \in OnList
    BY <1>1, <2>2, <2>4, <2>5
  <2>7. PICK k \in 0..C : Met[k] = prev[s]
    BY <2>6 DEF OnList, C
  <2>8. k + 1 \in 1..C /\ (k + 1) - 1 = k
    BY <1>0, <1>5, <2>4, <2>7
  <2>9. Met[k + 1] = s
    BY <1>0, <1>2, <2>4, <2>7, <2>8 DEF After
  <2>. QED BY <2>3, <2>8, <2>9
<1>. QED BY <1>5, <1>6, <1>7 DEF C

\* Between jobs that have not overlapped, the pointers of the statements are
\* one list of exactly those prepared and not removed, none of them freed:
\* insert and remove leave no statement out and none behind.
THEOREM ListIntactAlways == Spec => []ListIntact
<1>1. IInv => ListIntact
  <2>. SUFFICES ASSUME IInv, ~overlapped, \A t \in Threads : job[t] = Idle
                PROVE  /\ Met[Cardinality(Stmts)] = NULL
                       /\ OnList = listed /\ listed = {s \in Stmts : linked[s]}
                       /\ \A s \in listed : /\ mem[s] = "alloc"
                                            /\ (prev[s] = NULL) <=> (s = head)
                                            /\ next[s] # NULL => prev[next[s]] = s
    BY DEF ListIntact
  <2>1. Settled /\ \A s \in listed : mem[s] = "alloc"
    BY DEF IInv, Sequential, Busy, Idle
  <2>2. Met[Cardinality(Stmts)] = NULL /\ OnList = listed
    BY <2>1, WalkMeetsAll DEF Settled, Chain, IInv, Typed
  <2>3. listed = {s \in Stmts : linked[s]}
    BY <2>1 DEF Settled, Linked
  <2>4. \A s \in listed : /\ (prev[s] = NULL) <=> (s = head)
                          /\ next[s] # NULL => prev[next[s]] = s
    BY <2>1, StatementListAssumption DEF Settled, Chain, Threaded, IInv, Typed
  <2>. QED BY <2>1, <2>2, <2>3, <2>4
<1>. QED BY <1>1, Invariance, PTL
=============================================================================
