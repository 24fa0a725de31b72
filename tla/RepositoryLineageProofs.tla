---------------------- MODULE RepositoryLineageProofs ----------------------
(***************************************************************************)
(* Proofs about RepositoryLineage for every number of lineages, requests,  *)
(* commits, archives and repositories.                                     *)
(***************************************************************************)
EXTENDS RepositoryLineage, WellFoundedInduction, TLAPS

-----------------------------------------------------------------------------
(* The newest repository                                                   *)

\* A set of repositories that is not empty has one with the greatest sequence
\* number: the ORDER BY ... LIMIT 1 of the rollback query returns a row.
LEMMA NewestExists ==
  ASSUME TypeOK, NEW S \in SUBSET Ids, S # {}, NEW b \in Nat,
         \A i \in S : repos[i].sequence <= b
  PROVE  \E i \in S : \A h \in S : repos[h].sequence <= repos[i].sequence
<1>1. \A i \in S : repos[i].sequence \in Nat
  BY DEF TypeOK, Repository
<1> DEFINE T == {b - repos[i].sequence : i \in S}
<1>2. T \subseteq Nat /\ T # {}
  BY <1>1
<1>3. PICK x \in T : \A y \in T : ~(<<y, x>> \in OpToRel(<, Nat))
  BY <1>2, NatLessThanWellFounded, WFMin
<1>4. \A y \in T : ~(y < x)
  BY <1>2, <1>3 DEF OpToRel
<1>5. PICK i \in S : x = b - repos[i].sequence
  OBVIOUS
<1>6. ASSUME NEW h \in S PROVE repos[h].sequence <= repos[i].sequence
  <2>1. ~(b - repos[h].sequence < b - repos[i].sequence)
    BY <1>4, <1>5
  <2>2. QED
    BY <2>1, <1>1
<1>7. QED
  BY <1>6

-----------------------------------------------------------------------------
(* The inductive invariant                                                 *)

\* The request has minted an id and not yet turned it into a row.
Holds(c) == req[c].pc \in {"clone", "find", "allocate", "upload", "discard"}

\* What a request remembers is still true when it acts.
RequestOK(c) ==
    /\ Holds(c) => req[c].id \in Ids /\ repos[req[c].id].state = "minted"
    /\ req[c].pc \in {"clone", "find", "allocate"} =>
         req[c].key \in Keys /\ req[c].tries < MaxRetries
    /\ req[c].pc \in {"lock", "erase"} =>
         /\ req[c].id \in Ids
         /\ repos[req[c].id].state \in {"present", "deleted"}
         /\ req[c].key = repos[req[c].id].key
    /\ req[c].pc = "rmdir" => req[c].id \in Ids /\ repos[req[c].id].state = "deleted"
    /\ req[c].pc = "sweep" => account = "gone"

\* An id without a row belongs to no lineage, and a row's lineage outlives it.
RowOK(i) ==
    /\ repos[i].state \in {"free", "minted"} => repos[i].key = None
    /\ repos[i].key # None /\ account = "active" => lineage[repos[i].key].exists

\* No two requests hold one id.
Exclusive == \A c, d \in Requests : Holds(c) /\ Holds(d) /\ req[c].id = req[d].id => c = d

\* The account's rows go with it.
AccountOK ==
    /\ account = "gone" => Present = {}
    /\ \A k \in Keys : lineage[k].exists => account = "active"

\* All of it; the two properties are inductive with it.
LineageInv ==
    /\ TypeOK
    /\ \A i \in Ids : RowOK(i)
    /\ \A c \in Requests : RequestOK(c)
    /\ Exclusive
    /\ AccountOK
    /\ SequencesNeverReused
    /\ RevisionOnce

\* An idle request is well-typed.
LEMMA IdleType == Idle \in RequestState
  BY MaxRetriesAssumption DEF Idle, RequestState

\* The invariant holds of the empty database.
LEMMA InitInv == Init => LineageInv
<1> SUFFICES ASSUME Init PROVE LineageInv
  OBVIOUS
<1>1. TypeOK
  BY IdleType DEF Init, TypeOK, FreeId, NoLineage, Repository, Lineage, CleanerState
<1>2. \A i \in Ids : repos[i] = FreeId
  BY DEF Init
<1>3. \A c \in Requests : req[c].pc = "idle"
  BY DEF Init, Idle
<1>4. (\A i \in Ids : RowOK(i)) /\ SequencesNeverReused /\ RevisionOnce
  BY <1>2, NullAssumption DEF RowOK, SequencesNeverReused, RevisionOnce, FreeId, Present
<1>5. (\A c \in Requests : RequestOK(c)) /\ Exclusive
  BY <1>3 DEF RequestOK, Exclusive, Holds
<1>6. AccountOK
  BY DEF Init, AccountOK, NoLineage
<1>7. QED
  BY <1>1, <1>4, <1>5, <1>6 DEF LineageInv

-----------------------------------------------------------------------------
(* Steps that change one request's local state only                        *)

\* A step of one request that leaves the tables alone keeps the invariant when
\* the request's own part of it holds afterwards.
LEMMA LocalStep ==
  ASSUME LineageInv, NEW c \in Requests, NEW st \in RequestState,
         req' = [req EXCEPT ![c] = st],
         UNCHANGED <<repos, lineage, account>>,
         lock' \in [Keys -> Requests \cup {None}], dirs' \subseteq Ids,
         cleaner' \in [Cleaners -> CleanerState],
         RequestOK(c)', Holds(c)' => Holds(c) /\ st.id = req[c].id
  PROVE  LineageInv'
<1>0. req \in [Requests -> RequestState]
  BY DEF LineageInv, TypeOK
<1>1. req'[c] = st /\ \A d \in Requests : d # c => req'[d] = req[d]
  BY <1>0
<1>2. TypeOK'
  BY DEF LineageInv, TypeOK
<1>3. (\A i \in Ids : RowOK(i))' /\ AccountOK' /\ SequencesNeverReused' /\ RevisionOnce'
  BY DEF LineageInv, RowOK, AccountOK, SequencesNeverReused, RevisionOnce, Present
<1>4. ASSUME NEW d \in Requests PROVE RequestOK(d)'
  <2>1. CASE d = c
    BY <2>1
  <2>2. CASE d # c
    BY <2>2, <1>1 DEF LineageInv, RequestOK, Holds
  <2>3. QED
    BY <2>1, <2>2
<1>5. Exclusive'
  BY <1>1 DEF LineageInv, Exclusive, Holds
<1>6. QED
  BY <1>2, <1>3, <1>4, <1>5 DEF LineageInv

\* A request that ends, or dies, claims nothing.
LEMMA EndStep ==
  ASSUME LineageInv, NEW c \in Requests, End(c),
         UNCHANGED <<repos, lineage, account>>,
         lock' \in [Keys -> Requests \cup {None}], dirs' \subseteq Ids,
         cleaner' \in [Cleaners -> CleanerState]
  PROVE  LineageInv'
<1>1. req' = [req EXCEPT ![c] = Idle] /\ req'[c] = Idle
  BY DEF End, LineageInv, TypeOK
<1>2. RequestOK(c)' /\ ~Holds(c)'
  BY <1>1 DEF RequestOK, Holds, Idle
<1>3. QED
  BY <1>1, <1>2, IdleType, LocalStep

\* A request that only moves on in the program.
LEMMA GotoStep ==
  ASSUME LineageInv, NEW c \in Requests, NEW pc \in {"discard", "erase"}, Goto(c, pc),
         pc = "discard" => Holds(c), pc = "erase" => req[c].pc = "lock",
         UNCHANGED <<repos, lineage, account, lock, dirs, cleaner>>
  PROVE  LineageInv'
<1> DEFINE st == [req[c] EXCEPT !.pc = pc]
<1>0. req[c] \in RequestState
  BY DEF LineageInv, TypeOK
<1>1. req' = [req EXCEPT ![c] = st] /\ req'[c] = st
  BY <1>0 DEF Goto, LineageInv, TypeOK
<1>2. st \in RequestState /\ st.pc = pc /\ st.id = req[c].id /\ st.key = req[c].key
  BY <1>0 DEF RequestState
<1>3. RequestOK(c)
  BY DEF LineageInv
<1>4. RequestOK(c)' /\ (Holds(c)' => Holds(c) /\ st.id = req[c].id)
  BY <1>1, <1>2, <1>3 DEF RequestOK, Holds
<1>5. lock' \in [Keys -> Requests \cup {None}] /\ dirs' \subseteq Ids
      /\ cleaner' \in [Cleaners -> CleanerState]
  BY DEF LineageInv, TypeOK
<1>6. QED
  BY <1>1, <1>2, <1>4, <1>5, LocalStep

\* The variables a request's local step leaves alone keep their types.
LEMMA FrameTypes ==
  ASSUME LineageInv
  PROVE  /\ lock \in [Keys -> Requests \cup {None}]
         /\ dirs \subseteq Ids
         /\ cleaner \in [Cleaners -> CleanerState]
         /\ req \in [Requests -> RequestState]
         /\ \A c \in Requests : Unlocked(c) \in [Keys -> Requests \cup {None}]
  BY DEF LineageInv, TypeOK, Unlocked

\* The newest of a set of members.
IsNewest(S, x) ==
    \/ S = {} /\ x = None
    \/ x \in S /\ \A h \in S : repos[h].sequence <= repos[x].sequence

\* list_lineage_members()[0] is the newest, if there is any.
LEMMA NewestIsNewest ==
  ASSUME LineageInv, NEW k \in Keys, lineage[k].exists, NEW S \in SUBSET Members(k)
  PROVE  IsNewest(S, Newest(S))
<1>1. CASE S = {}
  BY <1>1 DEF IsNewest, Newest
<1>2. CASE S # {}
  <2>1. S \in SUBSET Ids /\ lineage[k].next \in Nat
    BY DEF Members, Present, LineageInv, TypeOK, Lineage
  <2>2. ASSUME NEW i \in S PROVE repos[i].sequence <= lineage[k].next
    <3>1. i \in Ids /\ repos[i].key = k /\ repos[i].sequence \in Nat
      BY DEF Members, Present, LineageInv, TypeOK, Repository
    <3>2. repos[i].sequence < lineage[k].next
      BY <3>1 DEF LineageInv, SequencesNeverReused
    <3>3. QED
      BY <3>1, <3>2, <2>1
  <2>3. \E i \in S : \A h \in S : repos[h].sequence <= repos[i].sequence
    BY <1>2, <2>1, <2>2, NewestExists DEF LineageInv
  <2>4. QED
    BY <1>2, <2>3 DEF IsNewest, Newest
<1>3. QED
  BY <1>1, <1>2

\* The clone, the lookup, the duplicate and the retry of an import are local.
LEMMA ImportLocal ==
  ASSUME LineageInv, NEW c \in Requests,
         \/ \E v \in Revisions : Clone(c, v)
         \/ FindLineage(c)
         \/ RetryAllocate(c)
         \/ Duplicate(c)
  PROVE  LineageInv'
<1>0. req[c] \in RequestState /\ RequestOK(c) /\ req \in [Requests -> RequestState]
  BY DEF LineageInv, TypeOK
<1>1. ASSUME NEW v \in Revisions, Clone(c, v) PROVE LineageInv'
  <2> DEFINE st == [req[c] EXCEPT !.pc = "find", !.revision = v]
  <2>1. req' = [req EXCEPT ![c] = st] /\ req'[c] = st
    BY <1>0, <1>1 DEF Clone
  <2>2. st \in RequestState /\ st.pc = "find" /\ st.id = req[c].id
        /\ st.key = req[c].key /\ st.tries = req[c].tries
    BY <1>0 DEF RequestState
  <2>3. RequestOK(c)' /\ Holds(c)
    BY <1>0, <1>1, <2>1, <2>2 DEF Clone, RequestOK, Holds
  <2>4. QED
    BY <1>1, <2>1, <2>2, <2>3, FrameTypes, LocalStep DEF Clone
<1>2. ASSUME FindLineage(c) PROVE LineageInv'
  <2> DEFINE st == [req[c] EXCEPT !.pc = "allocate", !.found = lineage[req[c].key].exists]
  <2>1. req' = [req EXCEPT ![c] = st] /\ req'[c] = st
    BY <1>0, <1>2 DEF FindLineage
  <2>2. lineage[req[c].key].exists \in BOOLEAN
    BY <1>0, <1>2 DEF FindLineage, RequestOK, LineageInv, TypeOK, Lineage
  <2>3. st \in RequestState /\ st.pc = "allocate" /\ st.id = req[c].id
        /\ st.key = req[c].key /\ st.tries = req[c].tries
    BY <1>0, <2>2 DEF RequestState
  <2>4. RequestOK(c)' /\ Holds(c)
    BY <1>0, <1>2, <2>1, <2>3 DEF FindLineage, RequestOK, Holds
  <2>5. QED
    BY <1>2, <2>1, <2>3, <2>4, FrameTypes, LocalStep DEF FindLineage
<1>3. ASSUME RetryAllocate(c) PROVE LineageInv'
  <2> DEFINE nxt == IF req[c].tries + 1 < MaxRetries THEN "find" ELSE "discard"
             st == [req[c] EXCEPT !.tries = req[c].tries + 1, !.pc = nxt]
  <2>1. req' = [req EXCEPT ![c] = st] /\ req'[c] = st
    BY <1>0, <1>3 DEF RetryAllocate
  <2>2. req[c].tries \in Nat /\ req[c].tries < MaxRetries /\ req[c].pc = "allocate"
    BY <1>0, <1>3, MaxRetriesAssumption DEF RetryAllocate, RequestOK, RequestState
  <2>3. req[c].tries + 1 \in 0..MaxRetries
    BY <2>2, MaxRetriesAssumption
  <2>4. nxt = "discard" \/ (nxt = "find" /\ req[c].tries + 1 < MaxRetries)
    BY <2>2, MaxRetriesAssumption
  <2> HIDE DEF nxt
  <2>5. st \in RequestState /\ st.id = req[c].id /\ st.key = req[c].key
        /\ st.tries = req[c].tries + 1 /\ st.pc = nxt
    BY <1>0, <2>3, <2>4 DEF RequestState
  <2>6. RequestOK(c)' /\ Holds(c)
    BY <1>0, <1>3, <2>1, <2>2, <2>4, <2>5 DEF RetryAllocate, RequestOK, Holds
  <2>7. QED
    BY <1>3, <2>1, <2>5, <2>6, FrameTypes, LocalStep DEF RetryAllocate
<1>4. ASSUME Duplicate(c) PROVE LineageInv'
  <2> DEFINE st == [req[c] EXCEPT !.pc = "discard", !.duplicate = TRUE]
  <2>1. req' = [req EXCEPT ![c] = st] /\ req'[c] = st
    BY <1>0, <1>4 DEF Duplicate
  <2>2. st \in RequestState /\ st.pc = "discard" /\ st.id = req[c].id
    BY <1>0 DEF RequestState
  <2>3. RequestOK(c)' /\ Holds(c)
    BY <1>0, <1>4, <2>1, <2>2 DEF Duplicate, Allocating, RequestOK, Holds
  <2>4. QED
    BY <1>4, <2>1, <2>2, <2>3, FrameTypes, LocalStep DEF Duplicate
<1>5. QED
  BY <1>1, <1>2, <1>3, <1>4

\* A deletion reads its record, the lineage and the survivor; an account
\* deletion reads the paths.
LEMMA DeleteLocal ==
  ASSUME LineageInv, NEW c \in Requests,
         \/ \E i \in Ids : Delete(c, i)
         \/ LockLineage(c)
         \/ DeleteAccount(c)
         \/ ListSources(c)
  PROVE  LineageInv'
<1>0. req[c] \in RequestState /\ RequestOK(c) /\ req \in [Requests -> RequestState]
  BY DEF LineageInv, TypeOK
<1>1. ASSUME NEW i \in Ids, Delete(c, i) PROVE LineageInv'
  <2> DEFINE st == [Idle EXCEPT !.pc = "lock", !.id = i, !.key = repos[i].key]
  <2>1. req' = [req EXCEPT ![c] = st] /\ req'[c] = st
    BY <1>0, <1>1 DEF Delete
  <2>2. repos[i].key \in Keys \cup {None} /\ repos[i].state = "present"
    BY <1>1 DEF Delete, Present, LineageInv, TypeOK, Repository
  <2>3. st \in RequestState /\ st.pc = "lock" /\ st.id = i /\ st.key = repos[i].key
    BY <2>2, IdleType DEF RequestState
  <2>4. RequestOK(c)' /\ ~Holds(c)'
    BY <1>1, <2>1, <2>2, <2>3 DEF Delete, RequestOK, Holds
  <2>5. QED
    BY <1>1, <2>1, <2>3, <2>4, FrameTypes, LocalStep DEF Delete
<1>2. ASSUME LockLineage(c) PROVE LineageInv'
  <2> DEFINE k == req[c].key
             x == Newest(Members(k) \ {req[c].id})
             mv == lineage[k].latest = req[c].id
             st == [req[c] EXCEPT !.pc = "erase", !.moves = mv, !.latest = x]
  <2>1. k \in Keys /\ req[c].pc = "lock"
    BY <1>0, <1>2 DEF LockLineage, RequestState
  <2>2. lock' \in [Keys -> Requests \cup {None}]
    BY <1>2, <2>1, FrameTypes DEF LockLineage
  <2>3. CASE lineage[k].exists
    <3>1. req' = [req EXCEPT ![c] = st] /\ req'[c] = st
      BY <1>0, <1>2, <2>3 DEF LockLineage
    <3>2. IsNewest(Members(k) \ {req[c].id}, x)
      BY <2>1, <2>3, NewestIsNewest
    <3>3. x \in Ids \cup {None} /\ mv \in BOOLEAN
      BY <3>2 DEF IsNewest, Members, Present
    <3>4. st \in RequestState /\ st.pc = "erase" /\ st.id = req[c].id /\ st.key = k
      BY <1>0, <3>3 DEF RequestState
    <3>5. RequestOK(c)' /\ ~Holds(c)'
      BY <1>0, <1>2, <2>1, <3>1, <3>4 DEF LockLineage, RequestOK, Holds
    <3>6. QED
      BY <1>2, <2>2, <3>1, <3>4, <3>5, FrameTypes, LocalStep DEF LockLineage
  <2>4. CASE ~lineage[k].exists
    BY <1>2, <2>2, <2>4, FrameTypes, EndStep DEF LockLineage
  <2>5. QED
    BY <2>3, <2>4
<1>3. ASSUME DeleteAccount(c) PROVE LineageInv'
  <2> DEFINE st == [Idle EXCEPT !.pc = "list"]
  <2>1. req' = [req EXCEPT ![c] = st] /\ req'[c] = st
    BY <1>0, <1>3 DEF DeleteAccount
  <2>2. st \in RequestState /\ st.pc = "list"
    BY IdleType DEF RequestState
  <2>3. RequestOK(c)' /\ ~Holds(c)'
    BY <2>1, <2>2 DEF RequestOK, Holds
  <2>4. QED
    BY <1>3, <2>1, <2>2, <2>3, FrameTypes, LocalStep DEF DeleteAccount
<1>4. ASSUME ListSources(c) PROVE LineageInv'
  <2> DEFINE st == [req[c] EXCEPT !.pc = "expunge", !.paths = Present]
  <2>1. req' = [req EXCEPT ![c] = st] /\ req'[c] = st
    BY <1>0, <1>4 DEF ListSources
  <2>2. st \in RequestState /\ st.pc = "expunge"
    BY <1>0 DEF RequestState, Present
  <2>3. RequestOK(c)' /\ ~Holds(c)'
    BY <2>1, <2>2 DEF RequestOK, Holds
  <2>4. QED
    BY <1>4, <2>1, <2>2, <2>3, FrameTypes, LocalStep DEF ListSources
<1>5. QED
  BY <1>1, <1>2, <1>3, <1>4

\* The ends of a request: directories go, locks are released, tables stay.
LEMMA EndsLocal ==
  ASSUME LineageInv, NEW c \in Requests,
         \/ Discard(c) \/ EraseRaises(c) \/ RemoveSource(c)
         \/ ExpungeFails(c) \/ RemoveSources(c) \/ Crash(c)
  PROVE  LineageInv'
  BY FrameTypes, EndStep
     DEF Discard, EraseRaises, RemoveSource, ExpungeFails, RemoveSources, Crash

\* The exits of an import, and a standalone deletion.
LEMMA GotosLocal ==
  ASSUME LineageInv, NEW c \in Requests,
         \/ CloneFails(c) \/ LineageVanished(c) \/ UploadFails(c) \/ DeleteStandalone(c)
  PROVE  LineageInv'
  BY GotoStep DEF CloneFails, LineageVanished, UploadFails, DeleteStandalone, Holds

-----------------------------------------------------------------------------
(* Steps that write the tables                                             *)

\* Minting an id disturbs no row and no other request.
LEMMA MintStep ==
  ASSUME LineageInv, NEW c \in Requests, NEW i \in Ids, Minting(i),
         NEW st \in RequestState, st.id = i, st.tries = 0,
         st.pc = "upload" \/ (st.pc = "clone" /\ st.key \in Keys),
         repos' = [repos EXCEPT ![i].state = "minted"],
         req' = [req EXCEPT ![c] = st], dirs' = dirs \cup {i},
         UNCHANGED <<lineage, lock, account, cleaner>>
  PROVE  LineageInv'
<1>0. req \in [Requests -> RequestState] /\ repos \in [Ids -> Repository]
  BY DEF LineageInv, TypeOK
<1>1. req'[c] = st /\ \A d \in Requests : d # c => req'[d] = req[d]
  BY <1>0
<1>2. repos[i].state = "free" /\ repos[i].key = None
  BY DEF Minting, LineageInv, RowOK
<1>3. /\ repos' \in [Ids -> Repository]
      /\ repos'[i].state = "minted"
      /\ \A h \in Ids : /\ h # i => repos'[h] = repos[h]
                        /\ repos'[h].key = repos[h].key
                        /\ repos'[h].sequence = repos[h].sequence
                        /\ repos'[h].revision = repos[h].revision
  BY <1>0 DEF Repository
<1>4. Present' = Present
  BY <1>2, <1>3 DEF Present
<1>5. TypeOK'
  BY <1>0, <1>3 DEF LineageInv, TypeOK
<1>6. (\A h \in Ids : RowOK(h))' /\ AccountOK'
  BY <1>2, <1>3, <1>4 DEF LineageInv, RowOK, AccountOK
<1>7. SequencesNeverReused'
  BY <1>3 DEF LineageInv, SequencesNeverReused
<1>8. RevisionOnce'
  BY <1>3, <1>4 DEF LineageInv, RevisionOnce, Present
<1>9. ASSUME NEW d \in Requests PROVE RequestOK(d)'
  <2>1. CASE d = c
    BY <2>1, <1>1, <1>3, MaxRetriesAssumption DEF RequestOK, Holds
  <2>2. CASE d # c
    <3>1. req'[d] = req[d] /\ RequestOK(d)
      BY <2>2, <1>1 DEF LineageInv
    <3>2. QED
      BY <3>1, <1>2, <1>3 DEF RequestOK, Holds
  <2>3. QED
    BY <2>1, <2>2
<1>10. Exclusive'
  <2>1. \A d \in Requests : Holds(d) => req[d].id # i
    BY <1>2 DEF LineageInv, RequestOK
  <2>2. QED
    BY <1>1, <2>1 DEF LineageInv, Exclusive, Holds
<1>11. QED
  BY <1>5, <1>6, <1>7, <1>8, <1>9, <1>10 DEF LineageInv

\* The beginnings of imports and uploads.
LEMMA MintSteps ==
  ASSUME LineageInv, NEW c \in Requests,
         \/ \E k \in Keys : Import(c, k)
         \/ \E i \in Ids : Reanalyse(c, i)
         \/ \E u \in Archives : Upload(c, u)
  PROVE  LineageInv'
<1>1. ASSUME NEW k \in Keys, BeginImport(c, k) PROVE LineageInv'
  <2>1. PICK i \in Ids :
          /\ Minting(i)
          /\ repos' = [repos EXCEPT ![i].state = "minted"]
          /\ dirs' = dirs \cup {i}
          /\ req' = [req EXCEPT ![c] = [Idle EXCEPT !.pc = "clone", !.id = i, !.key = k]]
    BY <1>1 DEF BeginImport
  <2> DEFINE st == [Idle EXCEPT !.pc = "clone", !.id = i, !.key = k]
  <2>2. st \in RequestState /\ st.id = i /\ st.tries = 0 /\ st.pc = "clone" /\ st.key = k
    BY IdleType DEF RequestState, Idle
  <2>3. QED
    BY <1>1, <2>1, <2>2, MintStep DEF BeginImport
<1>2. ASSUME NEW k \in Keys, Import(c, k) PROVE LineageInv'
  BY <1>1, <1>2 DEF Import
<1>3. ASSUME NEW i \in Ids, Reanalyse(c, i) PROVE LineageInv'
  <2>1. repos[i].key \in Keys /\ BeginImport(c, repos[i].key)
    BY <1>3 DEF Reanalyse, LineageInv, TypeOK, Repository
  <2>2. QED
    BY <1>1, <2>1
<1>4. ASSUME NEW u \in Archives, Upload(c, u) PROVE LineageInv'
  <2>1. PICK i \in Ids :
          /\ Minting(i)
          /\ repos' = [repos EXCEPT ![i].state = "minted"]
          /\ dirs' = dirs \cup {i}
          /\ req' = [req EXCEPT ![c] = [Idle EXCEPT !.pc = "upload", !.id = i, !.revision = u]]
    BY <1>4 DEF Upload
  <2> DEFINE st == [Idle EXCEPT !.pc = "upload", !.id = i, !.revision = u]
  <2>2. st \in RequestState /\ st.id = i /\ st.tries = 0 /\ st.pc = "upload"
    BY IdleType DEF RequestState, Idle
  <2>3. QED
    BY <1>4, <2>1, <2>2, MintStep DEF Upload
<1>5. QED
  BY <1>2, <1>3, <1>4

\* A request that turns its minted id into a row and ends disturbs no other.
LEMMA RowAdded ==
  ASSUME LineageInv, NEW c \in Requests, req[c].pc \in {"allocate", "upload"}, End(c),
         NEW row \in Repository, row.state = "present",
         repos' = [repos EXCEPT ![req[c].id] = row], UNCHANGED account
  PROVE  (\A d \in Requests : RequestOK(d))' /\ Exclusive'
<1>0. req \in [Requests -> RequestState] /\ repos \in [Ids -> Repository]
  BY DEF LineageInv, TypeOK
<1>1. req'[c] = Idle /\ \A d \in Requests : d # c => req'[d] = req[d]
  BY <1>0 DEF End
<1>2. req[c].id \in Ids /\ repos[req[c].id].state = "minted" /\ Holds(c)
  BY DEF LineageInv, RequestOK, Holds
<1>3. \A h \in Ids : h # req[c].id => repos'[h] = repos[h]
  BY <1>0
<1>4. ASSUME NEW d \in Requests PROVE RequestOK(d)'
  <2>1. CASE d = c
    BY <2>1, <1>1 DEF RequestOK, Holds, Idle
  <2>2. CASE d # c
    <3>1. req'[d] = req[d] /\ RequestOK(d) /\ (Holds(d) => req[d].id # req[c].id)
      BY <2>2, <1>1, <1>2 DEF LineageInv, Exclusive
    <3>2. QED
      BY <3>1, <1>2, <1>3 DEF RequestOK, Holds
  <2>3. QED
    BY <2>1, <2>2
<1>5. Exclusive'
  BY <1>1 DEF LineageInv, Exclusive, Holds, Idle
<1>6. QED
  BY <1>4, <1>5

\* The allocation issues a number greater than every number of the lineage.
LEMMA AllocateStep ==
  ASSUME LineageInv, NEW c \in Requests, Allocate(c)
  PROVE  LineageInv'
<1> DEFINE k == req[c].key
           n == req[c].id
           row == [state |-> "present", key |-> k, sequence |-> lineage[k].next,
                   revision |-> req[c].revision]
           lin == [exists |-> TRUE, latest |-> n, next |-> lineage[k].next + 1]
<1>0. /\ req \in [Requests -> RequestState] /\ repos \in [Ids -> Repository]
      /\ lineage \in [Keys -> Lineage]
  BY DEF LineageInv, TypeOK
<1>1. /\ k \in Keys /\ n \in Ids /\ repos[n].state = "minted" /\ repos[n].key = None
      /\ req[c].pc = "allocate" /\ account = "active" /\ k # None
  BY NullAssumption DEF Allocate, Allocating, LineageInv, RequestOK, RowOK, Holds
<1>2. row \in Repository /\ lin \in Lineage
  BY <1>0, <1>1 DEF Repository, Lineage, RequestState
<1>3. /\ repos' = [repos EXCEPT ![n] = row] /\ repos'[n] = row
      /\ \A h \in Ids : h # n => repos'[h] = repos[h]
      /\ lineage' = [lineage EXCEPT ![k] = lin] /\ lineage'[k] = lin
      /\ \A h \in Keys : h # k => lineage'[h] = lineage[h]
      /\ End(c) /\ UNCHANGED <<lock, account, dirs, cleaner>> /\ ~Known(c)
  BY <1>0, <1>1 DEF Allocate
<1>4. TypeOK'
  <2>1. req' \in [Requests -> RequestState]
    BY <1>0, <1>3, IdleType DEF End
  <2>2. QED
    BY <1>0, <1>2, <1>3, <2>1 DEF LineageInv, TypeOK
<1>5. (\A d \in Requests : RequestOK(d))' /\ Exclusive'
  BY <1>1, <1>2, <1>3, RowAdded
<1>6. (\A i \in Ids : RowOK(i))' /\ AccountOK'
  <2>1. \A i \in Ids : repos[i].key \in Keys \cup {None}
    BY <1>0 DEF Repository
  <2>2. QED
    BY <1>0, <1>1, <1>3, <2>1 DEF LineageInv, RowOK, AccountOK
<1>7. ASSUME NEW h \in Ids, h # n, repos[h].key = k
      PROVE  repos[h].sequence < lineage[k].next
  BY <1>1, <1>7 DEF LineageInv, RowOK, SequencesNeverReused
<1>8. SequencesNeverReused'
  <2>1. \A h \in Ids : repos[h].sequence \in Nat /\ lineage[k].next \in Nat
    BY <1>0, <1>1 DEF Repository, Lineage
  <2>2. ASSUME NEW i \in Ids, NEW h \in Ids, i # h, repos'[i].key # None,
               repos'[i].key = repos'[h].key
        PROVE  repos'[i].sequence # repos'[h].sequence
    BY <1>1, <1>3, <1>7, <2>1, <2>2 DEF LineageInv, SequencesNeverReused
  <2>3. ASSUME NEW j \in Keys, NEW i \in Ids, lineage'[j].exists, repos'[i].key = j
        PROVE  repos'[i].sequence < lineage'[j].next
    <3>1. CASE j = k
      BY <1>1, <1>3, <1>7, <2>1, <2>3, <3>1
    <3>2. CASE j # k
      BY <1>1, <1>3, <2>3, <3>2 DEF LineageInv, SequencesNeverReused
    <3>3. QED
      BY <3>1, <3>2
  <2>4. QED
    BY <2>2, <2>3 DEF SequencesNeverReused
<1>9. RevisionOnce'
  <2>1. \A i \in Present : repos[i].key = k => repos[i].revision # req[c].revision
    BY <1>3 DEF Known, Members
  <2>2. Present' = Present \cup {n}
    BY <1>1, <1>3 DEF Present
  <2>3. \A i \in Present : i \in Ids /\ i # n
    BY <1>1 DEF Present
  <2>4. QED
    BY <1>1, <1>3, <2>1, <2>2, <2>3 DEF LineageInv, RevisionOnce
<1>10. QED
  BY <1>4, <1>5, <1>6, <1>8, <1>9 DEF LineageInv

\* An upload's row belongs to no lineage.
LEMMA UploadStepInv ==
  ASSUME LineageInv, NEW c \in Requests, UploadAdd(c)
  PROVE  LineageInv'
<1> DEFINE n == req[c].id
           row == [state |-> "present", key |-> None, sequence |-> 0,
                   revision |-> req[c].revision]
<1>0. /\ req \in [Requests -> RequestState] /\ repos \in [Ids -> Repository]
  BY DEF LineageInv, TypeOK
<1>1. CASE account # "active"
  BY <1>1, FrameTypes, EndStep DEF UploadAdd
<1>2. CASE account = "active"
  <2>1. n \in Ids /\ repos[n].state = "minted" /\ req[c].pc = "upload"
    BY DEF UploadAdd, LineageInv, RequestOK, Holds
  <2>2. row \in Repository
    BY <1>0 DEF Repository, RequestState
  <2>3. /\ repos' = [repos EXCEPT ![n] = row] /\ repos'[n] = row
        /\ \A h \in Ids : h # n => repos'[h] = repos[h]
        /\ End(c) /\ UNCHANGED <<lineage, lock, account, dirs, cleaner>>
    BY <1>0, <1>2, <2>1 DEF UploadAdd
  <2>4. TypeOK'
    <3>1. req' \in [Requests -> RequestState]
      BY <1>0, <2>3, IdleType DEF End
    <3>2. QED
      BY <1>0, <2>2, <2>3, <3>1 DEF LineageInv, TypeOK
  <2>5. (\A d \in Requests : RequestOK(d))' /\ Exclusive'
    BY <2>1, <2>2, <2>3, RowAdded
  <2>6. (\A i \in Ids : RowOK(i))' /\ AccountOK'
    BY <1>2, <2>3 DEF LineageInv, RowOK, AccountOK
  <2>7. SequencesNeverReused'
    BY <2>3, NullAssumption DEF LineageInv, SequencesNeverReused
  <2>8. RevisionOnce'
    <3>1. Present' = Present \cup {n}
      BY <2>1, <2>3 DEF Present
    <3>2. \A i \in Present : i \in Ids /\ i # n
      BY <2>1 DEF Present
    <3>3. QED
      BY <2>3, <3>1, <3>2 DEF LineageInv, RevisionOnce
  <2>9. QED
    BY <2>4, <2>5, <2>6, <2>7, <2>8 DEF LineageInv
<1>3. QED
  BY <1>1, <1>2

\* Rows only lose their place when they are deleted: what they were stays.
LEMMA DeletedRows ==
  ASSUME LineageInv, NEW D \in SUBSET Present,
         repos' = [i \in Ids |-> IF i \in D THEN [repos[i] EXCEPT !.state = "deleted"]
                                 ELSE repos[i]]
  PROVE  /\ repos' \in [Ids -> Repository]
         /\ Present' = Present \ D
         /\ \A i \in Ids : /\ repos'[i].state = IF i \in D THEN "deleted" ELSE repos[i].state
                           /\ repos'[i].key = repos[i].key
                           /\ repos'[i].sequence = repos[i].sequence
                           /\ repos'[i].revision = repos[i].revision
<1>0. repos \in [Ids -> Repository] /\ D \subseteq Ids
  BY DEF LineageInv, TypeOK, Present
<1>1. \A i \in Ids : repos'[i] = IF i \in D THEN [repos[i] EXCEPT !.state = "deleted"]
                                 ELSE repos[i]
  OBVIOUS
<1>2. ASSUME NEW i \in Ids
      PROVE  /\ repos'[i] \in Repository
             /\ repos'[i].state = IF i \in D THEN "deleted" ELSE repos[i].state
             /\ repos'[i].key = repos[i].key
             /\ repos'[i].sequence = repos[i].sequence
             /\ repos'[i].revision = repos[i].revision
  <2>1. repos[i] \in Repository
    BY <1>0
  <2>2. CASE i \in D
    BY <1>1, <2>1, <2>2 DEF Repository
  <2>3. CASE i \notin D
    BY <1>1, <2>1, <2>3
  <2>4. QED
    BY <2>2, <2>3
<1>3. repos' \in [Ids -> Repository]
  BY <1>2
<1>4. Present' = Present \ D
  BY <1>0, <1>2 DEF Present
<1>5. QED
  BY <1>2, <1>3, <1>4

\* A deletion moves the pointer and leaves the counter.
LEMMA EraseStep ==
  ASSUME LineageInv, NEW c \in Requests, Erase(c)
  PROVE  LineageInv'
<1> DEFINE n == req[c].id
           D == {n} \cap Present
           st == [req[c] EXCEPT !.pc = "rmdir"]
<1>0. /\ req \in [Requests -> RequestState] /\ repos \in [Ids -> Repository]
      /\ lineage \in [Keys -> Lineage] /\ req[c] \in RequestState
  BY DEF LineageInv, TypeOK
<1>1. /\ n \in Ids /\ repos[n].state \in {"present", "deleted"} /\ req[c].pc = "erase"
      /\ req[c].key = repos[n].key
  BY DEF Erase, LineageInv, RequestOK
<1>2. repos' = [i \in Ids |-> IF i \in D THEN [repos[i] EXCEPT !.state = "deleted"]
                              ELSE repos[i]]
  BY <1>0, <1>1 DEF Erase
<1>3. /\ repos' \in [Ids -> Repository]
      /\ Present' = Present \ D
      /\ \A i \in Ids : /\ repos'[i].state = IF i \in D THEN "deleted" ELSE repos[i].state
                        /\ repos'[i].key = repos[i].key
                        /\ repos'[i].sequence = repos[i].sequence
                        /\ repos'[i].revision = repos[i].revision
  BY <1>2, DeletedRows
<1>4. /\ lineage' \in [Keys -> Lineage]
      /\ \A k \in Keys : lineage'[k].exists = lineage[k].exists
                         /\ lineage'[k].next = lineage[k].next
  <2>1. CASE req[c].key = None
    BY <1>0, <2>1 DEF Erase
  <2>2. CASE req[c].key # None
    <3>1. req[c].key \in Keys /\ Pointer(c) \in Ids \cup {None}
      BY <1>0, <2>2 DEF RequestState, Lineage, Pointer
    <3>2. lineage' = [lineage EXCEPT ![req[c].key].latest = Pointer(c)]
      BY <2>2 DEF Erase
    <3>3. QED
      BY <1>0, <3>1, <3>2 DEF Lineage
  <2>3. QED
    BY <2>1, <2>2
<1>5. req' = [req EXCEPT ![c] = st] /\ req'[c] = st
      /\ \A d \in Requests : d # c => req'[d] = req[d]
  BY <1>0 DEF Erase, Goto
<1>6. st \in RequestState /\ st.pc = "rmdir" /\ st.id = n
  BY <1>0 DEF RequestState
<1>7. TypeOK'
  BY <1>0, <1>3, <1>4, <1>5, <1>6, FrameTypes DEF Erase, LineageInv, TypeOK
<1>8. (\A i \in Ids : RowOK(i))' /\ AccountOK'
  <2>1. \A i \in Ids : repos[i].key \in Keys \cup {None}
    BY <1>0 DEF Repository
  <2>2. UNCHANGED account
    BY DEF Erase
  <2>3. AccountOK'
    BY <1>3, <1>4, <2>2 DEF LineageInv, AccountOK
  <2>4. ASSUME NEW i \in Ids PROVE RowOK(i)'
    BY <1>3, <1>4, <2>1, <2>2 DEF LineageInv, RowOK
  <2>5. QED
    BY <2>3, <2>4
<1>9. SequencesNeverReused'
  BY <1>3, <1>4 DEF LineageInv, SequencesNeverReused
<1>10. RevisionOnce'
  BY <1>3 DEF LineageInv, RevisionOnce, Present
<1>11. ASSUME NEW d \in Requests PROVE RequestOK(d)'
  <2>1. repos'[n].state = "deleted"
    BY <1>1, <1>3 DEF Present
  <2>2. \A i \in Ids : i # n => repos'[i].state = repos[i].state
    BY <1>3
  <2>3. CASE d = c
    BY <1>1, <1>5, <1>6, <2>1, <2>3 DEF RequestOK, Holds
  <2>4. CASE d # c
    <3>1. req'[d] = req[d] /\ RequestOK(d) /\ UNCHANGED account
      BY <2>4, <1>5 DEF LineageInv, Erase
    <3>2. QED
      BY <3>1, <1>1, <1>3, <2>1, <2>2 DEF RequestOK, Holds
  <2>5. QED
    BY <2>3, <2>4
<1>12. Exclusive'
  BY <1>5, <1>6 DEF LineageInv, Exclusive, Holds
<1>13. QED
  BY <1>7, <1>8, <1>9, <1>10, <1>11, <1>12 DEF LineageInv

\* The cascade takes every row of the owner.
LEMMA ExpungeStep ==
  ASSUME LineageInv, NEW c \in Requests, Expunge(c)
  PROVE  LineageInv'
<1> DEFINE st == [req[c] EXCEPT !.pc = "sweep"]
<1>0. req \in [Requests -> RequestState] /\ req[c] \in RequestState
  BY DEF LineageInv, TypeOK
<1>1. /\ repos' \in [Ids -> Repository]
      /\ Present' = {}
      /\ \A i \in Ids : /\ repos'[i].state = IF i \in Present THEN "deleted" ELSE repos[i].state
                        /\ repos'[i].key = repos[i].key
                        /\ repos'[i].sequence = repos[i].sequence
                        /\ repos'[i].revision = repos[i].revision
  BY DeletedRows DEF Expunge
<1>2. account' = "gone" /\ lineage' = [k \in Keys |-> NoLineage]
      /\ UNCHANGED <<lock, dirs, cleaner>>
  BY DEF Expunge
<1>3. lineage' \in [Keys -> Lineage] /\ \A k \in Keys : ~lineage'[k].exists
  BY <1>2 DEF NoLineage, Lineage
<1>4. req' = [req EXCEPT ![c] = st] /\ req'[c] = st
      /\ \A d \in Requests : d # c => req'[d] = req[d]
  BY <1>0 DEF Expunge, Goto
<1>5. st \in RequestState /\ st.pc = "sweep"
  BY <1>0 DEF RequestState
<1>6. TypeOK'
  BY <1>0, <1>1, <1>2, <1>3, <1>4, <1>5 DEF LineageInv, TypeOK
<1>7. (\A i \in Ids : RowOK(i))' /\ AccountOK'
  <2>1. AccountOK'
    BY <1>1, <1>3 DEF AccountOK
  <2>2. ASSUME NEW i \in Ids PROVE RowOK(i)'
    BY <1>1, <1>2 DEF LineageInv, RowOK
  <2>3. QED
    BY <2>1, <2>2
<1>8. SequencesNeverReused' /\ RevisionOnce'
  BY <1>1, <1>3 DEF LineageInv, SequencesNeverReused, RevisionOnce
<1>9. ASSUME NEW d \in Requests PROVE RequestOK(d)'
  <2>1. CASE d = c
    BY <2>1, <1>2, <1>4, <1>5 DEF RequestOK, Holds
  <2>2. CASE d # c
    <3>1. req'[d] = req[d] /\ RequestOK(d)
      BY <2>2, <1>4 DEF LineageInv
    <3>2. QED
      BY <3>1, <1>1, <1>2 DEF RequestOK, Holds, Present
  <2>3. QED
    BY <2>1, <2>2
<1>10. Exclusive'
  BY <1>4, <1>5 DEF LineageInv, Exclusive, Holds
<1>11. QED
  BY <1>6, <1>7, <1>8, <1>9, <1>10 DEF LineageInv

\* A step that leaves the tables and the requests alone.
LEMMA OtherStep ==
  ASSUME LineageInv, UNCHANGED <<repos, lineage, lock, account, req>>,
         dirs' \subseteq Ids, cleaner' \in [Cleaners -> CleanerState]
  PROVE  LineageInv'
<1>1. TypeOK'
  BY DEF LineageInv, TypeOK
<1>2. (\A i \in Ids : RowOK(i))' /\ AccountOK' /\ SequencesNeverReused' /\ RevisionOnce'
  BY DEF LineageInv, RowOK, AccountOK, SequencesNeverReused, RevisionOnce, Present
<1>3. (\A c \in Requests : RequestOK(c))' /\ Exclusive'
  BY DEF LineageInv, RequestOK, Exclusive, Holds
<1>4. QED
  BY <1>1, <1>2, <1>3 DEF LineageInv

\* The cleanup script touches directories only.
LEMMA CleanerInv ==
  ASSUME LineageInv, NEW m \in Cleaners, CleanerStep(m)
  PROVE  LineageInv'
<1>1. cleaner \in [Cleaners -> CleanerState] /\ dirs \subseteq Ids
  BY DEF LineageInv, TypeOK
<1>2. cleaner' \in [Cleaners -> CleanerState]
  BY <1>1 DEF CleanerStep, CleanerKnown, CleanerScan, CleanerApply, CleanerState, Present
<1>3. dirs' \subseteq Ids /\ UNCHANGED <<repos, lineage, lock, account, req>>
  BY <1>1 DEF CleanerStep, CleanerKnown, CleanerScan, CleanerApply
<1>4. QED
  BY <1>2, <1>3, OtherStep

\* Every step keeps the invariant.
LEMMA NextInv ==
  ASSUME LineageInv, [Next]_vars
  PROVE  LineageInv'
<1>1. ASSUME NEW c \in Requests, ImportStep(c) PROVE LineageInv'
  BY <1>1, MintSteps, ImportLocal, GotosLocal, EndsLocal, AllocateStep DEF ImportStep
<1>2. ASSUME NEW c \in Requests, UploadStep(c) PROVE LineageInv'
  BY <1>2, MintSteps, GotosLocal, UploadStepInv DEF UploadStep
<1>3. ASSUME NEW c \in Requests, DeleteStep(c) PROVE LineageInv'
  BY <1>3, DeleteLocal, GotosLocal, EndsLocal, EraseStep DEF DeleteStep
<1>4. ASSUME NEW c \in Requests, AccountStep(c) PROVE LineageInv'
  BY <1>4, DeleteLocal, EndsLocal, ExpungeStep DEF AccountStep
<1>5. ASSUME NEW c \in Requests, Crash(c) PROVE LineageInv'
  BY <1>5, EndsLocal
<1>6. CASE UNCHANGED vars
  BY <1>6, FrameTypes, OtherStep DEF vars
<1>7. QED
  BY <1>1, <1>2, <1>3, <1>4, <1>5, <1>6, CleanerInv DEF Next

-----------------------------------------------------------------------------
(* Theorems                                                                *)

\* The invariant holds in every reachable state, on both databases.
THEOREM LineageInvariance == Spec => []LineageInv
  BY InitInv, NextInv, PTL DEF Spec

\* Every column and local variable keeps its type: in particular an import
\* retries at most _MAX_LINEAGE_RETRIES times.
THEOREM LineageTypeCorrect == Spec => []TypeOK
<1>1. LineageInv => TypeOK
  BY DEF LineageInv
<1>2. QED
  BY <1>1, LineageInvariance, PTL

\* No sequence number of a lineage is issued twice, whatever is deleted.
THEOREM SequencesUnique == Spec => []SequencesNeverReused
<1>1. LineageInv => SequencesNeverReused
  BY DEF LineageInv
<1>2. QED
  BY <1>1, LineageInvariance, PTL

\* No revision is twice in a lineage, however imports race.
THEOREM RevisionsUnique == Spec => []RevisionOnce
<1>1. LineageInv => RevisionOnce
  BY DEF LineageInv
<1>2. QED
  BY <1>1, LineageInvariance, PTL

-----------------------------------------------------------------------------
(* Source directories                                                      *)

\* While the account exists, rows have their directories, and so have the
\* requests that are about to add a row.
SourceInv ==
    account = "active" =>
      /\ PresentHasSource
      /\ \A c \in Requests : req[c].pc \in {"clone", "find", "allocate", "upload"} =>
                               req[c].id \in dirs

\* Where no cleanup runs, every step keeps the directories that are needed.
LEMMA NextSource ==
  ASSUME Cleaners = {}, LineageInv, LineageInv', SourceInv, [Next]_vars
  PROVE  SourceInv'
<1> USE DEF PresentHasSource
<1>0. /\ req \in [Requests -> RequestState] /\ repos \in [Ids -> Repository]
      /\ \A c \in Requests : RequestOK(c)
  BY DEF LineageInv, TypeOK
<1>1. ASSUME NEW c \in Requests, NEW i \in Ids, Minting(i), NEW st \in RequestState,
             st.id = i, repos' = [repos EXCEPT ![i].state = "minted"],
             dirs' = dirs \cup {i}, req' = [req EXCEPT ![c] = st], UNCHANGED account
      PROVE  SourceInv'
  <2>1. Present' = Present
    BY <1>0, <1>1 DEF Present, Minting, Repository
  <2>2. req'[c] = st /\ \A d \in Requests : d # c => req'[d] = req[d]
    BY <1>0, <1>1
  <2>3. QED
    BY <1>1, <2>1, <2>2 DEF SourceInv
<1>2. ASSUME NEW c \in Requests, NEW k, BeginImport(c, k), k \in Keys PROVE SourceInv'
  <2>1. PICK i \in Ids :
          /\ Minting(i)
          /\ repos' = [repos EXCEPT ![i].state = "minted"]
          /\ dirs' = dirs \cup {i}
          /\ req' = [req EXCEPT ![c] = [Idle EXCEPT !.pc = "clone", !.id = i, !.key = k]]
    BY <1>2 DEF BeginImport
  <2> DEFINE st == [Idle EXCEPT !.pc = "clone", !.id = i, !.key = k]
  <2>2. st \in RequestState /\ st.id = i /\ UNCHANGED account
    BY <1>2, IdleType DEF RequestState, Idle, BeginImport
  <2>3. QED
    BY <1>1, <2>1, <2>2
<1>3. ASSUME NEW c \in Requests, NEW u \in Archives, Upload(c, u) PROVE SourceInv'
  <2>1. PICK i \in Ids :
          /\ Minting(i)
          /\ repos' = [repos EXCEPT ![i].state = "minted"]
          /\ dirs' = dirs \cup {i}
          /\ req' = [req EXCEPT ![c] = [Idle EXCEPT !.pc = "upload", !.id = i, !.revision = u]]
    BY <1>3 DEF Upload
  <2> DEFINE st == [Idle EXCEPT !.pc = "upload", !.id = i, !.revision = u]
  <2>2. st \in RequestState /\ st.id = i /\ UNCHANGED account
    BY <1>3, IdleType DEF RequestState, Idle, Upload
  <2>3. QED
    BY <1>1, <2>1, <2>2
<1>4. ASSUME NEW c \in Requests, Allocate(c) \/ UploadAdd(c) PROVE SourceInv'
  <2>1. req[c].id \in Ids /\ req[c].pc \in {"allocate", "upload"}
    BY <1>0, <1>4 DEF Allocate, Allocating, UploadAdd, RequestOK, Holds
  <2>2. req'[c] = Idle /\ (\A d \in Requests : d # c => req'[d] = req[d])
        /\ UNCHANGED <<account, dirs>>
    BY <1>0, <1>4 DEF Allocate, UploadAdd, End
  <2>3. \A h \in Ids : h # req[c].id => repos'[h] = repos[h]
    BY <1>0, <1>4, <2>1 DEF Allocate, UploadAdd
  <2>4. Present' \subseteq Present \cup {req[c].id}
    BY <2>3 DEF Present
  <2>5. QED
    BY <2>1, <2>2, <2>4 DEF SourceInv, Idle
<1>5. ASSUME NEW c \in Requests, Discard(c) \/ RemoveSource(c) PROVE SourceInv'
  <2>1. /\ req'[c] = Idle /\ (\A d \in Requests : d # c => req'[d] = req[d])
        /\ dirs' = dirs \ {req[c].id} /\ UNCHANGED <<account, repos>>
    BY <1>0, <1>5 DEF Discard, RemoveSource, End
  <2>2. req[c].id \in Ids /\ repos[req[c].id].state # "present"
    BY <1>0, <1>5 DEF Discard, RemoveSource, RequestOK, Holds
  <2>3. ASSUME NEW d \in Requests, d # c,
               req[d].pc \in {"clone", "find", "allocate", "upload"}
        PROVE  req[d].id # req[c].id
    BY <1>0, <1>5, <2>3 DEF Discard, RemoveSource, RequestOK, Holds, LineageInv, Exclusive
  <2>4. QED
    BY <2>1, <2>2, <2>3 DEF SourceInv, Present, Idle
<1>6. ASSUME NEW c \in Requests, RemoveSources(c) PROVE SourceInv'
  BY <1>0, <1>6 DEF RemoveSources, RequestOK, SourceInv
<1>7. ASSUME NEW c \in Requests, Erase(c) PROVE SourceInv'
  <2>1. Present' \subseteq Present
    BY <1>0, <1>7 DEF Erase, Present, Repository
  <2>2. /\ req'[c].pc = "rmdir" /\ (\A d \in Requests : d # c => req'[d] = req[d])
        /\ UNCHANGED <<account, dirs>>
    BY <1>0, <1>7 DEF Erase, Goto, RequestState
  <2>3. QED
    BY <2>1, <2>2 DEF SourceInv
<1>8. ASSUME NEW c \in Requests, Expunge(c) PROVE SourceInv'
  BY <1>8 DEF Expunge, SourceInv
<1>9. ASSUME NEW c \in Requests, NEW st, req' = [req EXCEPT ![c] = st],
             st.pc \in {"clone", "find", "allocate", "upload"} =>
               /\ st.id = req[c].id
               /\ req[c].pc \in {"clone", "find", "allocate", "upload"},
             UNCHANGED <<repos, account, dirs>>
      PROVE  SourceInv'
  <2>1. req'[c] = st /\ \A d \in Requests : d # c => req'[d] = req[d]
    BY <1>0, <1>9
  <2>2. QED
    BY <1>9, <2>1 DEF SourceInv, Present
<1>10. ASSUME NEW c \in Requests, \E v \in Revisions : Clone(c, v) PROVE SourceInv'
  <2>1. PICK v \in Revisions : Clone(c, v)
    BY <1>10
  <2> DEFINE st == [req[c] EXCEPT !.pc = "find", !.revision = v]
  <2>2. req' = [req EXCEPT ![c] = st] /\ st.id = req[c].id
    BY <1>0, <2>1 DEF Clone, RequestState
  <2>3. QED
    BY <1>9, <2>1, <2>2 DEF Clone
<1>11. ASSUME NEW c \in Requests, FindLineage(c) PROVE SourceInv'
  <2> DEFINE st == [req[c] EXCEPT !.pc = "allocate", !.found = lineage[req[c].key].exists]
  <2>2. req' = [req EXCEPT ![c] = st] /\ st.id = req[c].id
    BY <1>0, <1>11 DEF FindLineage, RequestState
  <2>3. QED
    BY <1>9, <1>11, <2>2 DEF FindLineage
<1>12. ASSUME NEW c \in Requests, RetryAllocate(c) PROVE SourceInv'
  <2> DEFINE st == [req[c] EXCEPT !.tries = req[c].tries + 1,
                       !.pc = IF req[c].tries + 1 < MaxRetries THEN "find" ELSE "discard"]
  <2>2. req' = [req EXCEPT ![c] = st] /\ st.id = req[c].id
    BY <1>0, <1>12 DEF RetryAllocate, RequestState
  <2>3. QED
    BY <1>9, <1>12, <2>2 DEF RetryAllocate
<1>13. ASSUME NEW c \in Requests, NEW pc \in {"discard", "erase"}, Goto(c, pc),
              UNCHANGED <<repos, account, dirs>>
       PROVE  SourceInv'
  <2> DEFINE st == [req[c] EXCEPT !.pc = pc]
  <2>1. req' = [req EXCEPT ![c] = st] /\ st.pc = pc
    BY <1>0, <1>13 DEF Goto, RequestState
  <2>2. QED
    BY <1>9, <1>13, <2>1
<1>14. ASSUME NEW c \in Requests, Duplicate(c) PROVE SourceInv'
  <2> DEFINE st == [req[c] EXCEPT !.pc = "discard", !.duplicate = TRUE]
  <2>1. req' = [req EXCEPT ![c] = st] /\ st.pc = "discard"
    BY <1>0, <1>14 DEF Duplicate, RequestState
  <2>2. QED
    BY <1>9, <1>14, <2>1 DEF Duplicate
<1>15. ASSUME NEW c \in Requests, End(c), UNCHANGED <<repos, account, dirs>> PROVE SourceInv'
  BY <1>9, <1>15 DEF End, Idle
<1>16. ASSUME NEW c \in Requests,
              (\E i \in Ids : Delete(c, i)) \/ DeleteAccount(c) \/ ListSources(c)
       PROVE  SourceInv'
  <2>1. UNCHANGED <<repos, account, dirs>>
    BY <1>16 DEF Delete, DeleteAccount, ListSources
  <2>2. ASSUME NEW i \in Ids, Delete(c, i) PROVE SourceInv'
    BY <1>9, <2>1, <2>2 DEF Delete, Idle
  <2>3. ASSUME DeleteAccount(c) PROVE SourceInv'
    BY <1>9, <2>1, <2>3 DEF DeleteAccount, Idle
  <2>4. ASSUME ListSources(c) PROVE SourceInv'
    <3> DEFINE st == [req[c] EXCEPT !.pc = "expunge", !.paths = Present]
    <3>1. req' = [req EXCEPT ![c] = st] /\ st.pc = "expunge"
      BY <1>0, <2>4 DEF ListSources, RequestState
    <3>2. QED
      BY <1>9, <2>1, <3>1
  <2>5. QED
    BY <1>16, <2>2, <2>3, <2>4
<1>17. ASSUME NEW c \in Requests, LockLineage(c) PROVE SourceInv'
  <2>1. CASE lineage[req[c].key].exists
    <3>1. req'[c].pc = "erase" /\ (\A d \in Requests : d # c => req'[d] = req[d])
      BY <1>0, <1>17, <2>1 DEF LockLineage, RequestState
    <3>2. UNCHANGED <<repos, account, dirs>>
      BY <1>17 DEF LockLineage
    <3>3. QED
      BY <3>1, <3>2 DEF SourceInv, Present
  <2>2. CASE ~lineage[req[c].key].exists
    BY <1>15, <1>17, <2>2 DEF LockLineage
  <2>3. QED
    BY <2>1, <2>2
<1>18. ASSUME NEW c \in Requests, NEW i \in Ids, Reanalyse(c, i) PROVE SourceInv'
  <2>1. repos[i].key \in Keys /\ BeginImport(c, repos[i].key)
    BY <1>0, <1>18 DEF Reanalyse, Repository
  <2>2. QED
    BY <1>2, <2>1
<1>19. ASSUME NEW c \in Requests, ImportStep(c) PROVE SourceInv'
  BY <1>2, <1>4, <1>5, <1>10, <1>11, <1>12, <1>13, <1>14, <1>18, <1>19
     DEF ImportStep, Import, CloneFails, LineageVanished
<1>20. ASSUME NEW c \in Requests, UploadStep(c) PROVE SourceInv'
  BY <1>3, <1>4, <1>13, <1>20 DEF UploadStep, UploadFails
<1>21. ASSUME NEW c \in Requests, DeleteStep(c) PROVE SourceInv'
  BY <1>5, <1>7, <1>13, <1>15, <1>16, <1>17, <1>21
     DEF DeleteStep, DeleteStandalone, EraseRaises
<1>22. ASSUME NEW c \in Requests, AccountStep(c) \/ Crash(c) PROVE SourceInv'
  BY <1>6, <1>8, <1>15, <1>16, <1>22 DEF AccountStep, ExpungeFails, Crash
<1>23. CASE UNCHANGED vars
  BY <1>23 DEF vars, SourceInv, Present
<1>24. QED
  BY <1>19, <1>20, <1>21, <1>22, <1>23 DEF Next

\* On a system where the cleanup script is not running, a repository that
\* exists always has its source directory.
THEOREM SourcesKept ==
  ASSUME Cleaners = {}
  PROVE  Spec => []PresentHasSource
<1>1. Init => SourceInv
  BY DEF Init, SourceInv, PresentHasSource, Present, FreeId, Idle
<1>2. LineageInv /\ LineageInv' /\ SourceInv /\ [Next]_vars => SourceInv'
  BY NextSource
<1>3. LineageInv /\ SourceInv => PresentHasSource
  BY DEF LineageInv, AccountOK, SourceInv, PresentHasSource, TypeOK
<1>4. QED
  BY <1>1, <1>2, <1>3, LineageInvariance, PTL DEF Spec

-----------------------------------------------------------------------------
(* The latest pointer                                                      *)

\* A deletion in a lineage holds its lock, and what it read under the lock is
\* still so.
ErasesCurrent(c) ==
    LET k == req[c].key IN
    req[c].pc = "erase" /\ k # None =>
      /\ lock[k] = c
      /\ lineage[k].exists
      /\ req[c].moves <=> lineage[k].latest = req[c].id
      /\ IsNewest(Members(k) \ {req[c].id}, req[c].latest)

PointerInv ==
    /\ \A k \in Keys : lineage[k].exists => IsNewest(Members(k), lineage[k].latest)
    /\ \A c \in Requests : ErasesCurrent(c)

\* With sequence numbers that differ, the newest is the newest.
LEMMA NewestUnique ==
  ASSUME LineageInv, NEW k \in Keys, lineage[k].exists, NEW x, IsNewest(Members(k), x)
  PROVE  x = Newest(Members(k))
<1> DEFINE y == Newest(Members(k))
<1>1. IsNewest(Members(k), y)
  BY NewestIsNewest
<1> SUFFICES x = y
  OBVIOUS
<1> HIDE DEF y
<1>2. CASE Members(k) = {}
  BY <1>1, <1>2 DEF IsNewest
<1>3. CASE Members(k) # {}
  <2>1. x \in Members(k) /\ y \in Members(k)
        /\ repos[x].sequence <= repos[y].sequence /\ repos[y].sequence <= repos[x].sequence
    BY <1>1, <1>3 DEF IsNewest
  <2>2. x \in Ids /\ y \in Ids /\ repos[x].key = k /\ repos[y].key = k /\ k # None
    BY <2>1, NullAssumption DEF Members, Present
  <2>3. repos[x].sequence \in Nat /\ repos[y].sequence \in Nat
    BY <2>2 DEF LineageInv, TypeOK, Repository
  <2>4. repos[x].sequence = repos[y].sequence
    BY <2>1, <2>3
  <2>5. QED
    BY <2>2, <2>4 DEF LineageInv, SequencesNeverReused
<1>4. QED
  BY <1>2, <1>3

\* A step that leaves the rows, the lineages and the other requests' locks
\* alone, by a request that is not left deleting.
LEMMA PointerLocal ==
  ASSUME LineageInv, PointerInv, NEW c \in Requests, NEW st,
         req' = [req EXCEPT ![c] = st], st.pc # "erase" \/ st.key = None,
         \A k \in Keys : lock[k] # c => lock'[k] = lock[k],
         UNCHANGED lineage,
         \A k \in Keys : Members(k)' = Members(k),
         \A k \in Keys : \A i \in Members(k) : repos'[i].sequence = repos[i].sequence
  PROVE  PointerInv'
<1>0. req \in [Requests -> RequestState]
  BY DEF LineageInv, TypeOK
<1>1. req'[c] = st /\ \A d \in Requests : d # c => req'[d] = req[d]
  BY <1>0
<1>2. ASSUME NEW k \in Keys, lineage'[k].exists
      PROVE  IsNewest(Members(k), lineage[k].latest)'
  <2>1. Members(k) \in SUBSET Ids /\ IsNewest(Members(k), lineage[k].latest)
    BY <1>2 DEF PointerInv, Members, Present
  <2>2. QED
    BY <2>1 DEF IsNewest
<1>3. ASSUME NEW d \in Requests PROVE ErasesCurrent(d)'
  <2>1. CASE d = c
    BY <2>1, <1>1 DEF ErasesCurrent
  <2>2. CASE d # c
    <3>1. req'[d] = req[d] /\ ErasesCurrent(d) /\ req[d].key \in Keys \cup {None}
      BY <1>0, <1>1, <2>2 DEF PointerInv, RequestState
    <3>2. QED
      BY <2>2, <3>1 DEF ErasesCurrent, IsNewest
  <2>3. QED
    BY <2>1, <2>2
<1>4. QED
  BY <1>2, <1>3 DEF PointerInv

\* An import appends: its number is the greatest, and no deletion is under way.
LEMMA PointerAllocate ==
  ASSUME LineageInv, PointerInv, NEW c \in Requests, Allocate(c)
  PROVE  PointerInv'
<1> SUFFICES ASSUME NEW k, k = req[c].key, NEW n, n = req[c].id PROVE PointerInv'
  OBVIOUS
<1>0. /\ req \in [Requests -> RequestState] /\ repos \in [Ids -> Repository]
      /\ lineage \in [Keys -> Lineage]
  BY DEF LineageInv, TypeOK
<1>1. /\ k \in Keys /\ n \in Ids /\ repos[n].state = "minted" /\ repos[n].key = None
      /\ k # None /\ lock[k] = None /\ account = "active"
  BY NullAssumption DEF Allocate, Allocating, LineageInv, RequestOK, RowOK, Holds
<1>2. /\ repos'[n].state = "present" /\ repos'[n].key = k
      /\ repos'[n].sequence = lineage[k].next
      /\ \A h \in Ids : h # n => repos'[h] = repos[h]
      /\ lineage'[k].exists /\ lineage'[k].latest = n
      /\ \A h \in Keys : h # k => lineage'[h] = lineage[h]
      /\ UNCHANGED lock
  BY <1>0, <1>1 DEF Allocate
<1>3. req'[c] = Idle /\ \A d \in Requests : d # c => req'[d] = req[d]
  BY <1>0 DEF Allocate, End
<1>4. Members(k)' = Members(k) \cup {n}
  BY <1>1, <1>2 DEF Members, Present
<1>5. \A j \in Keys : j # k => Members(j)' = Members(j)
  BY <1>1, <1>2, NullAssumption DEF Members, Present
<1>6. \A j \in Keys : \A i \in Members(j) : i \in Ids /\ i # n /\ repos[i].key = j
  BY <1>1 DEF Members, Present
<1>7. IsNewest(Members(k), n)'
  <2>1. ASSUME NEW i \in Members(k) PROVE repos'[i].sequence <= repos'[n].sequence
    <3>1. repos[i].sequence < lineage[k].next
      BY <1>1, <1>6 DEF LineageInv, RowOK, SequencesNeverReused
    <3>2. repos[i].sequence \in Nat /\ lineage[k].next \in Nat
      BY <1>0, <1>1, <1>6 DEF Repository, Lineage
    <3>3. QED
      BY <1>1, <1>2, <1>6, <3>1, <3>2
  <2>2. repos'[n].sequence \in Nat
    BY <1>0, <1>1, <1>2 DEF Lineage
  <2>3. QED
    BY <1>2, <1>4, <2>1, <2>2 DEF IsNewest
<1>8. ASSUME NEW j \in Keys, lineage'[j].exists
      PROVE  IsNewest(Members(j), lineage[j].latest)'
  <2>1. CASE j = k
    BY <1>2, <1>7, <2>1
  <2>2. CASE j # k
    <3>1. IsNewest(Members(j), lineage[j].latest) /\ lineage'[j] = lineage[j]
      BY <1>2, <1>8, <2>2 DEF PointerInv
    <3>2. QED
      BY <1>2, <1>5, <1>6, <2>2, <3>1 DEF IsNewest
  <2>3. QED
    BY <2>1, <2>2
<1>9. ASSUME NEW d \in Requests PROVE ErasesCurrent(d)'
  <2>1. CASE d = c
    BY <1>3, <2>1 DEF ErasesCurrent, Idle
  <2>2. CASE d # c
    <3>1. req'[d] = req[d] /\ ErasesCurrent(d) /\ req[d].key \in Keys \cup {None}
      BY <1>0, <1>3, <2>2 DEF PointerInv, RequestState
    <3>2. req[d].pc = "erase" => req[d].key # k
      BY <1>1, <3>1, NullAssumption DEF ErasesCurrent
    <3>3. QED
      BY <1>2, <1>5, <1>6, <3>1, <3>2 DEF ErasesCurrent, IsNewest
  <2>3. QED
    BY <2>1, <2>2
<1>10. QED
  BY <1>8, <1>9 DEF PointerInv

\* The deletion that holds the lock moves the pointer to the survivor it read.
LEMMA PointerErase ==
  ASSUME LineageInv, PointerInv, NEW c \in Requests, Erase(c)
  PROVE  PointerInv'
<1> SUFFICES ASSUME NEW k, k = req[c].key, NEW n, n = req[c].id PROVE PointerInv'
  OBVIOUS
<1>0. /\ req \in [Requests -> RequestState] /\ repos \in [Ids -> Repository]
      /\ lineage \in [Keys -> Lineage] /\ lock \in [Keys -> Requests \cup {None}]
  BY DEF LineageInv, TypeOK
<1>1. /\ n \in Ids /\ req[c].pc = "erase" /\ k = repos[n].key /\ k \in Keys \cup {None}
      /\ ErasesCurrent(c)
  BY <1>0 DEF Erase, LineageInv, RequestOK, RequestState, PointerInv
<1>2. /\ \A i \in Ids : /\ repos'[i].key = repos[i].key
                        /\ repos'[i].sequence = repos[i].sequence
                        /\ i # n => repos'[i].state = repos[i].state
      /\ repos'[n].state # "present"
  BY <1>0, <1>1 DEF Erase, Repository, Present
<1>3. /\ req'[c].pc = "rmdir" /\ \A d \in Requests : d # c => req'[d] = req[d]
  BY <1>0 DEF Erase, Goto, RequestState
<1>4. \A j \in Keys : j # k => Members(j)' = Members(j)
  BY <1>1, <1>2 DEF Members, Present
<1>5. k \in Keys => Members(k)' = Members(k) \ {n}
  BY <1>1, <1>2 DEF Members, Present
<1>6. \A j \in Keys : Members(j) \subseteq Ids
  BY DEF Members, Present
<1>7. /\ \A j \in Keys : j # k => lineage'[j] = lineage[j]
      /\ k \in Keys => lineage'[k].exists = lineage[k].exists
                       /\ lineage'[k].latest = Pointer(c)
  BY <1>0, NullAssumption DEF Erase, Lineage
<1>8. \A j \in Keys : lock[j] # c => lock'[j] = lock[j]
  BY <1>0 DEF Erase, Unlocked
<1>9. ASSUME NEW j \in Keys, lineage'[j].exists
      PROVE  IsNewest(Members(j), lineage[j].latest)'
  <2>1. CASE j # k
    <3>1. IsNewest(Members(j), lineage[j].latest) /\ lineage'[j] = lineage[j]
      BY <1>7, <1>9, <2>1 DEF PointerInv
    <3>2. QED
      BY <1>2, <1>4, <1>6, <2>1, <3>1 DEF IsNewest
  <2>2. CASE j = k
    <3>1. /\ req[c].moves <=> lineage[k].latest = n
          /\ IsNewest(Members(k) \ {n}, req[c].latest)
          /\ IsNewest(Members(k), lineage[k].latest)
      BY <1>1, <2>2, NullAssumption DEF ErasesCurrent, PointerInv
    <3>2. IsNewest(Members(k) \ {n}, Pointer(c))
      BY <1>1, <2>2, <3>1, NullAssumption DEF Pointer, IsNewest
    <3>3. QED
      BY <1>2, <1>5, <1>6, <1>7, <2>2, <3>2 DEF IsNewest
  <2>3. QED
    BY <2>1, <2>2
<1>10. ASSUME NEW d \in Requests PROVE ErasesCurrent(d)'
  <2>1. CASE d = c
    BY <1>3, <2>1 DEF ErasesCurrent
  <2>2. CASE d # c
    <3>1. req'[d] = req[d] /\ ErasesCurrent(d) /\ req[d].key \in Keys \cup {None}
      BY <1>0, <1>3, <2>2 DEF PointerInv, RequestState
    <3>2. req[d].pc = "erase" /\ req[d].key # None => req[d].key # k
      BY <1>1, <2>2, <3>1 DEF ErasesCurrent
    <3>3. QED
      BY <1>2, <1>4, <1>6, <1>7, <1>8, <2>2, <3>1, <3>2 DEF ErasesCurrent, IsNewest
  <2>3. QED
    BY <2>1, <2>2
<1>11. QED
  BY <1>9, <1>10 DEF PointerInv

\* FOR UPDATE: the pointer and the survivor are read under the lock.
LEMMA PointerLock ==
  ASSUME RowLocks, LineageInv, PointerInv, NEW c \in Requests, LockLineage(c),
         lineage[req[c].key].exists
  PROVE  PointerInv'
<1> SUFFICES ASSUME NEW k, k = req[c].key PROVE PointerInv'
  OBVIOUS
<1> DEFINE mv == lineage[k].latest = req[c].id
           x == Newest(Members(k) \ {req[c].id})
           st == [req[c] EXCEPT !.pc = "erase", !.moves = mv, !.latest = x]
<1>0. req \in [Requests -> RequestState] /\ lock \in [Keys -> Requests \cup {None}]
  BY DEF LineageInv, TypeOK
<1>1. k \in Keys /\ lock[k] = None
  BY <1>0 DEF LockLineage, RequestState
<1>2. req'[c] = st /\ \A d \in Requests : d # c => req'[d] = req[d]
  BY <1>0 DEF LockLineage
<1>3. st.key = k /\ st.id = req[c].id /\ st.latest = x /\ st.moves = mv
  BY <1>0 DEF RequestState
<1>4. lock'[k] = c /\ \A j \in Keys : j # k => lock'[j] = lock[j]
  BY <1>0, <1>1 DEF LockLineage
<1>5. UNCHANGED <<repos, lineage>>
  BY DEF LockLineage
<1>6. IsNewest(Members(k) \ {req[c].id}, x)
  BY <1>1, NewestIsNewest
<1>7. ErasesCurrent(c)'
  <2>1. /\ req'[c].key = k /\ req'[c].id = req[c].id
        /\ req'[c].latest = x /\ req'[c].moves = mv
    BY <1>2, <1>3
  <2>2. IsNewest(Members(req[c].key) \ {req[c].id}, req[c].latest)'
    BY <1>5, <1>6, <2>1 DEF IsNewest, Members, Present
  <2>3. QED
    BY <1>4, <1>5, <2>1, <2>2 DEF ErasesCurrent
<1>8. ASSUME NEW d \in Requests, d # c PROVE ErasesCurrent(d)'
  <2>1. req'[d] = req[d] /\ ErasesCurrent(d) /\ req[d].key \in Keys \cup {None}
    BY <1>0, <1>2, <1>8 DEF PointerInv, RequestState
  <2>2. req[d].pc = "erase" /\ req[d].key # None => req[d].key # k
    BY <1>1, <2>1, NullAssumption DEF ErasesCurrent
  <2>3. QED
    BY <1>4, <1>5, <2>1, <2>2 DEF ErasesCurrent, IsNewest, Members, Present
<1>9. QED
  BY <1>5, <1>7, <1>8 DEF PointerInv, IsNewest, Members, Present

\* The cascade waits for every lock and leaves no lineage.
LEMMA PointerExpunge ==
  ASSUME LineageInv, PointerInv, NEW c \in Requests, Expunge(c)
  PROVE  PointerInv'
<1>0. req \in [Requests -> RequestState]
  BY DEF LineageInv, TypeOK
<1>1. req'[c].pc = "sweep" /\ \A d \in Requests : d # c => req'[d] = req[d]
  BY <1>0 DEF Expunge, Goto, RequestState
<1>2. \A k \in Keys : ~lineage'[k].exists /\ lock[k] = None
  BY DEF Expunge, NoLineage
<1>3. ASSUME NEW d \in Requests PROVE ErasesCurrent(d)'
  <2>1. req[d].key \in Keys \cup {None} /\ ErasesCurrent(d)
    BY <1>0 DEF RequestState, PointerInv
  <2>2. ~(req[d].pc = "erase" /\ req[d].key # None)
    BY <1>2, <2>1, NullAssumption DEF ErasesCurrent
  <2>3. QED
    BY <1>1, <2>2 DEF ErasesCurrent
<1>4. QED
  BY <1>2, <1>3 DEF PointerInv

\* On PostgreSQL every step keeps the pointers right.
LEMMA NextPointer ==
  ASSUME RowLocks, LineageInv, PointerInv, [Next]_vars
  PROVE  PointerInv'
<1>0. /\ req \in [Requests -> RequestState] /\ repos \in [Ids -> Repository]
      /\ \A c \in Requests : req[c] \in RequestState /\ RequestOK(c)
  BY DEF LineageInv, TypeOK
<1>1. ASSUME NEW c \in Requests, NEW st, req' = [req EXCEPT ![c] = st],
             st.pc # "erase" \/ st.key = None,
             lock' = lock \/ lock' = Unlocked(c), UNCHANGED <<repos, lineage>>
      PROVE  PointerInv'
  <2>1. \A k \in Keys : lock[k] # c => lock'[k] = lock[k]
    BY <1>1 DEF Unlocked
  <2>2. \A k \in Keys : Members(k)' = Members(k)
    BY <1>1 DEF Members, Present
  <2>3. QED
    BY <1>1, <2>1, <2>2, PointerLocal
<1>2. ASSUME NEW c \in Requests, End(c), lock' = lock \/ lock' = Unlocked(c),
             UNCHANGED <<repos, lineage>>
      PROVE  PointerInv'
  BY <1>1, <1>2 DEF End, Idle
<1>3. ASSUME NEW c \in Requests, NEW pc \in {"discard", "erase"}, Goto(c, pc),
             pc = "erase" => req[c].key = None, UNCHANGED <<repos, lineage, lock>>
      PROVE  PointerInv'
  <2> DEFINE st == [req[c] EXCEPT !.pc = pc]
  <2>1. req' = [req EXCEPT ![c] = st] /\ st.pc = pc /\ st.key = req[c].key
    BY <1>0, <1>3 DEF Goto, RequestState
  <2>2. QED
    BY <1>1, <1>3, <2>1
<1>4. ASSUME NEW c \in Requests, NEW i \in Ids, Minting(i), NEW st, st.pc # "erase",
             repos' = [repos EXCEPT ![i].state = "minted"],
             req' = [req EXCEPT ![c] = st], UNCHANGED <<lineage, lock>>
      PROVE  PointerInv'
  <2>1. repos[i].state = "free" /\ repos'[i].state = "minted"
        /\ \A h \in Ids : h # i => repos'[h] = repos[h]
    BY <1>0, <1>4 DEF Minting, Repository
  <2>2. \A k \in Keys : Members(k)' = Members(k)
    BY <2>1 DEF Members, Present
  <2>3. \A k \in Keys : \A h \in Members(k) : repos'[h].sequence = repos[h].sequence
    BY <2>1 DEF Members, Present
  <2>4. QED
    BY <1>4, <2>2, <2>3, PointerLocal
<1>5. ASSUME NEW c \in Requests, NEW k, BeginImport(c, k) PROVE PointerInv'
  BY <1>4, <1>5 DEF BeginImport, Idle
<1>6. ASSUME NEW c \in Requests, NEW u \in Archives, Upload(c, u) PROVE PointerInv'
  BY <1>4, <1>6 DEF Upload, Idle
<1>7. ASSUME NEW c \in Requests, UploadAdd(c) PROVE PointerInv'
  <2> SUFFICES ASSUME NEW n, n = req[c].id PROVE PointerInv'
    OBVIOUS
  <2>1. n \in Ids /\ repos[n].state = "minted"
    BY <1>0, <1>7 DEF UploadAdd, RequestOK, Holds
  <2>2. /\ \A h \in Ids : h # n => repos'[h] = repos[h]
        /\ repos'[n] = repos[n] \/ repos'[n].key = None
    BY <1>0, <1>7, <2>1 DEF UploadAdd
  <2>3. \A k \in Keys : Members(k)' = Members(k)
    BY <2>1, <2>2, NullAssumption DEF Members, Present
  <2>4. \A k \in Keys : \A h \in Members(k) : repos'[h].sequence = repos[h].sequence
    BY <2>1, <2>2 DEF Members, Present
  <2>5. QED
    BY <1>7, <2>3, <2>4, PointerLocal DEF UploadAdd, End, Idle
<1>8. ASSUME NEW c \in Requests, \E v \in Revisions : Clone(c, v) PROVE PointerInv'
  <2>1. PICK v \in Revisions : Clone(c, v)
    BY <1>8
  <2> DEFINE st == [req[c] EXCEPT !.pc = "find", !.revision = v]
  <2>2. req' = [req EXCEPT ![c] = st] /\ st.pc = "find"
    BY <1>0, <2>1 DEF Clone, RequestState
  <2>3. QED
    BY <1>1, <2>1, <2>2 DEF Clone
<1>9. ASSUME NEW c \in Requests, FindLineage(c) PROVE PointerInv'
  <2> DEFINE st == [req[c] EXCEPT !.pc = "allocate", !.found = lineage[req[c].key].exists]
  <2>1. req' = [req EXCEPT ![c] = st] /\ st.pc = "allocate"
    BY <1>0, <1>9 DEF FindLineage, RequestState
  <2>2. QED
    BY <1>1, <1>9, <2>1 DEF FindLineage
<1>10. ASSUME NEW c \in Requests, RetryAllocate(c) PROVE PointerInv'
  <2> DEFINE nxt == IF req[c].tries + 1 < MaxRetries THEN "find" ELSE "discard"
             st == [req[c] EXCEPT !.tries = req[c].tries + 1, !.pc = nxt]
  <2>1. req' = [req EXCEPT ![c] = st] /\ st.pc = nxt /\ nxt # "erase"
    BY <1>0, <1>10 DEF RetryAllocate, RequestState
  <2> HIDE DEF nxt
  <2>2. QED
    BY <1>1, <1>10, <2>1 DEF RetryAllocate
<1>11. ASSUME NEW c \in Requests, Duplicate(c) PROVE PointerInv'
  <2> DEFINE st == [req[c] EXCEPT !.pc = "discard", !.duplicate = TRUE]
  <2>1. req' = [req EXCEPT ![c] = st] /\ st.pc = "discard"
    BY <1>0, <1>11 DEF Duplicate, RequestState
  <2>2. QED
    BY <1>1, <1>11, <2>1 DEF Duplicate
<1>12. ASSUME NEW c \in Requests, NEW i \in Ids, Delete(c, i) PROVE PointerInv'
  BY <1>1, <1>12 DEF Delete, Idle
<1>13. ASSUME NEW c \in Requests, DeleteAccount(c) PROVE PointerInv'
  BY <1>1, <1>13 DEF DeleteAccount, Idle
<1>14. ASSUME NEW c \in Requests, ListSources(c) PROVE PointerInv'
  <2> DEFINE st == [req[c] EXCEPT !.pc = "expunge", !.paths = Present]
  <2>1. req' = [req EXCEPT ![c] = st] /\ st.pc = "expunge"
    BY <1>0, <1>14 DEF ListSources, RequestState
  <2>2. QED
    BY <1>1, <1>14, <2>1 DEF ListSources
<1>15. ASSUME NEW c \in Requests, LockLineage(c) PROVE PointerInv'
  <2>1. CASE lineage[req[c].key].exists
    BY <1>15, <2>1, PointerLock
  <2>2. CASE ~lineage[req[c].key].exists
    BY <1>2, <1>15, <2>2 DEF LockLineage
  <2>3. QED
    BY <2>1, <2>2
<1>16. ASSUME NEW c \in Requests, ImportStep(c) PROVE PointerInv'
  <2>1. ASSUME Discard(c) PROVE PointerInv'
    BY <1>2, <2>1 DEF Discard
  <2>2. ASSUME CloneFails(c) \/ LineageVanished(c) PROVE PointerInv'
    BY <1>3, <2>2 DEF CloneFails, LineageVanished
  <2>3. ASSUME NEW i \in Ids, Reanalyse(c, i) PROVE PointerInv'
    BY <1>5, <2>3 DEF Reanalyse
  <2>4. QED
    BY <1>5, <1>8, <1>9, <1>10, <1>11, <1>16, <2>1, <2>2, <2>3, PointerAllocate
       DEF ImportStep, Import
<1>17. ASSUME NEW c \in Requests, UploadStep(c) PROVE PointerInv'
  BY <1>3, <1>6, <1>7, <1>17 DEF UploadStep, UploadFails
<1>18. ASSUME NEW c \in Requests, DeleteStep(c) PROVE PointerInv'
  <2>1. ASSUME EraseRaises(c) \/ RemoveSource(c) PROVE PointerInv'
    BY <1>2, <2>1 DEF EraseRaises, RemoveSource
  <2>2. ASSUME DeleteStandalone(c) PROVE PointerInv'
    BY <1>3, <2>2 DEF DeleteStandalone
  <2>3. QED
    BY <1>12, <1>15, <1>18, <2>1, <2>2, PointerErase DEF DeleteStep
<1>19. ASSUME NEW c \in Requests, AccountStep(c) \/ Crash(c) PROVE PointerInv'
  <2>1. ASSUME ExpungeFails(c) \/ RemoveSources(c) \/ Crash(c) PROVE PointerInv'
    BY <1>2, <2>1 DEF ExpungeFails, RemoveSources, Crash
  <2>2. QED
    BY <1>13, <1>14, <1>19, <2>1, PointerExpunge DEF AccountStep
<1>20. ASSUME UNCHANGED <<repos, lineage, lock, req>> PROVE PointerInv'
  BY <1>20 DEF PointerInv, ErasesCurrent, IsNewest, Members, Present
<1>21. ASSUME NEW m \in Cleaners, CleanerStep(m) PROVE PointerInv'
  BY <1>20, <1>21 DEF CleanerStep, CleanerKnown, CleanerScan, CleanerApply
<1>22. QED
  BY <1>16, <1>17, <1>18, <1>19, <1>20, <1>21 DEF Next, vars

\* On PostgreSQL, where SELECT ... FOR UPDATE locks, the latest pointer of a
\* lineage is always at its surviving member with the greatest sequence number.
THEOREM LatestIsRight ==
  ASSUME RowLocks
  PROVE  Spec => []LatestIsNewest
<1>1. Init => PointerInv
  BY DEF Init, PointerInv, ErasesCurrent, NoLineage, Idle
<1>2. LineageInv /\ PointerInv /\ [Next]_vars => PointerInv'
  BY NextPointer
<1>3. LineageInv /\ PointerInv => LatestIsNewest
  BY NewestUnique DEF PointerInv, LatestIsNewest
<1>4. QED
  BY <1>1, <1>2, <1>3, LineageInvariance, PTL DEF Spec

-----------------------------------------------------------------------------
(* Retries                                                                 *)

\* An import that was refused once finds the lineage that refused it.
RetryOK(c) ==
    account = "active" =>
      /\ req[c].tries <= 1
      /\ req[c].pc = "clone" => req[c].tries = 0
      /\ req[c].pc \in {"find", "allocate"} /\ req[c].tries = 1 => lineage[req[c].key].exists
      /\ req[c].pc = "allocate" /\ req[c].tries = 1 => req[c].found

\* Lineages come and stay as long as the account does.
LEMMA LineagesStay ==
  ASSUME LineageInv, [Next]_vars, account' = "active"
  PROVE  account = "active" /\ \A k \in Keys : lineage[k].exists => lineage'[k].exists
<1>0. lineage \in [Keys -> Lineage]
  BY DEF LineageInv, TypeOK
<1>1. ASSUME NEW c \in Requests, Expunge(c) PROVE FALSE
  BY <1>1 DEF Expunge
<1>2. ASSUME NEW c \in Requests, ImportStep(c) PROVE
        account = "active" /\ \A k \in Keys : lineage[k].exists => lineage'[k].exists
  <2>1. CASE Allocate(c)
    BY <1>0, <2>1 DEF Allocate, Allocating
  <2>2. CASE ~Allocate(c)
    <3>1. UNCHANGED <<lineage, account>>
      BY <1>2, <2>2 DEF ImportStep, Import, Reanalyse, BeginImport, Clone, CloneFails,
         FindLineage, RetryAllocate, LineageVanished, Duplicate, Discard
    <3>2. QED
      BY <3>1
  <2>3. QED
    BY <2>1, <2>2
<1>3. ASSUME NEW c \in Requests, UploadStep(c) \/ AccountStep(c) \/ Crash(c) PROVE
        account = "active" /\ \A k \in Keys : lineage[k].exists => lineage'[k].exists
  BY <1>1, <1>3 DEF UploadStep, Upload, UploadFails, UploadAdd, AccountStep, DeleteAccount,
     ListSources, ExpungeFails, RemoveSources, Crash
<1>4. ASSUME NEW c \in Requests, DeleteStep(c) PROVE
        account = "active" /\ \A k \in Keys : lineage[k].exists => lineage'[k].exists
  BY <1>0, <1>4 DEF DeleteStep, Delete, DeleteStandalone, LockLineage, Erase, EraseRaises,
     RemoveSource, Lineage
<1>5. QED
  BY <1>2, <1>3, <1>4 DEF Next, vars, CleanerStep, CleanerKnown, CleanerScan, CleanerApply

\* The second attempt of an import always finds its lineage.
LEMMA NextRetry ==
  ASSUME LineageInv, \A c \in Requests : RetryOK(c), [Next]_vars
  PROVE  \A c \in Requests : RetryOK(c)'
<1> SUFFICES ASSUME account' = "active" PROVE \A c \in Requests : RetryOK(c)'
  BY DEF RetryOK
<1>0. /\ req \in [Requests -> RequestState]
      /\ \A c \in Requests : req[c] \in RequestState /\ RequestOK(c) /\ RetryOK(c)
  BY DEF LineageInv, TypeOK
<1>1. account = "active" /\ \A k \in Keys : lineage[k].exists => lineage'[k].exists
  BY LineagesStay
<1>2. ASSUME NEW c \in Requests, NEW st, req' = [req EXCEPT ![c] = st],
             st.tries <= 1, st.pc = "clone" => st.tries = 0,
             st.pc \in {"find", "allocate"} /\ st.tries = 1 => lineage'[st.key].exists,
             st.pc = "allocate" /\ st.tries = 1 => st.found
      PROVE  \A d \in Requests : RetryOK(d)'
  <2>1. req'[c] = st /\ \A d \in Requests : d # c => req'[d] = req[d]
    BY <1>0, <1>2
  <2>2. ASSUME NEW d \in Requests PROVE RetryOK(d)'
    <3>1. CASE d = c
      BY <1>2, <2>1, <3>1 DEF RetryOK
    <3>2. CASE d # c
      <4>1. req'[d] = req[d] /\ RetryOK(d) /\ RequestOK(d)
        BY <1>0, <2>1, <3>2
      <4>2. QED
        BY <1>1, <4>1 DEF RetryOK, RequestOK
    <3>3. QED
      BY <3>1, <3>2
  <2>3. QED
    BY <2>2
<1>2a. ASSUME NEW c \in Requests, NEW st, req' = [req EXCEPT ![c] = st], st.tries = 0
      PROVE  \A d \in Requests : RetryOK(d)'
  <2>1. st.tries <= 1 /\ st.tries # 1
    BY <1>2a
  <2>2. QED
    BY <1>2, <1>2a, <2>1
<1>3. ASSUME NEW c \in Requests, End(c) PROVE \A d \in Requests : RetryOK(d)'
  <2>1. Idle.tries = 0
    BY DEF Idle
  <2>2. QED
    BY <1>2a, <1>3, <2>1 DEF End
<1>4. ASSUME NEW c \in Requests, NEW st, req' = [req EXCEPT ![c] = st],
             st.tries = req[c].tries, st.pc \notin {"clone", "find", "allocate"}
      PROVE  \A d \in Requests : RetryOK(d)'
  <2>1. st.tries <= 1
    BY <1>0, <1>1, <1>4 DEF RetryOK
  <2>2. QED
    BY <1>2, <1>4, <2>1
<1>5. ASSUME NEW c \in Requests, NEW pc \in {"discard", "erase", "rmdir", "sweep"}, Goto(c, pc)
      PROVE  \A d \in Requests : RetryOK(d)'
  <2> DEFINE st == [req[c] EXCEPT !.pc = pc]
  <2>1. req' = [req EXCEPT ![c] = st] /\ st.pc = pc /\ st.tries = req[c].tries
    BY <1>0, <1>5 DEF Goto, RequestState
  <2>2. QED
    BY <1>4, <2>1
<1>6. ASSUME NEW c \in Requests, NEW k, BeginImport(c, k) PROVE \A d \in Requests : RetryOK(d)'
  <2>1. PICK i \in Ids :
          req' = [req EXCEPT ![c] = [Idle EXCEPT !.pc = "clone", !.id = i, !.key = k]]
    BY <1>6 DEF BeginImport
  <2>2. [Idle EXCEPT !.pc = "clone", !.id = i, !.key = k].tries = 0
    BY DEF Idle
  <2>3. QED
    BY <1>2a, <2>1, <2>2
<1>7. ASSUME NEW c \in Requests, NEW u \in Archives, Upload(c, u)
      PROVE  \A d \in Requests : RetryOK(d)'
  <2>1. PICK i \in Ids :
          req' = [req EXCEPT ![c] = [Idle EXCEPT !.pc = "upload", !.id = i, !.revision = u]]
    BY <1>7 DEF Upload
  <2>2. [Idle EXCEPT !.pc = "upload", !.id = i, !.revision = u].tries = 0
    BY DEF Idle
  <2>3. QED
    BY <1>2a, <2>1, <2>2
<1>8. ASSUME NEW c \in Requests, NEW v \in Revisions, Clone(c, v)
      PROVE  \A d \in Requests : RetryOK(d)'
  <2> DEFINE st == [req[c] EXCEPT !.pc = "find", !.revision = v]
  <2>1. req' = [req EXCEPT ![c] = st] /\ st.pc = "find" /\ st.tries = req[c].tries
    BY <1>0, <1>8 DEF Clone, RequestState
  <2>2. req[c].tries = 0
    BY <1>0, <1>1, <1>8 DEF Clone, RetryOK
  <2>3. QED
    BY <1>2a, <2>1, <2>2
<1>9. ASSUME NEW c \in Requests, FindLineage(c) PROVE \A d \in Requests : RetryOK(d)'
  <2> DEFINE st == [req[c] EXCEPT !.pc = "allocate", !.found = lineage[req[c].key].exists]
  <2>1. /\ req' = [req EXCEPT ![c] = st] /\ st.pc = "allocate" /\ st.tries = req[c].tries
        /\ st.key = req[c].key /\ st.found = lineage[req[c].key].exists
    BY <1>0, <1>9 DEF FindLineage, RequestState
  <2>2. /\ req[c].tries <= 1
        /\ req[c].tries = 1 => lineage[req[c].key].exists /\ lineage'[req[c].key].exists
    BY <1>0, <1>1, <1>9 DEF FindLineage, RetryOK, RequestOK
  <2>3. QED
    BY <1>2, <2>1, <2>2
<1>10. ASSUME NEW c \in Requests, RetryAllocate(c) PROVE \A d \in Requests : RetryOK(d)'
  <2> DEFINE nxt == IF req[c].tries + 1 < MaxRetries THEN "find" ELSE "discard"
             st == [req[c] EXCEPT !.tries = req[c].tries + 1, !.pc = nxt]
  <2>1. /\ req' = [req EXCEPT ![c] = st] /\ st.pc = nxt /\ st.tries = req[c].tries + 1
        /\ st.key = req[c].key
    BY <1>0, <1>10 DEF RetryAllocate, RequestState
  <2>2. nxt \in {"find", "discard"}
    OBVIOUS
  <2>3. req[c].tries \in Nat /\ req[c].tries <= 1 /\ req[c].tries # 1
    BY <1>0, <1>1, <1>10, MaxRetriesAssumption
       DEF RetryAllocate, InsertRefused, RetryOK, RequestState
  <2>4. st.tries = 1
    BY <2>1, <2>3
  <2>5. lineage'[req[c].key].exists
    BY <1>0, <1>1, <1>10 DEF RetryAllocate, InsertRefused, RequestOK
  <2> HIDE DEF nxt
  <2>6. st.tries <= 1 /\ st.pc \notin {"clone", "allocate"} /\ lineage'[st.key].exists
    BY <2>1, <2>2, <2>4, <2>5
  <2> HIDE DEF st
  <2>7. QED
    BY <1>2, <2>1, <2>6
<1>11. ASSUME NEW c \in Requests, Duplicate(c) PROVE \A d \in Requests : RetryOK(d)'
  <2> DEFINE st == [req[c] EXCEPT !.pc = "discard", !.duplicate = TRUE]
  <2>1. req' = [req EXCEPT ![c] = st] /\ st.pc = "discard" /\ st.tries = req[c].tries
    BY <1>0, <1>11 DEF Duplicate, RequestState
  <2>2. QED
    BY <1>4, <2>1
<1>12. ASSUME NEW c \in Requests, NEW i \in Ids, Delete(c, i)
       PROVE  \A d \in Requests : RetryOK(d)'
  <2>1. [Idle EXCEPT !.pc = "lock", !.id = i, !.key = repos[i].key].tries = 0
    BY DEF Idle
  <2>2. QED
    BY <1>2a, <1>12, <2>1 DEF Delete
<1>13. ASSUME NEW c \in Requests, LockLineage(c) PROVE \A d \in Requests : RetryOK(d)'
  <2> DEFINE st == [req[c] EXCEPT !.pc = "erase",
                       !.moves = lineage[req[c].key].latest = req[c].id,
                       !.latest = Newest(Members(req[c].key) \ {req[c].id})]
  <2>1. CASE lineage[req[c].key].exists
    <3>1. req' = [req EXCEPT ![c] = st] /\ st.pc = "erase" /\ st.tries = req[c].tries
      BY <1>0, <1>13, <2>1 DEF LockLineage, RequestState
    <3>2. QED
      BY <1>4, <3>1
  <2>2. CASE ~lineage[req[c].key].exists
    BY <1>3, <1>13, <2>2 DEF LockLineage
  <2>3. QED
    BY <2>1, <2>2
<1>14. ASSUME NEW c \in Requests, DeleteAccount(c) PROVE \A d \in Requests : RetryOK(d)'
  <2>1. [Idle EXCEPT !.pc = "list"].tries = 0
    BY DEF Idle
  <2>2. QED
    BY <1>2a, <1>14, <2>1 DEF DeleteAccount
<1>15. ASSUME NEW c \in Requests, ListSources(c) PROVE \A d \in Requests : RetryOK(d)'
  <2> DEFINE st == [req[c] EXCEPT !.pc = "expunge", !.paths = Present]
  <2>1. req' = [req EXCEPT ![c] = st] /\ st.pc = "expunge" /\ st.tries = req[c].tries
    BY <1>0, <1>15 DEF ListSources, RequestState
  <2>2. QED
    BY <1>4, <2>1
<1>16. ASSUME NEW c \in Requests, ImportStep(c) PROVE \A d \in Requests : RetryOK(d)'
  BY <1>3, <1>5, <1>6, <1>8, <1>9, <1>10, <1>11, <1>16
     DEF ImportStep, Import, Reanalyse, CloneFails, LineageVanished, Allocate, Discard
<1>17. ASSUME NEW c \in Requests, UploadStep(c) PROVE \A d \in Requests : RetryOK(d)'
  BY <1>3, <1>5, <1>7, <1>17 DEF UploadStep, UploadFails, UploadAdd
<1>18. ASSUME NEW c \in Requests, DeleteStep(c) PROVE \A d \in Requests : RetryOK(d)'
  BY <1>3, <1>5, <1>12, <1>13, <1>18
     DEF DeleteStep, DeleteStandalone, Erase, EraseRaises, RemoveSource
<1>19. ASSUME NEW c \in Requests, AccountStep(c) \/ Crash(c)
       PROVE  \A d \in Requests : RetryOK(d)'
  BY <1>3, <1>5, <1>14, <1>15, <1>19
     DEF AccountStep, Expunge, ExpungeFails, RemoveSources, Crash
<1>20. ASSUME UNCHANGED req PROVE \A d \in Requests : RetryOK(d)'
  BY <1>0, <1>1, <1>20 DEF RetryOK, RequestOK
<1>21. QED
  BY <1>16, <1>17, <1>18, <1>19, <1>20
     DEF Next, vars, CleanerStep, CleanerKnown, CleanerScan, CleanerApply

\* While the account exists an import never needs a second retry, on either
\* database, whatever _MAX_LINEAGE_RETRIES is.
THEOREM OneRetry == Spec => []RetriesSuffice
<1> DEFINE RetryInv == \A c \in Requests : RetryOK(c)
<1>1. Init => RetryInv
  BY DEF Init, RetryOK, Idle
<1>2. LineageInv /\ RetryInv /\ [Next]_vars => RetryInv'
  BY NextRetry
<1>3. RetryInv => RetriesSuffice
  BY DEF RetryOK, RetriesSuffice
<1> HIDE DEF RetryInv
<1>4. QED
  BY <1>1, <1>2, <1>3, LineageInvariance, PTL DEF Spec

=============================================================================
