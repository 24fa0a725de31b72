------------------------- MODULE AiWorkspaceProofs -------------------------
(***************************************************************************)
(* Theorems about AiWorkspace, for any number of requests, repositories,   *)
(* questions, retries, base URLs and addresses.  The invariants are proved *)
(* one after the other: types first, then the slot, the destinations, the  *)
(* keys and the threads, each on top of the types.                         *)
(***************************************************************************)
EXTENDS AiWorkspace, TLAPS, FiniteSetTheorems

-----------------------------------------------------------------------------
(* Types                                                                   *)

\* What a request holds at a stage beyond its type.
StageOK(r) ==
    /\ r.pc \in {"queue", "prepare", "send", "answer"} => r.tries = 0
    /\ r.pc = "queue" => r.cfg.provider = "ollama"
    /\ r.pc # "idle" /\ r.kind = "query" => r.query \in 1..MaxQueries
    /\ r.pc \in {"allocate", "insert"} => r.tries < MaxRetries
    /\ r.pc \in {"allocate", "insert", "lost"} => r.kind = "query"

CountersOK ==
    /\ asked \in 0..MaxQueries
    /\ saved \in 0..MaxSaves
    /\ changes \in 0..MaxChanges
    /\ epoch <= changes

TypeInv ==
    /\ TypeOK
    /\ CountersOK
    /\ \A c \in Requests : StageOK(req[c])

\* The constants a configuration is made of.
LEMMA NoConfigType == NoConfig \in Config /\ NoKey \in Key
BY DEF NoConfig, Config, Key, NoKey, Providers

LEMMA IdleType == Idle \in RequestState /\ StageOK(Idle)
<1>1. (CHOOSE r \in Repos : TRUE) \in Repos /\ NoAddress \in Addresses
  BY InhabitedAssumption DEF NoAddress
<1> QED BY <1>1, NoConfigType, WorkspaceAssumption DEF Idle, RequestState, Stages, StageOK

\* A request moves to a state of the right type.
LEMMA RequestStep ==
    ASSUME NEW c \in Requests, NEW r \in RequestState,
           req \in [Requests -> RequestState], \A d \in Requests : StageOK(req[d]),
           StageOK(r), Goto(c, r)
    PROVE  /\ req' \in [Requests -> RequestState]
           /\ \A d \in Requests : StageOK(req'[d])
           /\ \A d \in Requests : req'[d] = IF d = c THEN r ELSE req[d]
BY DEF Goto

\* The types of a step that changes only requests, slot, history and counters.
LEMMA TypeStep ==
    ASSUME TypeInv, UNCHANGED <<config, thread, outside>>,
           slot' \subseteq Requests, sent' \subseteq Sent, mixed' \in BOOLEAN,
           asked' \in 0..MaxQueries, saved' \in 0..MaxSaves,
           req' \in [Requests -> RequestState], \A d \in Requests : StageOK(req'[d])
    PROVE  TypeInv'
BY DEF TypeInv, TypeOK, CountersOK, outside

LEMMA EndType ==
    ASSUME TypeInv, NEW c \in Requests, End(c)
    PROVE  /\ req' \in [Requests -> RequestState] /\ slot' \subseteq Requests
           /\ \A d \in Requests : StageOK(req'[d])
           /\ \A d \in Requests : req'[d] = IF d = c THEN Idle ELSE req[d]
BY IdleType, RequestStep DEF End, TypeInv, TypeOK

LEMMA EndOnlyType ==
    ASSUME TypeInv, NEW c \in Requests, End(c),
           UNCHANGED <<config, thread, outside, sent, mixed, asked, saved>>
    PROVE  TypeInv'
BY EndType, TypeStep DEF TypeInv, TypeOK, CountersOK

LEMMA SaveType ==
    ASSUME TypeInv, NEW c \in Requests, NEW p \in Providers, NEW g \in BOOLEAN,
           NEW b \in Urls \cup {NoUrl}, Save(c, p, g, b)
    PROVE  TypeInv'
<1> DEFINE key == ResolvedKey(p, g, config)
           cfg == [row |-> TRUE, provider |-> p, key |-> key, base |-> b]
           r == [Idle EXCEPT !.pc = "write", !.read = config, !.fresh = g, !.cfg = cfg]
<1>1. key \in Key
  BY DEF ResolvedKey, TypeInv, TypeOK, Config, Key, NoKey
<1>2. cfg \in Config
  BY <1>1 DEF Config
<1>3. Goto(c, r) /\ saved < MaxSaves /\ saved' = saved + 1
      /\ UNCHANGED <<config, thread, outside, slot, sent, mixed, asked>>
  BY DEF Save
<1> HIDE DEF cfg
<1>4. config \in Config
  BY DEF TypeInv, TypeOK
<1>5. r \in RequestState /\ StageOK(r)
  BY <1>2, <1>4, IdleType DEF Idle, RequestState, Stages, StageOK
<1> HIDE DEF r
<1>6. req' \in [Requests -> RequestState] /\ \A d \in Requests : StageOK(req'[d])
  BY <1>3, <1>5, RequestStep DEF TypeInv, TypeOK
<1>7. saved' \in 0..MaxSaves
  BY <1>3, WorkspaceAssumption DEF TypeInv, CountersOK
<1> QED BY <1>3, <1>6, <1>7, TypeStep DEF TypeInv, TypeOK, CountersOK

LEMMA SaveCommitType ==
    ASSUME TypeInv, NEW c \in Requests, SaveCommit(c)
    PROVE  TypeInv'
<1>1. req[c].cfg \in Config /\ req[c].read \in Config /\ config \in Config
  BY DEF TypeInv, TypeOK, RequestState
<1>2. config' \in Config
  BY <1>1 DEF SaveCommit, Written, Config
<1>3. mixed' \in BOOLEAN
  BY DEF SaveCommit
<1>4. End(c) /\ UNCHANGED <<thread, outside, sent, asked, saved>>
  BY DEF SaveCommit
<1> QED BY <1>2, <1>3, <1>4, EndType DEF TypeInv, TypeOK, CountersOK, outside

LEMMA TestType ==
    ASSUME TypeInv, NEW c \in Requests, NEW k \in {"test", "models"}, NEW p \in Providers,
           NEW g \in BOOLEAN, NEW b \in Urls \cup {NoUrl}, Test(c, k, p, g, b)
    PROVE  TypeInv'
<1> DEFINE cfg == ForTest(p, g, b)
           r == [Idle EXCEPT !.kind = k, !.cfg = cfg,
                   !.pc = IF p = "ollama" /\ k = "test" THEN "queue" ELSE "prepare"]
<1>1. config \in Config /\ epoch \in 0..MaxChanges
  BY DEF TypeInv, TypeOK
<1>2. cfg \in Config /\ cfg.provider = p
  BY <1>1 DEF ForTest, Decrypted, Config, Key, NoKey
<1>3. Goto(c, r) /\ saved < MaxSaves /\ saved' = saved + 1
      /\ UNCHANGED <<config, thread, outside, slot, sent, mixed, asked>>
  BY DEF Test
<1> HIDE DEF cfg
<1>4. r \in RequestState /\ StageOK(r)
  BY <1>2, IdleType DEF Idle, RequestState, Stages, StageOK
<1> HIDE DEF r
<1>5. req' \in [Requests -> RequestState] /\ \A d \in Requests : StageOK(req'[d])
  BY <1>3, <1>4, RequestStep DEF TypeInv, TypeOK
<1>6. saved' \in 0..MaxSaves
  BY <1>3, WorkspaceAssumption DEF TypeInv, CountersOK
<1> QED BY <1>3, <1>5, <1>6, TypeStep DEF TypeInv, TypeOK, CountersOK

LEMMA AskType ==
    ASSUME TypeInv, NEW c \in Requests, NEW q \in Repos, Ask(c, q)
    PROVE  TypeInv'
<1> DEFINE cfg == ReadConfig
           r == [Idle EXCEPT !.kind = "query", !.cfg = cfg, !.repo = q, !.query = asked + 1,
                   !.pc = IF cfg.provider = "ollama" THEN "queue" ELSE "prepare"]
<1>1. config \in Config /\ asked \in 0..MaxQueries
  BY DEF TypeInv, TypeOK, CountersOK
<1>2. cfg \in Config
  BY <1>1 DEF ReadConfig, Decrypted, Config, Key, NoKey
<1>3. Goto(c, r) /\ asked < MaxQueries /\ asked' = asked + 1
      /\ UNCHANGED <<config, thread, outside, slot, sent, mixed, saved>>
  BY DEF Ask
<1> HIDE DEF cfg
<1>4. asked + 1 \in 1..MaxQueries /\ asked + 1 \in 0..MaxQueries
  BY <1>1, <1>3, WorkspaceAssumption
<1>5. r \in RequestState /\ StageOK(r)
  BY <1>2, <1>4, IdleType DEF Idle, RequestState, Stages, StageOK
<1> HIDE DEF r
<1>6. req' \in [Requests -> RequestState] /\ \A d \in Requests : StageOK(req'[d])
  BY <1>3, <1>5, RequestStep DEF TypeInv, TypeOK
<1> QED BY <1>3, <1>4, <1>6, TypeStep DEF TypeInv, TypeOK, CountersOK

\* Where a request to a provider goes is a host the name service knows of.
LEMMA DestinationHost ==
    ASSUME NEW p \in Providers, NEW b \in Urls \cup {NoUrl}, Destination(p, b) # NoUrl
    PROVE  Destination(p, b).host \in Hosts
<1> DEFINE u == RequestUrl(p, b)
<1>1. u # NoUrl /\ Destination(p, b) = Normalise(u, TRUE)
  BY DEF Destination, Normalise
<1>2. Normalise(u, TRUE).host = u.host
  BY <1>1 DEF Normalise, Destination
<1>3. u.host \in Hosts
  <2>1. CASE p \in Fixed
    BY <2>1 DEF RequestUrl, Hosts
  <2>2. CASE p \notin Fixed
    <3>1. b \in Urls /\ u = [b EXCEPT !.path = NormalPath(@) \o <<"api", "chat">>]
      BY <1>1, <2>2 DEF RequestUrl
    <3>2. u.host = b.host
      BY <3>1, UrlAssumption
    <3> QED BY <3>1, <3>2 DEF Hosts
  <2> QED BY <2>1, <2>2
<1> QED BY <1>1, <1>2, <1>3

LEMMA MoveType ==
    ASSUME TypeInv, NEW c \in Requests, NEW r \in RequestState, StageOK(r), Goto(c, r),
           slot' \subseteq Requests, sent' \subseteq Sent,
           UNCHANGED <<config, thread, outside, mixed, asked, saved>>
    PROVE  TypeInv'
<1>1. req' \in [Requests -> RequestState] /\ \A d \in Requests : StageOK(req'[d])
  BY RequestStep DEF TypeInv, TypeOK
<1> QED BY <1>1, TypeStep DEF TypeInv, TypeOK, CountersOK

LEMMA AcquireType ==
    ASSUME TypeInv, NEW c \in Requests, Acquire(c)
    PROVE  TypeInv'
<1> DEFINE r == [req[c] EXCEPT !.pc = "prepare"]
<1>1. r \in RequestState /\ StageOK(r)
  BY DEF Acquire, At, TypeInv, TypeOK, RequestState, Stages, StageOK
<1>2. Goto(c, r) /\ slot' \subseteq Requests
      /\ UNCHANGED <<config, thread, outside, sent, mixed, asked, saved>>
  BY DEF Acquire, Move
<1> HIDE DEF r
<1> QED BY <1>1, <1>2, MoveType DEF TypeInv, TypeOK

LEMMA PrepareType ==
    ASSUME TypeInv, NEW c \in Requests, Prepare(c)
    PROVE  TypeInv'
<1> DEFINE cfg == req[c].cfg
           d == Destination(cfg.provider, cfg.base)
<1>1. cfg.provider \in Providers /\ cfg.base \in Urls \cup {NoUrl}
  BY DEF TypeInv, TypeOK, RequestState, Config
<1>2. d # NoUrl
  BY DEF Prepare, Prepared
<1>3. d.host \in Hosts
  BY <1>1, <1>2, DestinationHost
<1>4. PICK a \in dns[d.host] : Goto(c, [req[c] EXCEPT !.pc = "send", !.address = a])
  BY DEF Prepare
<1>5. a \in Addresses
  BY <1>3, <1>4 DEF TypeInv, TypeOK
<1> DEFINE r == [req[c] EXCEPT !.pc = "send", !.address = a]
<1>6. r \in RequestState /\ StageOK(r)
  BY <1>5 DEF Prepare, At, TypeInv, TypeOK, RequestState, Stages, StageOK
<1>7. Goto(c, r) /\ UNCHANGED <<config, thread, outside, slot, sent, mixed, asked, saved>>
  BY <1>4 DEF Prepare
<1> HIDE DEF r
<1> QED BY <1>6, <1>7, MoveType DEF TypeInv, TypeOK

LEMMA SendType ==
    ASSUME TypeInv, NEW c \in Requests, Send(c)
    PROVE  TypeInv'
<1> DEFINE r == [req[c] EXCEPT !.pc = "answer"]
<1>1. r \in RequestState /\ StageOK(r)
  BY DEF Send, At, TypeInv, TypeOK, RequestState, Stages, StageOK
<1>2. Goto(c, r) /\ UNCHANGED <<config, thread, outside, slot, mixed, asked, saved>>
  BY DEF Send, Move
<1>3. sent' \subseteq Sent
  <2> DEFINE cfg == req[c].cfg
             key == IF RequiresKey(cfg.provider) THEN cfg.key ELSE NoKey
             s == [provider |-> cfg.provider, base |-> cfg.base,
                   address |-> req[c].address, key |-> key]
  <2>1. /\ cfg.provider \in Providers /\ cfg.base \in Urls \cup {NoUrl} /\ cfg.key \in Key
        /\ req[c].address \in Addresses
    BY DEF TypeInv, TypeOK, RequestState, Config
  <2>2. s \in Sent
    BY <2>1, NoConfigType DEF Sent
  <2>3. sent' = sent \cup {s}
    BY DEF Send, Connected
  <2> HIDE DEF s
  <2> QED BY <2>2, <2>3 DEF TypeInv, TypeOK
<1> HIDE DEF r
<1> QED BY <1>1, <1>2, <1>3, MoveType DEF TypeInv, TypeOK

-----------------------------------------------------------------------------
(* Threads                                                                 *)

\* A thread is a finite run of pairs; ThreadIsPairs says the same without the
\* finiteness and the even length.
ThreadOK(t) ==
    LET n == Cardinality(t) IN
    /\ IsFiniteSet(t)
    /\ n % 2 = 0
    /\ {m.sequence : m \in t} = 0..(n - 1)
    /\ \A m \in t :
        /\ m.role = IF m.sequence % 2 = 0 THEN "user" ELSE "assistant"
        /\ m.role = "user" => \E a \in t :
               a.sequence = m.sequence + 1 /\ a.query = m.query

\* Every attempt that failed found another pair in its place: how long the
\* thread is at least, by the attempts a request has made.
TurnsOK(r) ==
    LET n == Cardinality(thread[r.repo]) IN
    r.repo \in repos =>
        /\ r.pc = "allocate" => r.since + 2 * r.tries <= n
        /\ r.pc = "insert" => /\ r.sequence % 2 = 0
                              /\ r.since + 2 * r.tries <= r.sequence
                              /\ r.sequence <= n
        /\ r.pc = "lost" => r.since + 2 * MaxRetries <= n

ThreadInv ==
    /\ \A q \in Repos : ThreadOK(thread[q])
    /\ \A c \in Requests : TurnsOK(req[c])

LEMMA LengthType ==
    ASSUME NEW t, ThreadOK(t)
    PROVE  Cardinality(t) \in Nat
BY FS_CardinalityType DEF ThreadOK

\* The next sequence number is the length of the thread.
LEMMA NextIsLength ==
    ASSUME TypeInv, NEW q \in Repos, ThreadOK(thread[q])
    PROVE  NextSequence(q) = Cardinality(thread[q])
<1> DEFINE t == thread[q]
           n == Cardinality(t)
           S == {m.sequence : m \in t}
<1>1. n \in Nat /\ S = 0..(n - 1)
  BY LengthType DEF ThreadOK
<1>2. CASE t = {}
  BY <1>2, FS_EmptySet DEF NextSequence
<1>3. CASE t # {}
  <2>1. n # 0
    BY <1>3, FS_EmptySet DEF ThreadOK
  <2>2. n - 1 \in S /\ \A m \in t : m.sequence <= n - 1
    <3>1. \A m \in t : m.sequence \in S
      OBVIOUS
    <3>2. n - 1 \in 0..(n - 1) /\ \A k \in 0..(n - 1) : k <= n - 1
      <4> HIDE DEF n
      <4> QED BY <1>1, <2>1
    <3> HIDE DEF n, S
    <3> QED BY <1>1, <3>1, <3>2
  <2>3. ASSUME NEW k \in S, \A m \in t : m.sequence <= k PROVE k = n - 1
    <3>1. PICK m \in t : m.sequence = n - 1
      BY <2>2
    <3>2. n - 1 <= k /\ k \in 0..(n - 1)
      BY <1>1, <2>3, <3>1
    <3> HIDE DEF S, n
    <3> QED BY <1>1, <3>2
  <2>4. (CHOOSE k \in S : \A m \in t : m.sequence <= k) = n - 1
    BY <2>2, <2>3
  <2>5. NextSequence(q) = 1 + (n - 1)
    BY <1>3, <2>4 DEF NextSequence
  <2>6. 1 + (n - 1) = n
    <3> HIDE DEF n
    <3> QED BY <1>1
  <2> QED BY <2>5, <2>6
<1> QED BY <1>2, <1>3

LEMMA AnswerType ==
    ASSUME TypeInv, ThreadInv, NEW c \in Requests, Answer(c)
    PROVE  TypeInv'
<1> DEFINE n == Cardinality(thread[req[c].repo])
           r == [req[c] EXCEPT !.pc = "allocate", !.since = n]
<1>1. n \in Nat
  BY LengthType DEF ThreadInv, TypeInv, TypeOK, RequestState
<1>2. Goto(c, r) /\ slot' = slot \ {c} /\ At(c, "answer") /\ req[c].kind = "query"
      /\ UNCHANGED <<config, thread, outside, sent, mixed, asked, saved>>
  BY DEF Answer
<1> HIDE DEF n
<1>3. req[c] \in RequestState /\ req[c].query \in 1..MaxQueries /\ req[c].tries = 0
  BY <1>2 DEF At, TypeInv, TypeOK, StageOK
<1>4. r \in RequestState
  BY <1>1, <1>3 DEF RequestState, Stages
<1>5. StageOK(r)
  BY <1>2, <1>3, WorkspaceAssumption DEF RequestState, StageOK
<1> HIDE DEF r
<1> QED BY <1>2, <1>4, <1>5, MoveType DEF TypeInv, TypeOK

LEMMA AllocateType ==
    ASSUME TypeInv, ThreadInv, NEW c \in Requests, Allocate(c)
    PROVE  TypeInv'
<1> DEFINE n == NextSequence(req[c].repo)
           r == [req[c] EXCEPT !.pc = "insert", !.sequence = n]
<1>1. n \in Nat
  BY LengthType, NextIsLength DEF ThreadInv, TypeInv, TypeOK, RequestState
<1>2. Goto(c, r) /\ At(c, "allocate")
      /\ UNCHANGED <<config, thread, outside, slot, sent, mixed, asked, saved>>
  BY DEF Allocate
<1> HIDE DEF n
<1>3. r \in RequestState /\ StageOK(r)
  BY <1>1, <1>2 DEF At, TypeInv, TypeOK, RequestState, Stages, StageOK
<1> HIDE DEF r
<1> QED BY <1>2, <1>3, MoveType DEF TypeInv, TypeOK

LEMMA InsertType ==
    ASSUME TypeInv, NEW c \in Requests, Insert(c)
    PROVE  TypeInv'
<1> DEFINE r == req[c]
           u == [sequence |-> r.sequence, role |-> "user", query |-> r.query]
           a == [sequence |-> r.sequence + 1, role |-> "assistant", query |-> r.query]
<1>1. r.sequence \in Nat /\ r.query \in 1..MaxQueries /\ r.repo \in Repos
  BY DEF Insert, At, TypeInv, TypeOK, RequestState, StageOK
<1>2. u \in Message /\ a \in Message
  BY <1>1 DEF Message
<1>3. thread' = [thread EXCEPT ![r.repo] = @ \cup {u, a}]
  BY DEF Insert
<1> HIDE DEF u, a
<1>4. thread' \in [Repos -> SUBSET Message]
  BY <1>2, <1>3 DEF TypeInv, TypeOK
<1>5. End(c) /\ UNCHANGED <<config, outside, sent, mixed, asked, saved>>
  BY DEF Insert
<1> QED BY <1>4, <1>5, EndType DEF TypeInv, TypeOK, CountersOK, outside

LEMMA InsertCollidesType ==
    ASSUME TypeInv, NEW c \in Requests, InsertCollides(c)
    PROVE  TypeInv'
<1> DEFINE n == req[c].tries + 1
           r == [req[c] EXCEPT !.tries = n,
                   !.pc = IF GivesUp(n) THEN "lost" ELSE "allocate"]
<1>1. n \in 0..MaxRetries
  BY WorkspaceAssumption DEF InsertCollides, At, TypeInv, TypeOK, RequestState, StageOK
<1>2. Goto(c, r) /\ At(c, "insert")
      /\ UNCHANGED <<config, thread, outside, slot, sent, mixed, asked, saved>>
  BY DEF InsertCollides
<1> HIDE DEF n
<1>3. req[c] \in RequestState /\ req[c].query \in 1..MaxQueries /\ req[c].kind = "query"
  BY <1>2 DEF At, TypeInv, TypeOK, StageOK
<1>4. r \in RequestState
  BY <1>1, <1>3 DEF RequestState, Stages
<1>5. StageOK(r)
  BY <1>1, <1>3, WorkspaceAssumption DEF RequestState, StageOK, GivesUp
<1> HIDE DEF r
<1> QED BY <1>2, <1>4, <1>5, MoveType DEF TypeInv, TypeOK

LEMMA EnvironmentType ==
    ASSUME TypeInv, Environment
    PROVE  TypeInv'
<1>1. ASSUME NEW q \in Repos, DeleteRepository(q) PROVE TypeInv'
  BY <1>1 DEF DeleteRepository, TypeInv, TypeOK, CountersOK
<1>2. ASSUME NEW h \in Hosts, NEW answers \in SUBSET Addresses, ChangeName(h, answers)
      PROVE  TypeInv'
  <2>1. changes' \in 0..MaxChanges /\ epoch' <= changes' /\ epoch' = epoch
    BY <1>2, WorkspaceAssumption DEF ChangeName, TypeInv, TypeOK, CountersOK
  <2>2. dns' \in [Hosts -> SUBSET Addresses]
    BY <1>2 DEF ChangeName, TypeInv, TypeOK
  <2> QED BY <1>2, <2>1, <2>2 DEF ChangeName, TypeInv, TypeOK, CountersOK
<1>3. ASSUME NEW e \in {epoch, epoch + 1}, Restart(e) PROVE TypeInv'
  <2>1. changes' \in 0..MaxChanges /\ epoch' <= changes' /\ epoch' \in 0..MaxChanges
    BY <1>3, WorkspaceAssumption DEF Restart, TypeInv, TypeOK, CountersOK
  <2>2. req' \in [Requests -> RequestState] /\ \A d \in Requests : StageOK(req'[d])
    BY <1>3, IdleType DEF Restart
  <2> QED BY <1>3, <2>1, <2>2 DEF Restart, TypeInv, TypeOK, CountersOK
<1> QED BY <1>1, <1>2, <1>3 DEF Environment

LEMMA InitType == Init => TypeInv /\ ThreadInv
<1> SUFFICES ASSUME Init PROVE TypeInv /\ ThreadInv
  OBVIOUS
<1>1. config \in Config /\ req \in [Requests -> RequestState]
      /\ \A c \in Requests : StageOK(req[c])
  BY NoConfigType, IdleType DEF Init
<1>2. TypeOK
  <2>1. dns \in [Hosts -> SUBSET Addresses]
    <3>1. {{a} : a \in Addresses} \subseteq SUBSET Addresses
      OBVIOUS
    <3> QED BY <3>1 DEF Init
  <2>2. thread \in [Repos -> SUBSET Message]
    BY DEF Init
  <2>3. epoch \in 0..MaxChanges
    BY WorkspaceAssumption DEF Init
  <2> QED BY <1>1, <2>1, <2>2, <2>3 DEF Init, TypeOK
<1>3. CountersOK
  BY WorkspaceAssumption DEF Init, CountersOK
<1>4. ThreadOK({})
  BY FS_EmptySet DEF ThreadOK
<1>5. TurnsOK(Idle)
  BY DEF TurnsOK, Idle
<1> QED BY <1>1, <1>2, <1>3, <1>4, <1>5 DEF Init, TypeInv, ThreadInv

LEMMA NextType ==
    ASSUME TypeInv, ThreadInv, [Next]_vars
    PROVE  TypeInv'
<1>1. ASSUME NEW c \in Requests, Begin(c) PROVE TypeInv'
  BY <1>1, SaveType, TestType, AskType DEF Begin
<1>2. ASSUME NEW c \in Requests, Continue(c) PROVE TypeInv'
  <2>1. CASE PrepareRefused(c) \/ AnswerEnds(c) \/ Raise(c)
    BY <2>1, EndOnlyType DEF PrepareRefused, AnswerEnds, Raise
  <2> QED BY <1>2, <2>1, SaveCommitType, AcquireType, PrepareType, SendType, AnswerType,
             AllocateType, InsertType, InsertCollidesType DEF Continue
<1>3. CASE UNCHANGED vars
  BY <1>3 DEF vars, outside, TypeInv, TypeOK, CountersOK
<1> QED BY <1>1, <1>2, <1>3, EnvironmentType DEF Next

\* A step that leaves the threads alone and moves one request.
LEMMA ThreadStep ==
    ASSUME TypeInv, ThreadInv, NEW c \in Requests, NEW r, Goto(c, r), TurnsOK(r),
           UNCHANGED <<thread, repos>>
    PROVE  ThreadInv'
<1>1. \A d \in Requests : req'[d] = IF d = c THEN r ELSE req[d]
  BY DEF Goto, TypeInv, TypeOK
<1>2. \A d \in Requests : TurnsOK(req'[d])
  BY <1>1 DEF ThreadInv
<1>3. \A d \in Requests : TurnsOK(req[d])'
  BY <1>2 DEF TurnsOK
<1> QED BY <1>3 DEF ThreadInv

LEMMA IdleTurns == TurnsOK(Idle)
BY DEF TurnsOK, Idle

\* Only a request that has its answer has turns to place.
LEMMA EarlyTurns ==
    ASSUME NEW r, r.pc \notin {"allocate", "insert", "lost"}
    PROVE  TurnsOK(r)
BY DEF TurnsOK

LEMMA BeginThread ==
    ASSUME TypeInv, ThreadInv, NEW c \in Requests, Begin(c)
    PROVE  ThreadInv'
<1>1. ASSUME NEW p \in Providers, NEW g \in BOOLEAN, NEW b \in Urls \cup {NoUrl}, Save(c, p, g, b)
      PROVE  ThreadInv'
  <2> DEFINE r == [Idle EXCEPT !.pc = "write", !.read = config, !.fresh = g,
                     !.cfg = [row |-> TRUE, provider |-> p,
                              key |-> ResolvedKey(p, g, config), base |-> b]]
  <2>1. Goto(c, r) /\ UNCHANGED <<thread, repos>>
    BY <1>1 DEF Save, outside
  <2>2. r.pc = "write"
    BY DEF Idle
  <2> HIDE DEF r
  <2> QED BY <2>1, <2>2, EarlyTurns, ThreadStep
<1>2. ASSUME NEW k, NEW p \in Providers, NEW g \in BOOLEAN, NEW b \in Urls \cup {NoUrl},
             Test(c, k, p, g, b)
      PROVE  ThreadInv'
  <2> DEFINE r == [Idle EXCEPT !.kind = k, !.cfg = ForTest(p, g, b),
                     !.pc = IF p = "ollama" /\ k = "test" THEN "queue" ELSE "prepare"]
  <2>1. Goto(c, r) /\ UNCHANGED <<thread, repos>>
    BY <1>2 DEF Test, outside
  <2>2. r.pc \in {"queue", "prepare"}
    BY DEF Idle
  <2> HIDE DEF r
  <2> QED BY <2>1, <2>2, EarlyTurns, ThreadStep
<1>3. ASSUME NEW q \in Repos, Ask(c, q) PROVE ThreadInv'
  <2> DEFINE r == [Idle EXCEPT !.kind = "query", !.cfg = ReadConfig, !.repo = q,
                     !.query = asked + 1,
                     !.pc = IF ReadConfig.provider = "ollama" THEN "queue" ELSE "prepare"]
  <2>1. Goto(c, r) /\ UNCHANGED <<thread, repos>>
    BY <1>3 DEF Ask, outside
  <2>2. r.pc \in {"queue", "prepare"}
    BY DEF Idle
  <2> HIDE DEF r
  <2> QED BY <2>1, <2>2, EarlyTurns, ThreadStep
<1> QED BY <1>1, <1>2, <1>3 DEF Begin

LEMMA EarlyThread ==
    ASSUME TypeInv, ThreadInv, NEW c \in Requests,
           \/ SaveCommit(c) \/ Acquire(c) \/ Prepare(c) \/ PrepareRefused(c) \/ Send(c)
           \/ AnswerEnds(c) \/ Raise(c)
    PROVE  ThreadInv'
<1>1. UNCHANGED <<thread, repos>>
  BY DEF SaveCommit, Acquire, Prepare, PrepareRefused, Send, AnswerEnds, Raise, outside
<1>2. CASE Goto(c, Idle)
  BY <1>1, <1>2, IdleTurns, ThreadStep
<1>3. ASSUME NEW pc \in {"prepare", "answer"}, Goto(c, [req[c] EXCEPT !.pc = pc])
      PROVE  ThreadInv'
  <2> DEFINE r == [req[c] EXCEPT !.pc = pc]
  <2>1. r.pc = pc
    BY DEF TypeInv, TypeOK, RequestState
  <2>2. Goto(c, r)
    BY <1>3
  <2> HIDE DEF r
  <2> QED BY <1>1, <2>1, <2>2, EarlyTurns, ThreadStep
<1>4. ASSUME NEW a, Goto(c, [req[c] EXCEPT !.pc = "send", !.address = a])
      PROVE  ThreadInv'
  <2> DEFINE r == [req[c] EXCEPT !.pc = "send", !.address = a]
  <2>1. r.pc = "send"
    BY DEF TypeInv, TypeOK, RequestState
  <2>2. Goto(c, r)
    BY <1>4
  <2> HIDE DEF r
  <2> QED BY <1>1, <2>1, <2>2, EarlyTurns, ThreadStep
<1> QED BY <1>2, <1>3, <1>4
        DEF SaveCommit, Acquire, Prepare, PrepareRefused, Send, AnswerEnds, Raise, End, Move

LEMMA AnswerThread ==
    ASSUME TypeInv, ThreadInv, NEW c \in Requests, Answer(c)
    PROVE  ThreadInv'
<1> DEFINE n == Cardinality(thread[req[c].repo])
           r == [req[c] EXCEPT !.pc = "allocate", !.since = n]
<1>1. n \in Nat
  BY LengthType DEF ThreadInv, TypeInv, TypeOK, RequestState
<1>2. Goto(c, r) /\ UNCHANGED <<thread, repos>>
  BY DEF Answer, outside
<1>3. r.pc = "allocate" /\ r.since = n /\ r.tries = 0 /\ r.repo = req[c].repo
  BY DEF Answer, At, TypeInv, TypeOK, RequestState, StageOK
<1> HIDE DEF r
<1>4. TurnsOK(r)
  BY <1>1, <1>3 DEF TurnsOK
<1> QED BY <1>2, <1>4, ThreadStep

LEMMA AllocateThread ==
    ASSUME TypeInv, ThreadInv, NEW c \in Requests, Allocate(c)
    PROVE  ThreadInv'
<1> DEFINE n == NextSequence(req[c].repo)
           r == [req[c] EXCEPT !.pc = "insert", !.sequence = n]
<1>1. req[c].repo \in Repos /\ ThreadOK(thread[req[c].repo])
  BY DEF ThreadInv, TypeInv, TypeOK, RequestState
<1>2. n = Cardinality(thread[req[c].repo]) /\ n \in Nat /\ n % 2 = 0
  BY <1>1, LengthType, NextIsLength DEF ThreadOK
<1>3. Goto(c, r) /\ UNCHANGED <<thread, repos>>
  BY DEF Allocate, outside
<1>4. r.pc = "insert" /\ r.sequence = n /\ r.tries = req[c].tries /\ r.since = req[c].since
      /\ r.repo = req[c].repo
  BY DEF TypeInv, TypeOK, RequestState
<1>5. TurnsOK(req[c]) /\ req[c].pc = "allocate"
  BY DEF ThreadInv, Allocate, At
<1> HIDE DEF r, n
<1>6. TurnsOK(r)
  BY <1>2, <1>4, <1>5 DEF TurnsOK
<1> QED BY <1>3, <1>6, ThreadStep

\* A pair whose first number is the thread's length extends the thread.
LEMMA PairExtends ==
    ASSUME NEW t \in SUBSET Message, ThreadOK(t), NEW s \in Nat, NEW q \in 1..MaxQueries,
           s = Cardinality(t)
    PROVE  LET u == [sequence |-> s, role |-> "user", query |-> q]
               a == [sequence |-> s + 1, role |-> "assistant", query |-> q]
           IN  ThreadOK(t \cup {u, a}) /\ Cardinality(t \cup {u, a}) = s + 2
<1> DEFINE u == [sequence |-> s, role |-> "user", query |-> q]
           a == [sequence |-> s + 1, role |-> "assistant", query |-> q]
           w == t \cup {u, a}
<1>1. /\ u.sequence = s /\ u.role = "user" /\ u.query = q
      /\ a.sequence = s + 1 /\ a.role = "assistant" /\ a.query = q
  OBVIOUS
<1> HIDE DEF u, a
<1>2. \A m \in t : m.sequence \in 0..(s - 1)
  BY DEF ThreadOK
<1>3. u \notin t /\ a \notin t \cup {u}
  BY <1>1, <1>2
<1>4. IsFiniteSet(t \cup {u}) /\ Cardinality(t \cup {u}) = s + 1
  BY <1>3, FS_AddElement DEF ThreadOK
<1>5. (t \cup {u}) \cup {a} = w
  OBVIOUS
<1>6. IsFiniteSet(w) /\ Cardinality(w) = s + 2
  <2>1. Cardinality(w) = (s + 1) + 1 /\ IsFiniteSet(w)
    BY <1>3, <1>4, <1>5, FS_AddElement
  <2> QED BY <2>1
<1>7. s % 2 = 0 /\ (s + 2) % 2 = 0 /\ (s + 1) % 2 = 1
  BY DEF ThreadOK
<1>8. {m.sequence : m \in w} = 0..((s + 2) - 1)
  <2>1. {m.sequence : m \in t} = 0..(s - 1)
    BY DEF ThreadOK
  <2>2. {m.sequence : m \in w} = {m.sequence : m \in t} \cup {u.sequence, a.sequence}
    OBVIOUS
  <2>3. 0..((s + 2) - 1) = 0..(s - 1) \cup {s, s + 1}
    OBVIOUS
  <2> QED BY <1>1, <2>1, <2>2, <2>3
<1>9. ASSUME NEW m \in w
      PROVE  /\ m.role = IF m.sequence % 2 = 0 THEN "user" ELSE "assistant"
             /\ m.role = "user" => \E b \in w : b.sequence = m.sequence + 1 /\ b.query = m.query
  <2>1. CASE m \in t
    BY <2>1 DEF ThreadOK
  <2>2. CASE m = u
    BY <1>1, <1>7, <2>2
  <2>3. CASE m = a
    BY <1>1, <1>7, <2>3
  <2> QED BY <2>1, <2>2, <2>3
<1>10. ThreadOK(w)
  <2> HIDE DEF w
  <2> QED BY <1>6, <1>7, <1>8, <1>9 DEF ThreadOK
<1> QED BY <1>6, <1>10 DEF u, a

\* The thread grows by the pair; nobody else is set back.
LEMMA InsertThread ==
    ASSUME TypeInv, ThreadInv, NEW c \in Requests, Insert(c)
    PROVE  ThreadInv'
<1> DEFINE r == req[c]
           t == thread[r.repo]
           n == Cardinality(t)
           u == [sequence |-> r.sequence, role |-> "user", query |-> r.query]
           a == [sequence |-> r.sequence + 1, role |-> "assistant", query |-> r.query]
<1>1. /\ r.sequence \in Nat /\ r.query \in 1..MaxQueries /\ r.repo \in Repos
      /\ t \in SUBSET Message /\ ThreadOK(t) /\ TurnsOK(r) /\ r.pc = "insert" /\ r.repo \in repos
  BY DEF Insert, Insertable, At, TypeInv, TypeOK, RequestState, StageOK, ThreadInv
<1>2. n \in Nat
  BY <1>1, LengthType
<1>3. r.sequence = n
  <2>1. r.sequence <= n
    BY <1>1 DEF TurnsOK
  <2>2. r.sequence \notin 0..(n - 1)
    BY <1>1 DEF Insert, Insertable, ThreadOK
  <2> HIDE DEF n
  <2> QED BY <1>1, <1>2, <2>1, <2>2
<1>4. ThreadOK(t \cup {u, a}) /\ Cardinality(t \cup {u, a}) = n + 2
  BY <1>1, <1>3, PairExtends
<1>5. thread' = [thread EXCEPT ![r.repo] = t \cup {u, a}] /\ UNCHANGED repos
      /\ Goto(c, Idle)
  BY DEF Insert, End, outside
<1> HIDE DEF u, a
<1>6. \A q \in Repos : thread'[q] = IF q = r.repo THEN t \cup {u, a} ELSE thread[q]
  BY <1>5 DEF TypeInv, TypeOK
<1>7. \A q \in Repos : ThreadOK(thread'[q])
  BY <1>4, <1>6 DEF ThreadInv
<1>8. ASSUME NEW q \in Repos
      PROVE  /\ Cardinality(thread[q]) \in Nat
             /\ Cardinality(thread'[q]) \in Nat
             /\ Cardinality(thread[q]) <= Cardinality(thread'[q])
  <2>1. Cardinality(thread[q]) \in Nat /\ Cardinality(thread'[q]) \in Nat
    BY <1>7, LengthType DEF ThreadInv
  <2>2. CASE q = r.repo
    BY <1>2, <1>4, <1>6, <2>1, <2>2
  <2>3. CASE q # r.repo
    BY <1>6, <2>1, <2>3
  <2> QED BY <2>1, <2>2, <2>3
<1>9. ASSUME NEW d \in Requests PROVE TurnsOK(req[d])'
  <2>1. req'[d] = IF d = c THEN Idle ELSE req[d]
    BY <1>5 DEF Goto, TypeInv, TypeOK
  <2>2. CASE d = c
    BY <2>1, <2>2 DEF TurnsOK, Idle
  <2>3. CASE d # c
    <3>1. /\ req[d].repo \in Repos /\ req[d].since \in Nat /\ req[d].tries \in Nat
          /\ req[d].sequence \in Nat /\ TurnsOK(req[d])
      BY DEF TypeInv, TypeOK, RequestState, ThreadInv
    <3> DEFINE x == Cardinality(thread[req[d].repo])
               y == Cardinality(thread'[req[d].repo])
    <3>2. x \in Nat /\ y \in Nat /\ x <= y
      BY <1>8, <3>1
    <3>3. /\ req[d].since + 2 * req[d].tries <= x => req[d].since + 2 * req[d].tries <= y
          /\ req[d].sequence <= x => req[d].sequence <= y
          /\ req[d].since + 2 * MaxRetries <= x => req[d].since + 2 * MaxRetries <= y
      <4> HIDE DEF x, y
      <4> QED BY <3>1, <3>2, WorkspaceAssumption
    <3> QED BY <1>5, <2>1, <2>3, <3>1, <3>3 DEF TurnsOK
  <2> QED BY <2>2, <2>3
<1> QED BY <1>7, <1>9 DEF ThreadInv

\* The place was taken by a pair that came after the number was read.
LEMMA InsertCollidesThread ==
    ASSUME TypeInv, ThreadInv, NEW c \in Requests, InsertCollides(c)
    PROVE  ThreadInv'
<1> DEFINE o == req[c]
           n == Cardinality(thread[o.repo])
           k == o.tries + 1
           r == [o EXCEPT !.tries = k, !.pc = IF GivesUp(k) THEN "lost" ELSE "allocate"]
<1>1. /\ o.sequence \in Nat /\ o.since \in Nat /\ o.tries \in Nat /\ o.tries < MaxRetries
      /\ o.repo \in Repos /\ ThreadOK(thread[o.repo]) /\ TurnsOK(o) /\ o.pc = "insert"
  BY DEF InsertCollides, At, TypeInv, TypeOK, RequestState, StageOK, ThreadInv
<1>2. n \in Nat /\ n % 2 = 0
  BY <1>1, LengthType DEF ThreadOK
<1>3. Goto(c, r) /\ UNCHANGED <<thread, repos>> /\ ~Insertable(o)
  BY DEF InsertCollides, outside
<1>4. /\ r.pc = IF GivesUp(k) THEN "lost" ELSE "allocate"
      /\ r.tries = k /\ r.since = o.since /\ r.repo = o.repo
  BY DEF TypeInv, TypeOK, RequestState
<1>5. ASSUME o.repo \in repos PROVE o.since + 2 * k <= n
  <2>1. /\ o.sequence % 2 = 0 /\ o.since + 2 * o.tries <= o.sequence /\ o.sequence <= n
    BY <1>1, <1>5 DEF TurnsOK
  <2>2. PICK m \in thread[o.repo] : m.sequence \in {o.sequence, o.sequence + 1}
    BY <1>3, <1>5 DEF Insertable
  <2>3. m.sequence \in 0..(n - 1)
    BY <1>1, <2>2 DEF ThreadOK
  <2> HIDE DEF n, o
  <2>4. o.sequence + 2 <= n
    BY <1>1, <1>2, <2>1, <2>2, <2>3
  <2> QED BY <1>1, <1>2, <2>1, <2>4
<1> HIDE DEF r, n
<1>6. TurnsOK(r)
  <2>1. GivesUp(k) => k = MaxRetries
    BY <1>1, WorkspaceAssumption DEF GivesUp
  <2> QED BY <1>1, <1>4, <1>5, <2>1 DEF TurnsOK, n
<1> QED BY <1>3, <1>6, ThreadStep

LEMMA EnvironmentThread ==
    ASSUME TypeInv, ThreadInv, Environment
    PROVE  ThreadInv'
<1>1. ASSUME NEW q \in Repos, DeleteRepository(q) PROVE ThreadInv'
  <2>1. \A p \in Repos : thread'[p] = IF p = q THEN {} ELSE thread[p]
    BY <1>1 DEF DeleteRepository, TypeInv, TypeOK
  <2>2. ThreadOK({})
    BY FS_EmptySet DEF ThreadOK
  <2>3. \A p \in Repos : ThreadOK(thread'[p])
    BY <2>1, <2>2 DEF ThreadInv
  <2>4. ASSUME NEW d \in Requests PROVE TurnsOK(req[d])'
    <3>1. req'[d] = req[d] /\ req[d].repo \in Repos /\ TurnsOK(req[d]) /\ repos' = repos \ {q}
      BY <1>1 DEF DeleteRepository, TypeInv, TypeOK, RequestState, ThreadInv
    <3> QED BY <2>1, <3>1 DEF TurnsOK
  <2> QED BY <2>3, <2>4 DEF ThreadInv
<1>2. ASSUME NEW h \in Hosts, NEW answers \in SUBSET Addresses, ChangeName(h, answers)
      PROVE  ThreadInv'
  BY <1>2 DEF ChangeName, ThreadInv, TurnsOK
<1>3. ASSUME NEW e \in {epoch, epoch + 1}, Restart(e) PROVE ThreadInv'
  BY <1>3 DEF Restart, ThreadInv, TurnsOK, Idle
<1> QED BY <1>1, <1>2, <1>3 DEF Environment

LEMMA NextThread ==
    ASSUME TypeInv, ThreadInv, [Next]_vars
    PROVE  ThreadInv'
<1>1. ASSUME NEW c \in Requests, Continue(c) PROVE ThreadInv'
  BY <1>1, EarlyThread, AnswerThread, AllocateThread, InsertThread, InsertCollidesThread
  DEF Continue
<1>2. CASE UNCHANGED vars
  BY <1>2 DEF vars, outside, ThreadInv, TurnsOK
<1> QED BY <1>1, <1>2, BeginThread, EnvironmentThread DEF Next

\* Types and threads together are an inductive invariant of the workspace.
LEMMA BaseInvariant == Spec => [](TypeInv /\ ThreadInv)
<1>1. TypeInv /\ ThreadInv /\ [Next]_vars => (TypeInv /\ ThreadInv)'
  BY NextType, NextThread
<1> QED BY <1>1, InitType, PTL DEF Spec

\* The rows and the local variables of requests always have their types; that
\* of a sequence number rests on the shape of the threads.
THEOREM WorkspaceTypes == Spec => []TypeOK
<1>1. TypeInv /\ ThreadInv => TypeOK
  BY DEF TypeInv
<1> QED BY <1>1, BaseInvariant, PTL

\* append_turns keeps every thread a gapless run of question and answer pairs,
\* for any number of requests that write to it at once.
THEOREM ThreadsArePairs == Spec => []ThreadIsPairs
<1>1. TypeInv /\ ThreadInv => ThreadIsPairs
  BY DEF ThreadInv, ThreadOK, ThreadIsPairs
<1> QED BY <1>1, BaseInvariant, PTL

\* append_turns gives an answer up only when the repository was deleted or
\* when at least as many other pairs as it makes attempts were written since.
THEOREM AnswersAreKept == Spec => []AnswerKept
<1>1. TypeInv /\ ThreadInv => AnswerKept
  <2> SUFFICES ASSUME TypeInv, ThreadInv, NEW c \in Requests, At(c, "lost"),
                      req[c].repo \in repos
               PROVE  Cardinality(thread[req[c].repo]) >= req[c].since + 2 * MaxRetries
    BY DEF AnswerKept
  <2>1. req[c].repo \in Repos /\ req[c].since \in Nat
        /\ req[c].since + 2 * MaxRetries <= Cardinality(thread[req[c].repo])
    BY DEF TypeInv, TypeOK, RequestState, ThreadInv, TurnsOK, At
  <2>2. Cardinality(thread[req[c].repo]) \in Nat
    BY <2>1, LengthType DEF ThreadInv
  <2> QED BY <2>1, <2>2, WorkspaceAssumption
<1> QED BY <1>1, BaseInvariant, PTL

-----------------------------------------------------------------------------
(* The slot                                                                *)

\* A request that has Ollama's slot.
Holds(r) == r.pc \in {"prepare", "send", "answer"} /\ r.cfg.provider = "ollama"

SlotInv ==
    /\ \A c, d \in slot : c = d
    /\ \A c \in slot : Holds(req[c])

LEMMA SlotStep ==
    ASSUME TypeInv, SlotInv, NEW c \in Requests, NEW r, Goto(c, r), slot' \subseteq slot,
           c \in slot' => Holds(r)
    PROVE  SlotInv'
<1>1. \A d \in Requests : req'[d] = IF d = c THEN r ELSE req[d]
  BY DEF Goto, TypeInv, TypeOK
<1>2. slot \subseteq Requests
  BY DEF TypeInv, TypeOK
<1>3. \A d \in slot' : Holds(req'[d])
  BY <1>1, <1>2 DEF SlotInv
<1>4. \A d \in slot' : Holds(req[d])'
  BY <1>3 DEF Holds
<1> QED BY <1>4 DEF SlotInv

LEMMA SlotEnd ==
    ASSUME TypeInv, SlotInv, NEW c \in Requests, End(c)
    PROVE  SlotInv'
BY SlotStep DEF End

\* A request that begins, or that has its answer, holds no slot.
LEMMA SlotAway ==
    ASSUME TypeInv, SlotInv, NEW c \in Requests, NEW r, Goto(c, r),
           req[c].pc \notin {"prepare", "send", "answer"}, slot' = slot
    PROVE  SlotInv'
<1>1. c \notin slot
  BY DEF SlotInv, Holds
<1> QED BY <1>1, SlotStep

LEMMA NextSlot ==
    ASSUME TypeInv, SlotInv, [Next]_vars
    PROVE  SlotInv'
<1>1. ASSUME NEW c \in Requests, Begin(c) PROVE SlotInv'
  BY <1>1, SlotAway DEF Begin, Save, Test, Ask, At
<1>2. ASSUME NEW c \in Requests, Continue(c) PROVE SlotInv'
  <2>1. CASE SaveCommit(c) \/ PrepareRefused(c) \/ AnswerEnds(c) \/ Insert(c) \/ Raise(c)
    BY <2>1, SlotEnd DEF SaveCommit, PrepareRefused, AnswerEnds, Insert, Raise
  <2>2. CASE Allocate(c) \/ InsertCollides(c)
    BY <2>2, SlotAway DEF Allocate, InsertCollides, At
  <2>3. CASE Acquire(c)
    <3>1. req'[c] = [req[c] EXCEPT !.pc = "prepare"] /\ slot' = {c}
      BY <2>3 DEF Acquire, Move, Goto, TypeInv, TypeOK
    <3>2. req'[c].pc = "prepare" /\ req'[c].cfg = req[c].cfg
      BY <3>1 DEF TypeInv, TypeOK, RequestState
    <3>3. req[c].cfg.provider = "ollama"
      BY <2>3 DEF Acquire, At, TypeInv, StageOK
    <3> QED BY <3>1, <3>2, <3>3 DEF SlotInv, Holds
  <2>4. CASE Prepare(c)
    <3>1. PICK a : Goto(c, [req[c] EXCEPT !.pc = "send", !.address = a])
      BY <2>4 DEF Prepare
    <3> DEFINE r == [req[c] EXCEPT !.pc = "send", !.address = a]
    <3>2. Goto(c, r) /\ r.pc = "send" /\ r.cfg = req[c].cfg
      BY <3>1 DEF TypeInv, TypeOK, RequestState
    <3> HIDE DEF r
    <3>3. slot' = slot /\ (c \in slot => Holds(r))
      BY <2>4, <3>2 DEF Prepare, SlotInv, Holds
    <3> QED BY <3>2, <3>3, SlotStep
  <2>5. CASE Send(c)
    <3> DEFINE r == [req[c] EXCEPT !.pc = "answer"]
    <3>2. Goto(c, r) /\ r.pc = "answer" /\ r.cfg = req[c].cfg
      BY <2>5 DEF Send, Move, TypeInv, TypeOK, RequestState
    <3> HIDE DEF r
    <3>3. slot' = slot /\ (c \in slot => Holds(r))
      BY <2>5, <3>2 DEF Send, SlotInv, Holds
    <3> QED BY <3>2, <3>3, SlotStep
  <2>6. CASE Answer(c)
    BY <2>6, SlotStep DEF Answer
  <2> QED BY <1>2, <2>1, <2>2, <2>3, <2>4, <2>5, <2>6 DEF Continue
<1>3. ASSUME Environment PROVE SlotInv'
  BY <1>3 DEF Environment, DeleteRepository, ChangeName, Restart, SlotInv, Holds
<1>4. CASE UNCHANGED vars
  BY <1>4 DEF vars, SlotInv, Holds
<1> QED BY <1>1, <1>2, <1>3, <1>4 DEF Next

\* Ollama's slot has one holder at most, which is on its way to Ollama and
\* gives the slot back in the step that ends the exchange, however it ends.
THEOREM SlotIsReturned == Spec => []SlotNotLeaked
<1>1. Init => SlotInv
  BY DEF Init, SlotInv
<1>2. TypeInv /\ ThreadInv /\ SlotInv /\ [Next]_vars => SlotInv'
  BY NextSlot
<1>3. SlotInv => SlotNotLeaked
  <2> SUFFICES ASSUME SlotInv PROVE Cardinality(slot) <= 1
    BY DEF SlotInv, SlotNotLeaked, Holds
  <2>1. CASE slot = {}
    BY <2>1, FS_EmptySet
  <2>2. CASE slot # {}
    <3>1. PICK c \in slot : slot = {c}
      BY <2>2 DEF SlotInv
    <3> QED BY <3>1, FS_Singleton
  <2> QED BY <2>1, <2>2
<1> QED BY <1>1, <1>2, <1>3, BaseInvariant, PTL DEF Spec

-----------------------------------------------------------------------------
(* What is sent, and where                                                 *)

\* The key of a configuration is one that was given for its provider.
KeyOK(cfg) == cfg.key # NoKey => cfg.key.of = cfg.provider

\* What a request carries to the provider.
CarriesOK(r) ==
    /\ r.pc = "send" => /\ Destination(r.cfg.provider, r.cfg.base) # NoUrl
                        /\ Permitted({r.address}, r.cfg.provider \notin Fixed)
    /\ ~mixed => KeyOK(r.cfg)

EgressInv ==
    /\ SentWherePermitted
    /\ KeyToItsProvider
    /\ ~mixed => KeyOK(config)
    /\ \A c \in Requests : CarriesOK(req[c])

LEMMA EgressStep ==
    ASSUME TypeInv, EgressInv, NEW c \in Requests, NEW r, Goto(c, r), CarriesOK(r),
           UNCHANGED <<config, sent, mixed>>
    PROVE  EgressInv'
<1>1. \A d \in Requests : req'[d] = IF d = c THEN r ELSE req[d]
  BY DEF Goto, TypeInv, TypeOK
<1>2. \A d \in Requests : CarriesOK(req'[d])
  BY <1>1 DEF EgressInv
<1>3. \A d \in Requests : CarriesOK(req[d])'
  BY <1>2 DEF CarriesOK
<1> QED BY <1>3 DEF EgressInv, SentWherePermitted, KeyToItsProvider

LEMMA IdleCarries == CarriesOK(Idle)
BY DEF CarriesOK, Idle, KeyOK, NoConfig, NoKey

\* A request that keeps its configuration and does not get to the connection.
LEMMA EgressKeeps ==
    ASSUME TypeInv, EgressInv, NEW c \in Requests, NEW r, Goto(c, r),
           r.cfg = req[c].cfg, r.pc # "send", UNCHANGED <<config, sent, mixed>>
    PROVE  EgressInv'
<1>1. CarriesOK(r)
  BY DEF EgressInv, CarriesOK
<1> QED BY <1>1, EgressStep

\* A configuration that is given, or taken over from the same provider's,
\* has that provider's key.
LEMMA BeginEgress ==
    ASSUME TypeInv, EgressInv, NEW c \in Requests, Begin(c)
    PROVE  EgressInv'
<1>0. (~mixed => KeyOK(config)) /\ config \in Config
  BY DEF EgressInv, TypeInv, TypeOK
<1>1. ASSUME NEW p \in Providers, NEW g \in BOOLEAN, NEW b \in Urls \cup {NoUrl}, Save(c, p, g, b)
      PROVE  EgressInv'
  <2> DEFINE cfg == [row |-> TRUE, provider |-> p, key |-> ResolvedKey(p, g, config), base |-> b]
             r == [Idle EXCEPT !.pc = "write", !.read = config, !.fresh = g, !.cfg = cfg]
  <2>1. Goto(c, r) /\ UNCHANGED <<config, sent, mixed>>
    BY <1>1 DEF Save
  <2>2. ~mixed => KeyOK(cfg)
    BY <1>0 DEF KeyOK, ResolvedKey
  <2> HIDE DEF cfg
  <2>3. r.pc = "write" /\ r.cfg = cfg
    BY DEF Idle
  <2> HIDE DEF r
  <2> QED BY <2>1, <2>2, <2>3, EgressStep DEF CarriesOK
<1>2. ASSUME NEW k, NEW p \in Providers, NEW g \in BOOLEAN, NEW b \in Urls \cup {NoUrl},
             Test(c, k, p, g, b)
      PROVE  EgressInv'
  <2> DEFINE cfg == ForTest(p, g, b)
             r == [Idle EXCEPT !.kind = k, !.cfg = cfg,
                     !.pc = IF p = "ollama" /\ k = "test" THEN "queue" ELSE "prepare"]
  <2>1. Goto(c, r) /\ UNCHANGED <<config, sent, mixed>>
    BY <1>2 DEF Test
  <2>2. ~mixed => KeyOK(cfg)
    BY <1>0 DEF KeyOK, ForTest, Decrypted
  <2> HIDE DEF cfg
  <2>3. r.pc \in {"queue", "prepare"} /\ r.cfg = cfg
    BY DEF Idle
  <2> HIDE DEF r
  <2> QED BY <2>1, <2>2, <2>3, EgressStep DEF CarriesOK
<1>3. ASSUME NEW q \in Repos, Ask(c, q) PROVE EgressInv'
  <2> DEFINE cfg == ReadConfig
             r == [Idle EXCEPT !.kind = "query", !.cfg = cfg, !.repo = q, !.query = asked + 1,
                     !.pc = IF cfg.provider = "ollama" THEN "queue" ELSE "prepare"]
  <2>1. Goto(c, r) /\ UNCHANGED <<config, sent, mixed>>
    BY <1>3 DEF Ask
  <2>2. ~mixed => KeyOK(cfg)
    BY <1>0 DEF KeyOK, ReadConfig, Decrypted, Config
  <2> HIDE DEF cfg
  <2>3. r.pc \in {"queue", "prepare"} /\ r.cfg = cfg
    BY DEF Idle
  <2> HIDE DEF r
  <2> QED BY <2>1, <2>2, <2>3, EgressStep DEF CarriesOK
<1> QED BY <1>1, <1>2, <1>3 DEF Begin

\* A save that nothing overtook stores its own configuration, or the row of
\* the first save stays.
LEMMA SaveCommitEgress ==
    ASSUME TypeInv, EgressInv, NEW c \in Requests, SaveCommit(c)
    PROVE  EgressInv'
<1> DEFINE r == req[c]
<1>1. r.cfg \in Config /\ r.read \in Config /\ config \in Config
  BY DEF TypeInv, TypeOK, RequestState
<1>2. sent' = sent /\ (~mixed' => ~mixed)
  BY DEF SaveCommit
<1>3. \A d \in Requests : req'[d] = IF d = c THEN Idle ELSE req[d]
  BY EndType DEF SaveCommit
<1>4. \A d \in Requests : CarriesOK(req'[d])
  BY <1>3, IdleCarries DEF EgressInv
<1>5. \A d \in Requests : CarriesOK(req[d])'
  BY <1>2, <1>4 DEF CarriesOK
<1>6. ASSUME ~mixed' PROVE KeyOK(config')
  <2>1. ~mixed /\ KeyOK(config) /\ KeyOK(r.cfg)
    BY <1>2, <1>6 DEF EgressInv, CarriesOK
  <2>2. CASE ~r.read.row
    BY <2>1, <2>2 DEF SaveCommit
  <2>3. CASE r.read.row
    <3>1. config = r.read /\ config' = Written(r)
      BY <1>6, <2>3 DEF SaveCommit
    <3>2. config'.provider = r.cfg.provider /\ config'.key = r.cfg.key
      BY <3>1 DEF Written
    <3> QED BY <2>1, <3>2 DEF KeyOK
  <2> QED BY <2>2, <2>3
<1>7. ~mixed' => KeyOK(config)'
  BY <1>6 DEF KeyOK
<1> QED BY <1>2, <1>5, <1>7 DEF EgressInv, SentWherePermitted, KeyToItsProvider

\* The address is one of those that were checked together.
LEMMA PrepareEgress ==
    ASSUME TypeInv, EgressInv, NEW c \in Requests, Prepare(c)
    PROVE  EgressInv'
<1> DEFINE cfg == req[c].cfg
           d == Destination(cfg.provider, cfg.base)
<1>1. d # NoUrl /\ Permitted(dns[d.host], cfg.provider \notin Fixed)
  BY DEF Prepare, Prepared
<1>2. PICK a \in dns[d.host] : Goto(c, [req[c] EXCEPT !.pc = "send", !.address = a])
  BY DEF Prepare
<1>3. Permitted({a}, cfg.provider \notin Fixed)
  <2> HIDE DEF d
  <2> QED BY <1>1, <1>2 DEF Permitted
<1> DEFINE r == [req[c] EXCEPT !.pc = "send", !.address = a]
<1>4. Goto(c, r) /\ UNCHANGED <<config, sent, mixed>>
  BY <1>2 DEF Prepare
<1>5. r.pc = "send" /\ r.cfg = cfg /\ r.address = a
  BY DEF TypeInv, TypeOK, RequestState
<1>6. ~mixed => KeyOK(cfg)
  BY DEF EgressInv, CarriesOK
<1> HIDE DEF r
<1>7. CarriesOK(r)
  BY <1>1, <1>3, <1>5, <1>6 DEF CarriesOK
<1> QED BY <1>4, <1>7, EgressStep

LEMMA SendEgress ==
    ASSUME TypeInv, EgressInv, NEW c \in Requests, Send(c)
    PROVE  EgressInv'
<1> DEFINE o == req[c]
           r == [o EXCEPT !.pc = "answer"]
           s == [provider |-> o.cfg.provider, base |-> o.cfg.base, address |-> o.address,
                 key |-> IF RequiresKey(o.cfg.provider) THEN o.cfg.key ELSE NoKey]
<1>1. Goto(c, r) /\ sent' = sent \cup {s} /\ UNCHANGED <<config, mixed>> /\ o.pc = "send"
  BY DEF Send, Move, Connected, At
<1>2. r.pc = "answer" /\ r.cfg = o.cfg
  BY DEF TypeInv, TypeOK, RequestState
<1>3. CarriesOK(o)
  BY DEF EgressInv
<1>4. /\ Destination(s.provider, s.base) # NoUrl /\ Permitted({s.address}, s.provider \notin Fixed)
      /\ ~mixed => (s.key # NoKey => s.key.of = s.provider)
  BY <1>1, <1>3 DEF CarriesOK, KeyOK
<1> HIDE DEF r, s
<1>5. \A d \in Requests : req'[d] = IF d = c THEN r ELSE req[d]
  BY <1>1 DEF Goto, TypeInv, TypeOK
<1>6. CarriesOK(r)
  BY <1>2, <1>3 DEF CarriesOK
<1>7. \A d \in Requests : CarriesOK(req'[d])
  BY <1>5, <1>6 DEF EgressInv
<1>8. \A d \in Requests : CarriesOK(req[d])'
  BY <1>1, <1>7 DEF CarriesOK
<1> QED BY <1>1, <1>4, <1>8 DEF EgressInv, SentWherePermitted, KeyToItsProvider

LEMMA NextEgress ==
    ASSUME TypeInv, EgressInv, [Next]_vars
    PROVE  EgressInv'
<1>1. ASSUME NEW c \in Requests, Continue(c) PROVE EgressInv'
  <2>1. req[c] \in RequestState
    BY DEF TypeInv, TypeOK
  <2>2. CASE PrepareRefused(c) \/ AnswerEnds(c) \/ Insert(c) \/ Raise(c)
    BY <2>2, IdleCarries, EgressStep DEF PrepareRefused, AnswerEnds, Insert, Raise, End
  <2>3. CASE Acquire(c)
    <3> DEFINE r == [req[c] EXCEPT !.pc = "prepare"]
    <3>1. Goto(c, r) /\ r.cfg = req[c].cfg /\ r.pc = "prepare" /\ UNCHANGED <<config, sent, mixed>>
      BY <2>1, <2>3 DEF Acquire, Move, RequestState
    <3> HIDE DEF r
    <3> QED BY <3>1, EgressKeeps
  <2>4. CASE Answer(c)
    <3> DEFINE r == [req[c] EXCEPT !.pc = "allocate", !.since = Cardinality(thread[req[c].repo])]
    <3>1. Goto(c, r) /\ r.cfg = req[c].cfg /\ r.pc = "allocate" /\ UNCHANGED <<config, sent, mixed>>
      BY <2>1, <2>4 DEF Answer, RequestState
    <3> HIDE DEF r
    <3> QED BY <3>1, EgressKeeps
  <2>5. CASE Allocate(c)
    <3> DEFINE r == [req[c] EXCEPT !.pc = "insert", !.sequence = NextSequence(req[c].repo)]
    <3>1. Goto(c, r) /\ r.cfg = req[c].cfg /\ r.pc = "insert" /\ UNCHANGED <<config, sent, mixed>>
      BY <2>1, <2>5 DEF Allocate, RequestState
    <3> HIDE DEF r
    <3> QED BY <3>1, EgressKeeps
  <2>6. CASE InsertCollides(c)
    <3> DEFINE k == req[c].tries + 1
               r == [req[c] EXCEPT !.tries = k,
                       !.pc = IF GivesUp(k) THEN "lost" ELSE "allocate"]
    <3>1. Goto(c, r) /\ r.cfg = req[c].cfg /\ r.pc \in {"lost", "allocate"}
          /\ UNCHANGED <<config, sent, mixed>>
      BY <2>1, <2>6 DEF InsertCollides, RequestState
    <3> HIDE DEF r
    <3> QED BY <3>1, EgressKeeps
  <2> QED BY <1>1, <2>2, <2>3, <2>4, <2>5, <2>6, SaveCommitEgress, PrepareEgress, SendEgress
          DEF Continue
<1>2. ASSUME NEW e, Restart(e) PROVE EgressInv'
  <2>1. \A d \in Requests : CarriesOK(req'[d])
    BY <1>2, IdleCarries DEF Restart
  <2>2. \A d \in Requests : CarriesOK(req[d])'
    BY <1>2, <2>1 DEF Restart, CarriesOK
  <2> QED BY <1>2, <2>2 DEF Restart, EgressInv, SentWherePermitted, KeyToItsProvider
<1>3. ASSUME UNCHANGED <<config, req, sent, mixed>> PROVE EgressInv'
  BY <1>3 DEF EgressInv, CarriesOK, SentWherePermitted, KeyToItsProvider
<1> QED BY <1>1, <1>2, <1>3, BeginEgress
        DEF Next, Environment, DeleteRepository, ChangeName, vars

LEMMA EgressInvariant == Spec => []EgressInv
<1>1. Init => EgressInv
  <2> SUFFICES ASSUME Init PROVE EgressInv
    OBVIOUS
  <2>1. KeyOK(config) /\ \A c \in Requests : CarriesOK(req[c])
    BY IdleCarries DEF Init, KeyOK, NoConfig
  <2> QED BY <2>1 DEF Init, EgressInv, SentWherePermitted, KeyToItsProvider
<1>2. TypeInv /\ ThreadInv /\ EgressInv /\ [Next]_vars => EgressInv'
  BY NextEgress
<1> QED BY <1>1, <1>2, BaseInvariant, PTL DEF Spec

\* prepare_request checks the destination again and pins it: whatever a name
\* resolved to earlier or resolves to later, nothing is sent but to an address
\* the policy permits, under a base it lists.
THEOREM SendsArePermitted == Spec => []SentWherePermitted
<1>1. EgressInv => SentWherePermitted
  BY DEF EgressInv
<1> QED BY <1>1, EgressInvariant, PTL

\* _resolve_key and config_for_test take a stored key over for its provider
\* only: as long as no save overwrote a row it had not read, no provider is
\* ever sent the key of another.
THEOREM KeysStayWithTheirProvider == Spec => []KeyToItsProvider
<1>1. EgressInv => KeyToItsProvider
  BY DEF EgressInv
<1> QED BY <1>1, EgressInvariant, PTL

=============================================================================
