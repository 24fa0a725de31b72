---------------------------- MODULE AiWorkspace ----------------------------
(***************************************************************************)
(* The AI workspace of one owner: the provider configuration               *)
(* (ai/providers/config_store.py), a question from the route to the        *)
(* provider and back (ai/orchestrator.py, ai/providers), and the threads   *)
(* (repositories/ai_conversation_repository.py).  Every statement of these *)
(* files is scoped to the caller, so that owners do not meet.              *)
(*                                                                         *)
(* A request runs in steps between which others may come: each transaction *)
(* is one, and so is each wait for the resolver or the provider.  A        *)
(* request that is refused without having changed anything has no action,  *)
(* or ends in the step that refuses it.                                    *)
(***************************************************************************)
EXTENDS EgressPolicy

CONSTANTS
    Requests,        \* concurrent requests of the owner
    Repos,           \* the owner's repositories, with a current snapshot
    Urls,            \* base URLs a user may type
    MaxRetries,      \* _MAX_SEQUENCE_RETRIES
    MaxQueries,      \* bound: questions asked
    MaxSaves,        \* bound: configurations saved, tests and model lists
    MaxChanges       \* bound: changes of the name service, restarts

ASSUME WorkspaceAssumption ==
    /\ MaxRetries \in Nat \ {0}
    /\ MaxQueries \in Nat
    /\ MaxSaves \in Nat
    /\ MaxChanges \in Nat
ASSUME InhabitedAssumption == Repos # {} /\ Addresses # {}
ASSUME UrlAssumption ==
    Urls \subseteq [scheme : STRING, host : STRING, port : Nat, path : Seq(STRING),
                    query : BOOLEAN, odd : BOOLEAN]

VARIABLES
    config,      \* the owner's row of ai_provider_configs
    repos,       \* repositories
    thread,      \* ai_conversation_messages of each repository
    dns,         \* what each name resolves to
    epoch,       \* AI_ENCRYPTION_KEY, as the number of times it was replaced
    slot,        \* requests that hold Ollama's _concurrency_limit
    req,         \* each request's local state
    sent,        \* history: what was sent, and where
    mixed,       \* history: a save overwrote a row it had not read
    asked, saved, changes   \* counters of the bounds

vars == <<config, repos, thread, dns, epoch, slot, req, sent, mixed, asked, saved,
          changes>>

outside == <<repos, dns, epoch, changes>>

-----------------------------------------------------------------------------
(* Rows and local states                                                   *)

Hosts == Fixed \cup {u.host : u \in Urls}

\* A key is known by the provider the user gave it for; a stored one also by
\* the encryption key it was stored under.
NoKey == [of |-> "none", epoch |-> 0]

Key == {NoKey} \cup [of : Providers, epoch : 0..MaxChanges]

NoConfig == [row |-> FALSE, provider |-> "ollama", key |-> NoKey, base |-> NoUrl]

Config == [row : BOOLEAN, provider : Providers, key : Key, base : Urls \cup {NoUrl}]

Message == [sequence : Nat, role : {"user", "assistant"}, query : 1..MaxQueries]

Sent == [provider : Providers, key : Key, base : Urls \cup {NoUrl}, address : Addresses]

Stages == {"idle", "write", "queue", "prepare", "send", "answer",
           "allocate", "insert", "lost"}

NoAddress == CHOOSE a \in Addresses : TRUE

\* cfg is the configuration a request goes by, read the row a save has read,
\* fresh whether it brings a key; since is the thread's length when the
\* answer came, for the properties.
RequestState ==
    [pc : Stages, kind : {"save", "query", "test", "models"}, cfg : Config,
     read : Config, fresh : BOOLEAN, repo : Repos, query : 0..MaxQueries,
     address : Addresses, sequence : Nat, tries : 0..MaxRetries, since : Nat]

Idle == [pc |-> "idle", kind |-> "save", cfg |-> NoConfig, read |-> NoConfig,
         fresh |-> FALSE, repo |-> CHOOSE r \in Repos : TRUE, query |-> 0,
         address |-> NoAddress, sequence |-> 0, tries |-> 0, since |-> 0]

Init ==
    /\ config = NoConfig
    /\ repos = Repos
    /\ thread = [r \in Repos |-> {}]
    /\ dns \in [Hosts -> {{a} : a \in Addresses}]
    /\ epoch = 0
    /\ slot = {}
    /\ req = [c \in Requests |-> Idle]
    /\ sent = {}
    /\ mixed = FALSE
    /\ asked = 0 /\ saved = 0 /\ changes = 0

At(c, pc) == req[c].pc = pc

Goto(c, state) == req' = [req EXCEPT ![c] = state]

Move(c, pc) == Goto(c, [req[c] EXCEPT !.pc = pc])

\* The slot is given back after a good answer only.
EndKeepsSlot(c) == Goto(c, Idle) /\ slot' = slot

\* A request that waits no longer gives its place away: async with.
End(c) == Goto(c, Idle) /\ slot' = slot \ {c}

-----------------------------------------------------------------------------
(* The provider configuration                                              *)

RequiresKey(provider) == provider \in Fixed

\* _decrypt_key
Decrypted(key) == IF key.epoch = epoch THEN key ELSE NoKey

\* read_config
ReadConfig == [config EXCEPT !.key = Decrypted(@)]

\* The key of whatever was saved before.
ResolvedKeyAny(provider, given, record) ==
    IF given THEN [of |-> provider, epoch |-> epoch]
    ELSE IF RequiresKey(provider) /\ record.row THEN record.key ELSE NoKey

\* _resolve_key
ResolvedKey(provider, given, record) ==
    IF given THEN [of |-> provider, epoch |-> epoch]
    ELSE IF /\ RequiresKey(provider)
            /\ record.row
            /\ record.provider = provider
         THEN record.key
    ELSE NoKey

\* save_config up to the commit: validation, then the read of the row.
Save(c, provider, given, base) ==
    LET key == ResolvedKey(provider, given, config) IN
    /\ At(c, "idle")
    /\ saved < MaxSaves
    /\ ValidConfig(provider, base, dns)
    /\ RequiresKey(provider) => key # NoKey
    /\ saved' = saved + 1
    /\ Goto(c, [Idle EXCEPT !.pc = "write", !.read = config, !.fresh = given,
           !.cfg = [row |-> TRUE, provider |-> provider, key |-> key, base |-> base]])
    /\ UNCHANGED <<config, thread, outside, slot, sent, mixed, asked>>

\* The flush writes the columns that changed since the row was read.
Written(r) ==
    [row |-> TRUE,
     provider |-> IF r.cfg.provider # r.read.provider THEN r.cfg.provider ELSE config.provider,
     key |-> IF r.fresh \/ r.cfg.key # r.read.key THEN r.cfg.key ELSE config.key,
     base |-> IF r.cfg.base # r.read.base THEN r.cfg.base ELSE config.base]

\* owner_id is unique: of two first saves one is refused.
SaveCommit(c) ==
    LET r == req[c] IN
    /\ At(c, "write")
    /\ config' = IF ~r.read.row THEN IF config.row THEN config ELSE r.cfg
                 ELSE Written(r)
    /\ mixed' = (mixed \/ (r.read.row /\ config # r.read))
    /\ End(c)
    /\ UNCHANGED <<thread, outside, sent, asked, saved>>

\* config_for_test: what is left out is taken from the saved configuration
\* of the same provider.
ForTest(provider, given, base) ==
    LET same == config.row /\ config.provider = provider IN
    [row |-> TRUE, provider |-> provider,
     key |-> IF given THEN [of |-> provider, epoch |-> epoch]
             ELSE IF same THEN Decrypted(config.key) ELSE NoKey,
     base |-> IF base = NoUrl /\ same THEN config.base ELSE base]

\* test_connection and list_models, up to the first wait.  list_models does
\* not queue for Ollama.
Test(c, kind, provider, given, base) ==
    LET cfg == ForTest(provider, given, base) IN
    /\ At(c, "idle")
    /\ saved < MaxSaves
    /\ RequiresKey(provider) => cfg.key # NoKey
    /\ saved' = saved + 1
    /\ Goto(c, [Idle EXCEPT !.kind = kind, !.cfg = cfg,
           !.pc = IF provider = "ollama" /\ kind = "test" THEN "queue" ELSE "prepare"])
    /\ UNCHANGED <<config, thread, outside, slot, sent, mixed, asked>>

-----------------------------------------------------------------------------
(* A question                                                              *)

\* query, up to the first wait.
Ask(c, r) ==
    LET cfg == ReadConfig IN
    /\ At(c, "idle")
    /\ asked < MaxQueries
    /\ r \in repos
    /\ config.row
    /\ RequiresKey(cfg.provider) => cfg.key # NoKey
    /\ asked' = asked + 1
    /\ Goto(c, [Idle EXCEPT !.kind = "query", !.cfg = cfg, !.repo = r, !.query = asked + 1,
           !.pc = IF cfg.provider = "ollama" THEN "queue" ELSE "prepare"])
    /\ UNCHANGED <<config, thread, outside, slot, sent, mixed, saved>>

\* async with _concurrency_limit: one request at a time.
Acquire(c) ==
    /\ At(c, "queue")
    /\ slot = {}
    /\ slot' = {c}
    /\ Move(c, "prepare")
    /\ UNCHANGED <<config, thread, outside, sent, mixed, asked, saved>>

\* prepare_request, in a worker thread: the destination is checked again and
\* pinned to an address.
Prepare(c) ==
    LET cfg == req[c].cfg IN
    /\ At(c, "prepare")
    /\ Prepared(cfg.provider, cfg.base, dns)
    /\ \E a \in dns[Destination(cfg.provider, cfg.base).host] :
        Goto(c, [req[c] EXCEPT !.pc = "send", !.address = a])
    /\ UNCHANGED <<config, thread, outside, slot, sent, mixed, asked, saved>>

PrepareRefused(c) ==
    /\ At(c, "prepare")
    /\ ~Prepared(req[c].cfg.provider, req[c].cfg.base, dns)
    /\ End(c)
    /\ UNCHANGED <<config, thread, outside, sent, mixed, asked, saved>>

\* What a client does that is given the name.
ConnectedByName(r) == dns[Destination(r.cfg.provider, r.cfg.base).host]

\* connection_url: the pinned address.
Connected(r) == {r.address}

\* Ollama is sent no key.
Send(c) ==
    LET r == req[c] IN
    /\ At(c, "send")
    /\ \E a \in Connected(r) :
        sent' = sent \cup {[provider |-> r.cfg.provider, base |-> r.cfg.base, address |-> a,
                   key |-> IF RequiresKey(r.cfg.provider) THEN r.cfg.key ELSE NoKey]}
    /\ Move(c, "answer")
    /\ UNCHANGED <<config, thread, outside, slot, mixed, asked, saved>>

\* The provider answers a question; append_turns begins.
Answer(c) ==
    LET r == req[c] IN
    /\ At(c, "answer")
    /\ r.kind = "query"
    /\ Goto(c, [r EXCEPT !.pc = "allocate", !.since = Cardinality(thread[r.repo])])
    /\ slot' = slot \ {c}
    /\ UNCHANGED <<config, thread, outside, sent, mixed, asked, saved>>

\* A redirect, an error status, a malformed body, a timeout or a failure to
\* connect; and every answer to a test or a model list.
AnswerEnds(c) ==
    /\ At(c, "answer")
    /\ End(c)
    /\ UNCHANGED <<config, thread, outside, sent, mixed, asked, saved>>

-----------------------------------------------------------------------------
(* The thread                                                              *)

\* _next_sequence
NextSequence(r) ==
    IF thread[r] = {} THEN 0
    ELSE 1 + CHOOSE n \in {m.sequence : m \in thread[r]} :
                 \A m \in thread[r] : m.sequence <= n

Allocate(c) ==
    /\ At(c, "allocate")
    /\ Goto(c, [req[c] EXCEPT !.pc = "insert", !.sequence = NextSequence(req[c].repo)])
    /\ UNCHANGED <<config, thread, outside, slot, sent, mixed, asked, saved>>

\* Nothing keeps two rows apart.
InsertableAlways(r) == r.repo \in repos

\* The unique constraint on the sequence and the foreign key.
Insertable(r) ==
    /\ r.repo \in repos
    /\ \A m \in thread[r.repo] : m.sequence \notin {r.sequence, r.sequence + 1}

\* _append_turns_once: both turns in one commit.
Insert(c) ==
    LET r == req[c] IN
    /\ At(c, "insert")
    /\ Insertable(r)
    /\ thread' = [thread EXCEPT ![r.repo] = @ \cup
           {[sequence |-> r.sequence, role |-> "user", query |-> r.query],
            [sequence |-> r.sequence + 1, role |-> "assistant", query |-> r.query]}]
    /\ End(c)
    /\ UNCHANGED <<config, outside, sent, mixed, asked, saved>>

\* One attempt fewer than the loop makes.
GivesUpEarly(tries) == tries + 1 >= MaxRetries

\* for _ in range(_MAX_SEQUENCE_RETRIES)
GivesUp(tries) == tries >= MaxRetries

\* IntegrityError: rolled back and tried again, a bounded number of times.
InsertCollides(c) ==
    LET r == req[c] IN
    /\ At(c, "insert")
    /\ ~Insertable(r)
    /\ Goto(c, [r EXCEPT !.tries = @ + 1,
           !.pc = IF GivesUp(r.tries + 1) THEN "lost" ELSE "allocate"])
    /\ UNCHANGED <<config, thread, outside, slot, sent, mixed, asked, saved>>

\* The exception of the last attempt is the answer: 500.
Raise(c) ==
    /\ At(c, "lost")
    /\ End(c)
    /\ UNCHANGED <<config, thread, outside, sent, mixed, asked, saved>>

-----------------------------------------------------------------------------
(* The environment                                                         *)

\* DELETE /repositories/{id}: the foreign key cascades.
DeleteRepository(r) ==
    /\ r \in repos
    /\ repos' = repos \ {r}
    /\ thread' = [thread EXCEPT ![r] = {}]
    /\ UNCHANGED <<config, dns, epoch, changes, slot, req, sent, mixed, asked, saved>>

ChangeName(h, answers) ==
    /\ changes < MaxChanges
    /\ answers # dns[h]
    /\ dns' = [dns EXCEPT ![h] = answers]
    /\ changes' = changes + 1
    /\ UNCHANGED <<config, repos, thread, epoch, slot, req, sent, mixed, asked, saved>>

\* The process starts again, perhaps with another AI_ENCRYPTION_KEY.
Restart(e) ==
    /\ changes < MaxChanges
    /\ epoch' = e
    /\ changes' = changes + 1
    /\ req' = [c \in Requests |-> Idle]
    /\ slot' = {}
    /\ UNCHANGED <<config, repos, thread, dns, sent, mixed, asked, saved>>

Begin(c) ==
    \/ \E p \in Providers, g \in BOOLEAN, b \in Urls \cup {NoUrl} :
        \/ Save(c, p, g, b)
        \/ \E k \in {"test", "models"} : Test(c, k, p, g, b)
    \/ \E r \in Repos : Ask(c, r)

Continue(c) ==
    \/ SaveCommit(c)
    \/ Acquire(c)
    \/ Prepare(c)
    \/ PrepareRefused(c)
    \/ Send(c)
    \/ Answer(c)
    \/ AnswerEnds(c)
    \/ Allocate(c)
    \/ Insert(c)
    \/ InsertCollides(c)
    \/ Raise(c)

Environment ==
    \/ \E r \in Repos : DeleteRepository(r)
    \/ \E h \in Hosts, answers \in SUBSET Addresses : ChangeName(h, answers)
    \/ \E e \in {epoch, epoch + 1} : Restart(e)

Next ==
    \/ \E c \in Requests : Begin(c) \/ Continue(c)
    \/ Environment

Spec == Init /\ [][Next]_vars

-----------------------------------------------------------------------------
(* Properties                                                              *)

\* The columns and the local variables of requests have their types.
TypeOK ==
    /\ config \in Config
    /\ repos \subseteq Repos
    /\ thread \in [Repos -> SUBSET Message]
    /\ dns \in [Hosts -> SUBSET Addresses]
    /\ epoch \in 0..MaxChanges
    /\ slot \subseteq Requests
    /\ req \in [Requests -> RequestState]
    /\ sent \subseteq Sent
    /\ mixed \in BOOLEAN

\* A thread is a run of questions, each followed at once by its own answer:
\* no gap, no half of a pair, no two pairs interleaved, whoever else was
\* writing (append_turns).
ThreadIsPairs ==
    \A r \in Repos :
        LET n == Cardinality(thread[r]) IN
        /\ {m.sequence : m \in thread[r]} = 0..(n - 1)
        /\ \A m \in thread[r] :
            /\ m.role = IF m.sequence % 2 = 0 THEN "user" ELSE "assistant"
            /\ m.role = "user" => \E a \in thread[r] :
                   a.sequence = m.sequence + 1 /\ a.query = m.query

\* An answer that the provider gave is dropped only when the repository is
\* gone or as many other pairs as there are retries came in meanwhile.
AnswerKept ==
    \A c \in Requests :
        At(c, "lost") =>
            \/ req[c].repo \notin repos
            \/ Cardinality(thread[req[c].repo]) >= req[c].since + 2 * MaxRetries

\* Whatever the names resolved to when the configuration was saved, and
\* whatever they resolve to when the connection is made, a request goes only
\* to an address that the policy allows, under a base that it lists.
SentWherePermitted ==
    \A s \in sent :
        /\ Destination(s.provider, s.base) # NoUrl
        /\ Permitted({s.address}, s.provider \notin Fixed)

\* A key goes to the provider that the user gave it for, through any sequence
\* of saves without a key, tests of other providers and changes of provider,
\* as long as no two saves overlap.
KeyToItsProvider ==
    ~mixed => \A s \in sent : s.key # NoKey => s.key.of = s.provider

\* Ollama's one slot is held by a request that is on its way to Ollama and
\* will give it back; a refusal, an error or a restart does not leave it
\* taken, which would have every later question wait for ever.
SlotNotLeaked ==
    /\ Cardinality(slot) <= 1
    /\ \A c \in slot : /\ req[c].pc \in {"prepare", "send", "answer"}
                       /\ req[c].cfg.provider = "ollama"

=============================================================================
