------------------------- MODULE RepositoryLineage -------------------------
(***************************************************************************)
(* The repositories of one owner: imports from GitHub into lineages,       *)
(* uploads, deletion, the deletion of the account and the operator's       *)
(* storage cleanup.  Modelled from                                         *)
(* repositories/repository_repository.py, services/repository_service.py,  *)
(* services/account_deletion_service.py, storage/local.py and              *)
(* scripts/cleanup_storage.py.                                             *)
(*                                                                         *)
(* One action is one transaction, one read that is used later, or one      *)
(* operation on the file system.  From its first write on, a transaction   *)
(* excludes others that write the same lineage, on both databases.  The    *)
(* lock of SELECT ... FOR UPDATE exists on PostgreSQL only: SQLite ignores *)
(* it and its driver opens a transaction at the first write.               *)
(***************************************************************************)
EXTENDS Integers, FiniteSets

CONSTANTS
    Keys,         \* canonical (source, branch) pairs
    Revisions,    \* commits
    Archives,     \* content hashes of uploads
    Requests,     \* concurrent API requests
    Cleaners,     \* running instances of cleanup_storage.py --apply
    RowLocks,     \* TRUE on PostgreSQL, FALSE on SQLite
    None,         \* SQL NULL
    MaxRepos,     \* bound: repository ids ever minted
    MaxRetries    \* _MAX_LINEAGE_RETRIES

ASSUME MaxReposAssumption == MaxRepos \in Nat \ {0}
ASSUME MaxRetriesAssumption == MaxRetries \in Nat \ {0}
ASSUME RowLocksAssumption == RowLocks \in BOOLEAN

\* NULL is no other value of a nullable column, and nobody's request.
ASSUME NullAssumption ==
    /\ None \notin Keys
    /\ None \notin Requests
    /\ None \notin (1..MaxRepos)

Ids == 1..MaxRepos

VARIABLES
    repos,      \* repositories, by id
    lineage,    \* repository_lineages, by canonical pair
    lock,       \* who holds the FOR UPDATE lock of a lineage row
    account,    \* the owner's users row
    dirs,       \* source directories under STORAGE_PATH/repositories
    req,        \* each request's local state
    cleaner     \* each cleanup's local state

vars == <<repos, lineage, lock, account, dirs, req, cleaner>>

-----------------------------------------------------------------------------
(* Rows and local states                                                   *)

\* A deleted row keeps its columns here, so that reuse can be talked about.
Repository == [state : {"free", "minted", "present", "deleted"},
               key : Keys \cup {None}, sequence : Nat,
               revision : Revisions \cup Archives \cup {None}]

FreeId == [state |-> "free", key |-> None, sequence |-> 0, revision |-> None]

Lineage == [exists : BOOLEAN, latest : Ids \cup {None}, next : Nat \ {0}]

NoLineage == [exists |-> FALSE, latest |-> None, next |-> 1]

\* found, moves and latest are what the request read and acts on later.
RequestState ==
    [pc : {"idle", "clone", "find", "allocate", "discard", "upload", "lock",
           "erase", "rmdir", "list", "expunge", "sweep"},
     id : Ids \cup {None}, key : Keys \cup {None},
     revision : Revisions \cup Archives \cup {None},
     found : BOOLEAN, tries : 0..MaxRetries, duplicate : BOOLEAN,
     moves : BOOLEAN, latest : Ids \cup {None}, paths : SUBSET Ids]

Idle == [pc |-> "idle", id |-> None, key |-> None, revision |-> None,
         found |-> FALSE, tries |-> 0, duplicate |-> FALSE, moves |-> FALSE,
         latest |-> None, paths |-> {}]

CleanerState == [pc : {"idle", "scan", "apply"}, ids : SUBSET Ids]

TypeOK ==
    /\ repos \in [Ids -> Repository]
    /\ lineage \in [Keys -> Lineage]
    /\ lock \in [Keys -> Requests \cup {None}]
    /\ account \in {"active", "gone"}
    /\ dirs \subseteq Ids
    /\ req \in [Requests -> RequestState]
    /\ cleaner \in [Cleaners -> CleanerState]

Init ==
    /\ repos = [i \in Ids |-> FreeId]
    /\ lineage = [k \in Keys |-> NoLineage]
    /\ lock = [k \in Keys |-> None]
    /\ account = "active"
    /\ dirs = {}
    /\ req = [c \in Requests |-> Idle]
    /\ cleaner = [m \in Cleaners |-> [pc |-> "idle", ids |-> {}]]

Present == {i \in Ids : repos[i].state = "present"}

Members(k) == {i \in Present : repos[i].key = k}

\* list_lineage_members, first row; also the order of the rollback query.
Newest(S) == IF S = {} THEN None
             ELSE CHOOSE i \in S : \A h \in S : repos[h].sequence <= repos[i].sequence

\* uuid4 gives an id that no repository ever had; the order of ids means nothing.
Minting(i) == /\ repos[i].state = "free"
              /\ \A h \in Ids : h < i => repos[h].state # "free"

Goto(c, pc) == req' = [req EXCEPT ![c].pc = pc]

End(c) == req' = [req EXCEPT ![c] = Idle]

-----------------------------------------------------------------------------
(* Import from GitHub                                                      *)

\* A fresh id and its empty directory.
BeginImport(c, k) ==
    /\ req[c].pc = "idle"
    /\ account = "active"
    /\ \E i \in Ids :
         /\ Minting(i)
         /\ repos' = [repos EXCEPT ![i].state = "minted"]
         /\ dirs' = dirs \cup {i}
         /\ req' = [req EXCEPT ![c] = [Idle EXCEPT !.pc = "clone", !.id = i, !.key = k]]
    /\ UNCHANGED <<lineage, lock, account, cleaner>>

Import(c, k) == BeginImport(c, k)

\* A re-analysis imports when the remote head is not the lineage's newest
\* revision; the branch may move again before the clone.
Reanalyse(c, i) ==
    /\ i \in Present /\ repos[i].key # None
    /\ \E head \in Revisions : head # repos[Newest(Members(repos[i].key))].revision
    /\ BeginImport(c, repos[i].key)

\* The clone fixes the revision.
Clone(c, v) ==
    /\ req[c].pc = "clone"
    /\ req' = [req EXCEPT ![c].pc = "find", ![c].revision = v]
    /\ UNCHANGED <<repos, lineage, lock, account, dirs, cleaner>>

\* Cloning, parsing or validating fails.
CloneFails(c) ==
    /\ req[c].pc = "clone"
    /\ Goto(c, "discard")
    /\ UNCHANGED <<repos, lineage, lock, account, dirs, cleaner>>

\* Mutant: the lookup misses the lineage that exists.
FindStale(c) ==
    /\ req[c].pc = "find"
    /\ req' = [req EXCEPT ![c].pc = "allocate", ![c].found = FALSE]
    /\ UNCHANGED <<repos, lineage, lock, account, dirs, cleaner>>

\* The lineage of the canonical pair, as far as it has been committed.
FindLineage(c) ==
    /\ req[c].pc = "find"
    /\ req' = [req EXCEPT ![c].pc = "allocate", ![c].found = lineage[req[c].key].exists]
    /\ UNCHANGED <<repos, lineage, lock, account, dirs, cleaner>>

\* The INSERT of a lineage hits the canonical index or misses its owner.
InsertRefused(c) == ~req[c].found /\ (lineage[req[c].key].exists \/ account = "gone")

\* IntegrityError: roll back and start again, a bounded number of times.
RetryAllocate(c) ==
    /\ req[c].pc = "allocate"
    /\ InsertRefused(c)
    /\ req' = [req EXCEPT ![c].tries = @ + 1,
                  ![c].pc = IF req[c].tries + 1 < MaxRetries THEN "find" ELSE "discard"]
    /\ UNCHANGED <<repos, lineage, lock, account, dirs, cleaner>>

\* The lineage that was found has gone with the account.
LineageVanished(c) ==
    /\ req[c].pc = "allocate"
    /\ req[c].found /\ ~lineage[req[c].key].exists
    /\ Goto(c, "discard")
    /\ UNCHANGED <<repos, lineage, lock, account, dirs, cleaner>>

\* The counter's UPDATE takes the write lock, so it waits for a FOR UPDATE.
Allocating(c) ==
    /\ req[c].pc = "allocate"
    /\ req[c].found <=> lineage[req[c].key].exists
    /\ account = "active"
    /\ lock[req[c].key] = None

Known(c) == \E i \in Members(req[c].key) : repos[i].revision = req[c].revision

\* The lineage holds the revision already: the allocation is rolled back.
Duplicate(c) ==
    /\ Allocating(c)
    /\ Known(c)
    /\ req' = [req EXCEPT ![c].pc = "discard", ![c].duplicate = TRUE]
    /\ UNCHANGED <<repos, lineage, lock, account, dirs, cleaner>>

\* Mutants: sequence numbers are counted instead of issued; the duplicate check
\* is missing.
AllocateKeepsCounter(c) ==
    LET k == req[c].key IN
    /\ Allocating(c) /\ ~Known(c)
    /\ repos' = [repos EXCEPT ![req[c].id] =
            [state |-> "present", key |-> k, sequence |-> Cardinality(Members(k)) + 1,
             revision |-> req[c].revision]]
    /\ lineage' = [lineage EXCEPT ![k] =
            [exists |-> TRUE, latest |-> req[c].id, next |-> @.next]]
    /\ End(c)
    /\ UNCHANGED <<lock, account, dirs, cleaner>>

AllocateUnchecked(c) ==
    LET k == req[c].key IN
    /\ Allocating(c)
    /\ repos' = [repos EXCEPT ![req[c].id] =
            [state |-> "present", key |-> k, sequence |-> lineage[k].next,
             revision |-> req[c].revision]]
    /\ lineage' = [lineage EXCEPT ![k] =
            [exists |-> TRUE, latest |-> req[c].id, next |-> @.next + 1]]
    /\ End(c)
    /\ UNCHANGED <<lock, account, dirs, cleaner>>

\* Lineage, counter, repository row and latest pointer commit together.
Allocate(c) ==
    LET k == req[c].key IN
    /\ Allocating(c)
    /\ ~Known(c)
    /\ repos' = [repos EXCEPT ![req[c].id] =
            [state |-> "present", key |-> k, sequence |-> lineage[k].next,
             revision |-> req[c].revision]]
    /\ lineage' = [lineage EXCEPT ![k] =
            [exists |-> TRUE, latest |-> req[c].id, next |-> @.next + 1]]
    /\ End(c)
    /\ UNCHANGED <<lock, account, dirs, cleaner>>

\* A failed import removes its directory.
Discard(c) ==
    /\ req[c].pc = "discard"
    /\ dirs' = dirs \ {req[c].id}
    /\ End(c)
    /\ UNCHANGED <<repos, lineage, lock, account, cleaner>>

-----------------------------------------------------------------------------
(* Upload                                                                  *)

Uploaded(u) == \E i \in Present : repos[i].revision = u

\* The duplicate check; the archive is unpacked when it finds nothing.
Upload(c, u) ==
    /\ req[c].pc = "idle"
    /\ account = "active"
    /\ ~Uploaded(u)
    /\ \E i \in Ids :
         /\ Minting(i)
         /\ repos' = [repos EXCEPT ![i].state = "minted"]
         /\ dirs' = dirs \cup {i}
         /\ req' = [req EXCEPT ![c] = [Idle EXCEPT !.pc = "upload", !.id = i, !.revision = u]]
    /\ UNCHANGED <<lineage, lock, account, cleaner>>

\* The archive cannot be unpacked or holds no file.
UploadFails(c) ==
    /\ req[c].pc = "upload"
    /\ Goto(c, "discard")
    /\ UNCHANGED <<repos, lineage, lock, account, dirs, cleaner>>

\* The row is added outside of the handler that would remove the directory.
UploadAdd(c) ==
    /\ req[c].pc = "upload"
    /\ repos' = IF account = "active"
                THEN [repos EXCEPT ![req[c].id] =
                        [state |-> "present", key |-> None, sequence |-> 0,
                         revision |-> req[c].revision]]
                ELSE repos
    /\ End(c)
    /\ UNCHANGED <<lineage, lock, account, dirs, cleaner>>

-----------------------------------------------------------------------------
(* Deletion of a repository                                                *)

\* Mutant: the directory goes first.
DeleteSourceFirst(c, i) ==
    /\ req[c].pc = "idle"
    /\ i \in Present
    /\ dirs' = dirs \ {i}
    /\ req' = [req EXCEPT ![c] = [Idle EXCEPT !.pc = "lock", !.id = i, !.key = repos[i].key]]
    /\ UNCHANGED <<repos, lineage, lock, account, cleaner>>

\* The record is loaded first.
Delete(c, i) ==
    /\ req[c].pc = "idle"
    /\ i \in Present
    /\ req' = [req EXCEPT ![c] = [Idle EXCEPT !.pc = "lock", !.id = i, !.key = repos[i].key]]
    /\ UNCHANGED <<repos, lineage, lock, account, dirs, cleaner>>

\* A standalone repository has no pointer to roll back.
DeleteStandalone(c) ==
    /\ req[c].pc = "lock"
    /\ req[c].key = None
    /\ Goto(c, "erase")
    /\ UNCHANGED <<repos, lineage, lock, account, dirs, cleaner>>

\* Mutant: the FOR UPDATE is missing.
LockForgotten(c) ==
    LET k == req[c].key IN
    /\ req[c].pc = "lock"
    /\ k # None
    /\ IF lineage[k].exists
       THEN req' = [req EXCEPT ![c].pc = "erase",
                       ![c].moves = lineage[k].latest = req[c].id,
                       ![c].latest = Newest(Members(k) \ {req[c].id})]
       ELSE End(c)
    /\ UNCHANGED <<repos, lineage, lock, account, dirs, cleaner>>

\* SELECT ... FOR UPDATE, and the survivor the pointer would move to.
LockLineage(c) ==
    LET k == req[c].key IN
    /\ req[c].pc = "lock"
    /\ k # None
    /\ lock[k] = None
    /\ IF lineage[k].exists
       THEN /\ req' = [req EXCEPT ![c].pc = "erase",
                          ![c].moves = lineage[k].latest = req[c].id,
                          ![c].latest = Newest(Members(k) \ {req[c].id})]
            /\ lock' = [lock EXCEPT ![k] = IF RowLocks THEN c ELSE None]
       ELSE /\ End(c)                       \* scalar_one raises
            /\ UNCHANGED lock
    /\ UNCHANGED <<repos, lineage, account, dirs, cleaner>>

Unlocked(c) == [k \in Keys |-> IF lock[k] = c THEN None ELSE lock[k]]

\* The pointer's value at commit.
Pointer(c) == IF req[c].moves THEN req[c].latest ELSE lineage[req[c].key].latest

\* The pointer's row is gone, or the deferred foreign key finds it dangling.
EraseRefused(c) ==
    /\ req[c].key # None
    /\ \/ req[c].moves /\ ~lineage[req[c].key].exists
       \/ Pointer(c) # None /\ Pointer(c) \notin Present \ {req[c].id}

\* Pointer and row change together; a row that is gone already is no error.
Erase(c) ==
    /\ req[c].pc = "erase"
    /\ ~EraseRefused(c)
    /\ repos' = IF req[c].id \in Present
                THEN [repos EXCEPT ![req[c].id].state = "deleted"] ELSE repos
    /\ lineage' = IF req[c].key = None THEN lineage
                  ELSE [lineage EXCEPT ![req[c].key].latest = Pointer(c)]
    /\ lock' = Unlocked(c)
    /\ Goto(c, "rmdir")
    /\ UNCHANGED <<account, dirs, cleaner>>

EraseRaises(c) ==
    /\ req[c].pc = "erase"
    /\ EraseRefused(c)
    /\ lock' = Unlocked(c)
    /\ End(c)
    /\ UNCHANGED <<repos, lineage, account, dirs, cleaner>>

\* Only a committed deletion removes the directory.
RemoveSource(c) ==
    /\ req[c].pc = "rmdir"
    /\ dirs' = dirs \ {req[c].id}
    /\ End(c)
    /\ UNCHANGED <<repos, lineage, lock, account, cleaner>>

-----------------------------------------------------------------------------
(* Deletion of the account                                                 *)

\* The audit row is committed first.
DeleteAccount(c) ==
    /\ req[c].pc = "idle"
    /\ account = "active"
    /\ req' = [req EXCEPT ![c] = [Idle EXCEPT !.pc = "list"]]
    /\ UNCHANGED <<repos, lineage, lock, account, dirs, cleaner>>

\* The directories to remove are read before the rows that name them go.
ListSources(c) ==
    /\ req[c].pc = "list"
    /\ req' = [req EXCEPT ![c].pc = "expunge", ![c].paths = Present]
    /\ UNCHANGED <<repos, lineage, lock, account, dirs, cleaner>>

\* The user row and, by cascade, every lineage and repository of the owner.
Expunge(c) ==
    /\ req[c].pc = "expunge"
    /\ \A k \in Keys : lock[k] = None
    /\ account' = "gone"
    /\ repos' = [i \in Ids |-> IF i \in Present THEN [repos[i] EXCEPT !.state = "deleted"]
                               ELSE repos[i]]
    /\ lineage' = [k \in Keys |-> NoLineage]
    /\ Goto(c, "sweep")
    /\ UNCHANGED <<lock, dirs, cleaner>>

\* The transaction fails: it is rolled back and the audit row says so.
ExpungeFails(c) ==
    /\ req[c].pc = "expunge"
    /\ End(c)
    /\ UNCHANGED <<repos, lineage, lock, account, dirs, cleaner>>

RemoveSources(c) ==
    /\ req[c].pc = "sweep"
    /\ dirs' = dirs \ req[c].paths
    /\ End(c)
    /\ UNCHANGED <<repos, lineage, lock, account, cleaner>>

-----------------------------------------------------------------------------
(* Crashes and the cleanup script                                          *)

\* The connection of a request that dies is closed: its lock is released.
Crash(c) ==
    /\ req[c].pc # "idle"
    /\ lock' = Unlocked(c)
    /\ End(c)
    /\ UNCHANGED <<repos, lineage, account, dirs, cleaner>>

\* cleanup_storage.py reads the known ids, lists the directories, and removes
\* those it holds for orphans.
CleanerKnown(m) ==
    /\ cleaner[m].pc = "idle"
    /\ cleaner' = [cleaner EXCEPT ![m] = [pc |-> "scan", ids |-> Present]]
    /\ UNCHANGED <<repos, lineage, lock, account, dirs, req>>

CleanerScan(m) ==
    /\ cleaner[m].pc = "scan"
    /\ cleaner' = [cleaner EXCEPT ![m] = [pc |-> "apply", ids |-> dirs \ @.ids]]
    /\ UNCHANGED <<repos, lineage, lock, account, dirs, req>>

CleanerApply(m) ==
    /\ cleaner[m].pc = "apply"
    /\ dirs' = dirs \ cleaner[m].ids
    /\ cleaner' = [cleaner EXCEPT ![m] = [pc |-> "idle", ids |-> {}]]
    /\ UNCHANGED <<repos, lineage, lock, account, req>>

-----------------------------------------------------------------------------
(* The specification                                                       *)

ImportStep(c) ==
    \/ \E k \in Keys : Import(c, k)
    \/ \E i \in Ids : Reanalyse(c, i)
    \/ \E v \in Revisions : Clone(c, v)
    \/ CloneFails(c) \/ FindLineage(c) \/ RetryAllocate(c) \/ LineageVanished(c)
    \/ Duplicate(c) \/ Allocate(c) \/ Discard(c)

UploadStep(c) == (\E u \in Archives : Upload(c, u)) \/ UploadFails(c) \/ UploadAdd(c)

DeleteStep(c) ==
    \/ \E i \in Ids : Delete(c, i)
    \/ DeleteStandalone(c) \/ LockLineage(c) \/ Erase(c) \/ EraseRaises(c)
    \/ RemoveSource(c)

AccountStep(c) ==
    DeleteAccount(c) \/ ListSources(c) \/ Expunge(c) \/ ExpungeFails(c) \/ RemoveSources(c)

CleanerStep(m) == CleanerKnown(m) \/ CleanerScan(m) \/ CleanerApply(m)

Next ==
    \/ \E c \in Requests : ImportStep(c) \/ UploadStep(c) \/ DeleteStep(c)
                           \/ AccountStep(c) \/ Crash(c)
    \/ \E m \in Cleaners : CleanerStep(m)

Spec == Init /\ [][Next]_vars

-----------------------------------------------------------------------------
(* Properties                                                              *)

\* A sequence number of a lineage is issued once, whatever was deleted since,
\* and every number to come is greater.
SequencesNeverReused ==
    /\ \A i, h \in Ids : /\ i # h
                         /\ repos[i].key # None
                         /\ repos[i].key = repos[h].key
                         => repos[i].sequence # repos[h].sequence
    /\ \A k \in Keys, i \in Ids :
         lineage[k].exists /\ repos[i].key = k => repos[i].sequence < lineage[k].next

\* A revision is at most once in a lineage, however imports of it race.
RevisionOnce ==
    \A i, h \in Present : /\ repos[i].key # None
                          /\ repos[i].key = repos[h].key
                          /\ repos[i].revision = repos[h].revision
                          => i = h

\* The latest pointer is at the surviving member with the greatest sequence
\* number, whatever imports and deletions run side by side.
LatestIsNewest ==
    \A k \in Keys : lineage[k].exists => lineage[k].latest = Newest(Members(k))

\* A repository that exists has its source directory: imports create it first,
\* deletions remove it last, and neither touches another's.
PresentHasSource == Present \subseteq dirs

\* The bounded retry never runs out while the account exists: an import that
\* lost the race for a new lineage finds the winner's the next time.
RetriesSuffice ==
    \A c \in Requests : account = "active" => req[c].tries <= 1

=============================================================================
