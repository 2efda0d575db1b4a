--------------------------- MODULE MirrorPipeline ---------------------------
(***************************************************************************)
(* src/ctfhoard/pipeline.py: `mirror_all`, its pool of                 *)
(* `stage_repo_isolated` producers and its single consumer.                *)
(*                                                                         *)
(* Producers clone one repo each into raw/<slug> and pack its challenges   *)
(* and its catalog shard into work/<slug>.  The consumer merges finished   *)
(* work directories into the one batch tree, publishes the tree in a       *)
(* corpus commit followed by a catalog commit, and only then appends `ok`  *)
(* records to the resume manifest.  The process may die at any point; what *)
(* survives is the disk (clones, work, staging, manifest) and the dataset. *)
(*                                                                         *)
(* A directory tree is a set of files [path, body], one per path.  In a    *)
(* corpus tree a path is an archive's path and its body the repo whose     *)
(* bytes it holds; in a catalog tree a path is the repo whose shard it is  *)
(* and its body the set of archive paths the shard's records point at.     *)
(***************************************************************************)
EXTENDS Naturals, FiniteSets

CONSTANTS
    NumRepos,    \* the list given to mirror_all, by position
    Paths,       \* archive paths, as challenge_relpath yields them
    Archives,    \* the archive paths of each repo's challenges, after _dedup
    Curated,     \* repos of seeds/official_repos.yaml
    Discovered,  \* repos of a complete discovered_repos.jsonl
    Oversize,    \* repos whose size_kb there exceeds the cap
    Workers, BatchSize, BatchBytes,
    Publish, KeepLocal, Resume,
    Faults,      \* the kinds of fault that may happen
    MaxFaults,   \* bound on the faults of a behaviour
    MaxRuns      \* bound on the number of runs (the first and its restarts)

Repos == 1..NumRepos

FaultKinds ==
    {"git", "stage", "lowdisk", "merge", "publish", "manifest", "discovery", "crash"}

ASSUME ConstantsAssumption ==
    /\ NumRepos \in Nat
    /\ Archives \in [Repos -> SUBSET Paths]
    /\ \A r \in Repos : IsFiniteSet(Archives[r])
    /\ Curated \subseteq Repos
    /\ Discovered \subseteq Repos
    /\ Oversize \subseteq Discovered
    /\ Workers \in Nat \ {0}      \* max(1, workers)
    /\ BatchSize \in Nat \ {0}    \* 0 flushes after each repo, as 1 does
    /\ BatchBytes \in Nat \ {0}
    /\ Publish \in BOOLEAN
    /\ KeepLocal \in BOOLEAN
    /\ Resume \in BOOLEAN
    /\ Faults \subseteq FaultKinds
    /\ MaxFaults \in Nat
    /\ MaxRuns \in Nat

VARIABLES
    pc,          \* what mirror_all's own thread is doing
    run,         \* number of runs started
    faults,      \* number of faults so far
    prod,        \* where each repo's future and result are
    result,      \* each repo's RepoResult of this run
    clone,       \* raw/<slug>
    work,        \* work/<slug>
    staging,     \* staging_batch
    batchBytes,
    publishedOk,
    manifest,    \* the readable records of mirror_state.jsonl
    torn,        \* its last line has no newline
    disc,        \* whether another process is rewriting discovered_repos.jsonl
    remote,      \* the dataset
    acked,       \* history: repos whose `ok` append returned
    swallowed    \* history: those whose last such record continued a torn line

vars == <<pc, run, faults, prod, result, clone, work, staging, batchBytes,
          publishedOk, manifest, torn, disc, remote, acked, swallowed>>

producerVars == <<prod, result, clone, work>>
consumerVars == <<pc, staging, batchBytes, publishedOk>>
recordVars == <<manifest, torn, acked, swallowed>>
outsideVars == <<run, disc>>

-----------------------------------------------------------------------------
(* Trees *)

ArchiveFile == [path : Paths, body : Repos]
ShardFile == [path : Repos, body : SUBSET Paths]
Tree == [corpus : SUBSET ArchiveFile, catalog : SUBSET ShardFile]
EmptyTree == [corpus |-> {}, catalog |-> {}]

PathsOf(files) == {f.path : f \in files}

(* src's files over dst's, file by file: os.replace in _merge_move, and what
   upload_folder does to the dataset. *)
Overlay(dst, src) == {f \in dst : f.path \notin PathsOf(src)} \cup src

-----------------------------------------------------------------------------
(* The run, the pool and the batch *)

Stopped == {"new", "returned", "aborted", "crashed"}
Running == {"drain", "corpus", "catalog", "record", "unwind"}

(* A producer's frames, from the pool thread taking the repo to its return. *)
Cleaning == "freeing"
InTry == {"admitted", "cloning", "resolving", "walking", "missed", "packed"}
Active == {r \in Repos : prod[r] \in InTry \cup {Cleaning}}
CloneStates == {"none", "nohead", "partial", "full", "debris"}
ProducerStates == InTry \cup {Cleaning, "out", "queued", "done", "batched", "recorded"}

Final == {"ok", "failed", "skipped", "too_big"}
Status == Final \cup {"none", "staged", "raised"}
NoResult == [status |-> "none", challenges |-> {}]

Record == [repo : Repos, status : Final, challenges : SUBSET Paths]

Batch == {r \in Repos : prod[r] = "batched"}
Settled == \A r \in Repos : prod[r] \in {"out", "batched", "recorded"}

BatchFull == Cardinality(Batch) >= BatchSize \/ batchBytes >= BatchBytes
BugNeedsFlush == BatchFull  \* a last, short batch is never flushed
NeedsFlush == BatchFull \/ (Settled /\ Batch # {})

(* Any `ok` record ever read counts; an unreadable line is passed over. *)
BugDoneOk == {m.repo : m \in {x \in manifest : x.status = "ok" /\ x.challenges # {}}}
DoneOk == {m.repo : m \in {x \in manifest : x.status = "ok"}}
Pending == IF Resume THEN Repos \ DoneOk ELSE Repos

UseFault(kind) ==
    /\ kind \in Faults
    /\ faults < MaxFaults
    /\ faults' = faults + 1

-----------------------------------------------------------------------------
(* Initial state: empty disk, empty dataset, no process. *)

Init ==
    /\ pc = "new"
    /\ run = 0
    /\ faults = 0
    /\ prod = [r \in Repos |-> "out"]
    /\ result = [r \in Repos |-> NoResult]
    /\ clone = [r \in Repos |-> "none"]
    /\ work = [r \in Repos |-> EmptyTree]
    /\ staging = EmptyTree
    /\ batchBytes = 0
    /\ publishedOk = TRUE
    /\ manifest = {}
    /\ torn = FALSE
    /\ disc = "still"
    /\ remote = EmptyTree
    /\ acked = {}
    /\ swallowed = {}

(* mirror_all's start: drop leftover staging and work trees (raw/ stays), read
   the manifest, submit every pending repo. *)
Start ==
    /\ pc \in Stopped
    /\ run < MaxRuns
    /\ pc' = "drain"
    /\ run' = run + 1
    /\ prod' = [r \in Repos |-> IF r \in Pending THEN "queued" ELSE "out"]
    /\ result' = [r \in Repos |-> NoResult]
    /\ work' = [r \in Repos |-> EmptyTree]
    /\ staging' = EmptyTree
    /\ batchBytes' = 0
    /\ publishedOk' = TRUE
    /\ UNCHANGED <<faults, clone, recordVars, disc, remote>>

-----------------------------------------------------------------------------
(* Producer: stage_repo_isolated on a pool thread *)

Goto(r, state) == prod' = [prod EXCEPT ![r] = state]
Report(r, status, challenges) ==
    result' = [result EXCEPT ![r] = [status |-> status, challenges |-> challenges]]

(* What a read of discovered_repos.jsonl may see: write_discovered truncates
   the file and fills it line by line, so during a rewrite any part of it. *)
DiscReads == IF disc = "still" THEN {Discovered} ELSE SUBSET Discovered

(* The pool's work queue is first in, first out. *)
CanStart(r) ==
    /\ pc \in Running
    /\ prod[r] = "queued"
    /\ \A q \in Repos : prod[q] = "queued" => r <= q
    /\ Cardinality(Active) < Workers

SkipLowDisk(r) ==
    /\ CanStart(r)
    /\ UseFault("lowdisk")
    /\ Goto(r, "done")
    /\ Report(r, "skipped", {})
    /\ UNCHANGED <<clone, work, consumerVars, recordVars, outsideVars, remote>>

RejectTooBig(r) ==
    /\ CanStart(r)
    /\ \E seen \in DiscReads : r \in seen \cap Oversize
    /\ Goto(r, "done")
    /\ Report(r, "too_big", {})
    /\ UNCHANGED <<faults, clone, work, consumerVars, recordVars, outsideVars, remote>>

(* The size check is outside the try: a half-written line raises out of the
   producer and stays in its future. *)
SizeCheckRaises(r) ==
    /\ CanStart(r)
    /\ disc = "rewriting"
    /\ Goto(r, "done")
    /\ Report(r, "raised", {})
    /\ UNCHANGED <<faults, clone, work, consumerVars, recordVars, outsideVars, remote>>

Admit(r) ==
    /\ CanStart(r)
    /\ \E seen \in DiscReads : r \notin seen \cap Oversize
    /\ Goto(r, "admitted")
    /\ UNCHANGED <<faults, result, clone, work, consumerVars, recordVars, outsideVars, remote>>

(* GitRepoConnector(only=[repo]): the repo must be a curated seed or a listed
   discovered repo under the cap, else there is nothing to walk. *)
KnownRepos(seen) == Curated \cup (seen \ Oversize)

(* clone_pinned clones unless raw/<slug>/.git is there. *)
HasGit(r) == clone[r] \in {"nohead", "partial", "full"}

Connect(r) ==
    /\ prod[r] = "admitted"
    /\ \E seen \in DiscReads :
          Goto(r, IF r \notin KnownRepos(seen) THEN "missed"
                  ELSE IF HasGit(r) THEN "resolving" ELSE "cloning")
    /\ UNCHANGED <<faults, result, clone, work, consumerVars, recordVars, outsideVars, remote>>

(* git clone creates .git, then HEAD, then checks the files out.  A directory
   without .git makes it fail, see CloneFails. *)
GitAdvances(r) ==
    /\ prod[r] = "cloning"
    /\ \/ /\ clone[r] = "none"
          /\ clone' = [clone EXCEPT ![r] = "nohead"]
          /\ UNCHANGED prod
       \/ /\ clone[r] = "nohead"
          /\ clone' = [clone EXCEPT ![r] = "partial"]
          /\ UNCHANGED prod
       \/ /\ clone[r] = "partial"
          /\ clone' = [clone EXCEPT ![r] = "full"]
          /\ Goto(r, "resolving")
    /\ UNCHANGED <<faults, result, work, consumerVars, recordVars, outsideVars, remote>>

(* git rev-parse HEAD *)
ResolveHead(r) ==
    /\ prod[r] = "resolving"
    /\ clone[r] # "nohead"
    /\ Goto(r, "walking")
    /\ UNCHANGED <<faults, result, clone, work, consumerVars, recordVars, outsideVars, remote>>

(* A git command fails or is killed at its timeout.  discover() logs the
   MirrorError and goes on to the next seed: there is none. *)
CloneFails(r) ==
    /\ \/ /\ prod[r] \in {"cloning", "resolving"}
          /\ UseFault("git")
       \/ /\ \/ prod[r] = "cloning" /\ clone[r] = "debris"
             \/ prod[r] = "resolving" /\ clone[r] = "nohead"
          /\ UNCHANGED faults
    /\ Goto(r, "missed")
    /\ UNCHANGED <<result, clone, work, consumerVars, recordVars, outsideVars, remote>>

(* The challenges walk_repo finds in what is checked out. *)
Walkable(r) ==
    IF prod[r] = "missed" THEN {{}}
    ELSE IF clone[r] = "full" THEN {Archives[r]} ELSE SUBSET Archives[r]

(* Walk, normalize, dedup, then materialize_and_archive each challenge. *)
Pack(r) ==
    /\ prod[r] \in {"walking", "missed"}
    /\ \E found \in Walkable(r) :
          /\ Report(r, "none", found)
          /\ work' = [work EXCEPT ![r].corpus = {[path |-> p, body |-> r] : p \in found}]
    /\ Goto(r, "packed")
    /\ UNCHANGED <<faults, clone, consumerVars, recordVars, outsideVars, remote>>

WriteShard(r) ==
    /\ prod[r] = "packed"
    /\ work' = [work EXCEPT ![r].catalog = {[path |-> r, body |-> result[r].challenges]}]
    /\ Report(r, "staged", result[r].challenges)
    /\ Goto(r, Cleaning)
    /\ UNCHANGED <<faults, clone, consumerVars, recordVars, outsideVars, remote>>

(* The except clause: anything raised in the try, a half-written discovered
   list among it, becomes a failed result and the work directory goes. *)
StageRaises(r) ==
    /\ prod[r] \in InTry
    /\ \/ UseFault("stage")
       \/ prod[r] = "admitted" /\ disc = "rewriting" /\ UNCHANGED faults
    /\ work' = [work EXCEPT ![r] = EmptyTree]
    /\ Report(r, "failed", {})
    /\ Goto(r, Cleaning)
    /\ UNCHANGED <<clone, consumerVars, recordVars, outsideVars, remote>>

(* The finally clause frees the clone, then the future completes. *)
FreeClone(r) ==
    /\ prod[r] = Cleaning
    /\ clone' = [clone EXCEPT ![r] = "none"]
    /\ Goto(r, "done")
    /\ UNCHANGED <<faults, result, work, consumerVars, recordVars, outsideVars, remote>>

-----------------------------------------------------------------------------
(* Consumer: mirror_all draining as_completed, which hands finished futures
   out in whatever order they finish *)

Draining == pc = "drain" /\ ~NeedsFlush
Finished(r, status) == prod[r] = "done" /\ result[r].status = status

(* _append_manifest.  After a torn line the new record continues it and both
   are unreadable. *)
Append(m) ==
    /\ manifest' = IF torn THEN manifest ELSE manifest \cup {m}
    /\ torn' = FALSE
    /\ IF m.status = "ok"
       THEN /\ acked' = acked \cup {m.repo}
            /\ swallowed' = IF torn THEN swallowed \cup {m.repo} ELSE swallowed \ {m.repo}
       ELSE UNCHANGED <<acked, swallowed>>

RecordOf(r, status) ==
    [repo |-> r, status |-> status, challenges |-> result[r].challenges]

MergeStaged(r) ==
    /\ Draining
    /\ Finished(r, "staged")
    /\ staging' = [corpus |-> Overlay(staging.corpus, work[r].corpus),
                   catalog |-> Overlay(staging.catalog, work[r].catalog)]
    /\ work' = [work EXCEPT ![r] = EmptyTree]
    /\ batchBytes' = batchBytes + Cardinality(work[r].corpus)
    /\ Goto(r, "batched")
    /\ UNCHANGED <<pc, faults, result, clone, publishedOk, recordVars, outsideVars, remote>>

(* A move fails (OSError) with part of the tree moved: the exception leaves
   the `with pool` block, which waits for every submitted producer. *)
MergeRaises(r) ==
    /\ Draining
    /\ Finished(r, "staged")
    /\ UseFault("merge")
    /\ \E moved \in SUBSET work[r].corpus :
          /\ staging' = [staging EXCEPT !.corpus = Overlay(@, moved)]
          /\ work' = [work EXCEPT ![r].corpus = @ \ moved]
    /\ pc' = "unwind"
    /\ UNCHANGED <<prod, result, clone, batchBytes, publishedOk, recordVars, outsideVars, remote>>

RecordUnstaged(r) ==
    /\ Draining
    /\ \E status \in {"failed", "skipped", "too_big"} :
          Finished(r, status) /\ Append(RecordOf(r, status))
    /\ Goto(r, "recorded")
    /\ UNCHANGED <<faults, result, clone, work, consumerVars, outsideVars, remote>>

(* future.result() re-raises what the producer raised. *)
ResultRaises(r) ==
    /\ Draining
    /\ Finished(r, "raised")
    /\ pc' = "unwind"
    /\ UNCHANGED <<faults, producerVars, staging, batchBytes, publishedOk, recordVars,
                   outsideVars, remote>>

(* _flush_batch *)
StartFlush ==
    /\ pc = "drain"
    /\ NeedsFlush
    /\ pc' = IF Publish /\ staging.corpus # {} THEN "corpus" ELSE "record"
    /\ publishedOk' = TRUE
    /\ UNCHANGED <<faults, producerVars, staging, batchBytes, recordVars, outsideVars, remote>>

(* upload_folder adds or replaces the folder's files in one commit. *)
CorpusCommitted == [remote EXCEPT !.corpus = Overlay(@, staging.corpus)]
CatalogCommitted == [remote EXCEPT !.catalog = Overlay(@, staging.catalog)]

PublishCorpus ==
    /\ pc = "corpus"
    /\ remote' = CorpusCommitted
    /\ pc' = "catalog"
    /\ UNCHANGED <<faults, producerVars, staging, batchBytes, publishedOk, recordVars, outsideVars>>

(* Every attempt failed as the parent sees it; a hung or killed attempt may
   have committed all the same. *)
BugPublishCorpusFails ==  \* a failed corpus commit does not stop the catalog's
    /\ pc = "corpus"
    /\ UseFault("publish")
    /\ remote' \in {remote, CorpusCommitted}
    /\ pc' = "catalog"
    /\ UNCHANGED <<producerVars, staging, batchBytes, publishedOk, recordVars, outsideVars>>

PublishCorpusFails ==
    /\ pc = "corpus"
    /\ UseFault("publish")
    /\ remote' \in {remote, CorpusCommitted}
    /\ pc' = "record"
    /\ publishedOk' = FALSE
    /\ UNCHANGED <<producerVars, staging, batchBytes, recordVars, outsideVars>>

PublishCatalog ==
    /\ pc = "catalog"
    /\ remote' = CatalogCommitted
    /\ pc' = "record"
    /\ UNCHANGED <<faults, producerVars, staging, batchBytes, publishedOk, recordVars, outsideVars>>

PublishCatalogFails ==
    /\ pc = "catalog"
    /\ UseFault("publish")
    /\ remote' \in {remote, CatalogCommitted}
    /\ pc' = "record"
    /\ publishedOk' = FALSE
    /\ UNCHANGED <<producerVars, staging, batchBytes, recordVars, outsideVars>>

BugVerdict == "ok"       \* a failed publish is only logged
BugVerdictType == IF publishedOk THEN "staged" ELSE "failed"
Verdict == IF publishedOk THEN "ok" ELSE "failed"

(* Finalize one repo of the batch (any of them: the list's order is lost). *)
RecordBatched(r) ==
    /\ pc = "record"
    /\ prod[r] = "batched"
    /\ Append(RecordOf(r, Verdict))
    /\ Report(r, Verdict, result[r].challenges)
    /\ Goto(r, "recorded")
    /\ UNCHANGED <<faults, clone, work, consumerVars, outsideVars, remote>>

(* An append writes part of its line and raises. *)
AppendRaises ==
    /\ \/ pc = "record" /\ Batch # {}
       \/ Draining /\ \E r \in Repos : \E s \in {"failed", "skipped", "too_big"} : Finished(r, s)
    /\ UseFault("manifest")
    /\ torn' = TRUE
    /\ pc' = "unwind"
    /\ UNCHANGED <<producerVars, staging, batchBytes, publishedOk, manifest, acked,
                   swallowed, outsideVars, remote>>

BugReclaims == publishedOk /\ ~KeepLocal
Reclaims == ~publishedOk \/ ~KeepLocal

BugEndFlush ==  \* the batch's bytes are not reset
    /\ pc = "record"
    /\ Batch = {}
    /\ staging' = IF Reclaims THEN EmptyTree ELSE staging
    /\ pc' = "drain"
    /\ UNCHANGED <<faults, producerVars, batchBytes, publishedOk, recordVars, outsideVars, remote>>

EndFlush ==
    /\ pc = "record"
    /\ Batch = {}
    /\ staging' = IF Reclaims THEN EmptyTree ELSE staging
    /\ batchBytes' = 0
    /\ pc' = "drain"
    /\ UNCHANGED <<faults, producerVars, publishedOk, recordVars, outsideVars, remote>>

Return ==
    /\ pc = "drain"
    /\ Settled
    /\ ~NeedsFlush
    /\ work' = [r \in Repos |-> EmptyTree]
    /\ pc' = "returned"
    /\ UNCHANGED <<faults, prod, result, clone, staging, batchBytes, publishedOk, recordVars,
                   outsideVars, remote>>

(* The pool has drained its queue; the exception leaves mirror_all. *)
Abort ==
    /\ pc = "unwind"
    /\ \A r \in Repos : prod[r] # "queued" /\ r \notin Active
    /\ pc' = "aborted"
    /\ UNCHANGED <<faults, producerVars, staging, batchBytes, publishedOk, recordVars,
                   outsideVars, remote>>

-----------------------------------------------------------------------------
(* Environment *)

(* What an interrupted rmtree of raw/<slug> may leave: all of it, the files
   without .git, nothing. *)
Residue(r) == IF prod[r] = Cleaning THEN {clone[r], "debris", "none"} ELSE {clone[r]}

(* The process and its children die; an upload in flight may still land. *)
Crash ==
    /\ pc \in Running
    /\ UseFault("crash")
    /\ pc' = "crashed"
    /\ prod' = [r \in Repos |-> "out"]
    /\ result' = [r \in Repos |-> NoResult]
    /\ clone' \in {c \in [Repos -> CloneStates] : \A r \in Repos : c[r] \in Residue(r)}
    /\ remote' \in {remote} \cup (IF pc = "corpus" THEN {CorpusCommitted} ELSE {})
                            \cup (IF pc = "catalog" THEN {CatalogCommitted} ELSE {})
    /\ UNCHANGED <<work, staging, batchBytes, publishedOk, recordVars, outsideVars>>

DiscoveryStarts ==
    /\ disc = "still"
    /\ UseFault("discovery")
    /\ disc' = "rewriting"
    /\ UNCHANGED <<producerVars, consumerVars, recordVars, run, remote>>

DiscoveryEnds ==
    /\ disc = "rewriting"
    /\ disc' = "still"
    /\ UNCHANGED <<faults, producerVars, consumerVars, recordVars, run, remote>>

-----------------------------------------------------------------------------

Producer(r) ==
    \/ SkipLowDisk(r) \/ RejectTooBig(r) \/ SizeCheckRaises(r) \/ Admit(r)
    \/ Connect(r) \/ GitAdvances(r) \/ ResolveHead(r) \/ CloneFails(r)
    \/ Pack(r) \/ WriteShard(r) \/ StageRaises(r) \/ FreeClone(r)

Consumer ==
    \/ \E r \in Repos :
          MergeStaged(r) \/ MergeRaises(r) \/ RecordUnstaged(r) \/ ResultRaises(r)
          \/ RecordBatched(r)
    \/ StartFlush \/ PublishCorpus \/ PublishCorpusFails
    \/ PublishCatalog \/ PublishCatalogFails \/ AppendRaises \/ EndFlush
    \/ Return \/ Abort

(* No run is left to start. *)
Over ==
    /\ pc \in Stopped
    /\ run = MaxRuns
    /\ UNCHANGED vars

Next ==
    \/ Start
    \/ \E r \in Repos : Producer(r)
    \/ Consumer
    \/ Crash
    \/ DiscoveryStarts
    \/ DiscoveryEnds
    \/ Over

(* Each thread is scheduled while it can run: a git command ends or is killed
   after _GIT_TIMEOUT, an upload attempt after _UPLOAD_TIMEOUT_S. *)
Fairness ==
    /\ \A r \in Repos : WF_vars(Producer(r))
    /\ WF_vars(Consumer)

Spec == Init /\ [][Next]_vars
FairSpec == Spec /\ Fairness

-----------------------------------------------------------------------------
(* Properties *)

(* The state space, and the statuses the manifest may hold: a batch member is
   settled as ok or failed before it is appended. *)
TypeOK ==
    /\ pc \in Stopped \cup Running
    /\ run \in Nat
    /\ faults \in Nat
    /\ prod \in [Repos -> ProducerStates]
    /\ result \in [Repos -> [status : Status, challenges : SUBSET Paths]]
    /\ clone \in [Repos -> CloneStates]
    /\ work \in [Repos -> Tree]
    /\ staging \in Tree
    /\ batchBytes \in Nat
    /\ publishedOk \in BOOLEAN
    /\ manifest \in SUBSET Record
    /\ torn \in BOOLEAN
    /\ disc \in {"still", "rewriting"}
    /\ remote \in Tree
    /\ acked \in SUBSET Repos
    /\ swallowed \in SUBSET Repos

(* Durability: when a repo with challenges is recorded ok in the manifest, its
   catalog shard and every archive it counted are in the dataset, whatever
   publish failed or process died in between. *)
OkImpliesPublished ==
    Publish =>
      \A m \in manifest : m.status = "ok" /\ m.challenges # {} =>
        /\ m.repo \in PathsOf(remote.catalog)
        /\ m.challenges \subseteq PathsOf(remote.corpus)

(* The dataset's catalog never points at an archive that is not there: the
   corpus commit precedes the catalog commit of the same batch, and a failure
   or a crash between them leaves archives without records, never the
   reverse. *)
CatalogNeverDangles ==
    \A s \in remote.catalog : s.body \subseteq PathsOf(remote.corpus)

(* The commit about to be made holds the batch: every member's shard and
   archives and, unless local files are kept, no other repo's shard (the
   leftovers of a failed batch or of a dead run are gone). *)
StagingIsBatch ==
    pc \in {"corpus", "catalog"} =>
      /\ Batch \subseteq PathsOf(staging.catalog)
      /\ \A r \in Batch : result[r].challenges \subseteq PathsOf(staging.corpus)
      /\ ~KeepLocal => PathsOf(staging.catalog) = Batch

(* With resume, no commit is started for a batch that holds a repo whose ok
   record has been appended, in this run or any before it, but for repos whose
   record a torn line swallowed.  pipeline.py:28 promises more, see
   NeverPublishedAgain. *)
NoDoublePublish ==
    Resume /\ pc = "corpus" => Batch \cap acked \subseteq swallowed

(* mirror_all returns only when every repo it was to process has its final
   status, and has left neither a batch nor a clone it made behind. *)
ReturnIsComplete ==
    pc = "returned" =>
      /\ \A r \in Repos :
            \/ prod[r] = "recorded" /\ result[r].status \in Final
            \/ Resume /\ r \in DoneOk
      /\ ~KeepLocal => staging = EmptyTree
      /\ \A r \in Repos : result[r].status \in {"ok", "failed"} => clone[r] = "none"

(* A run of mirror_all ends: it returns, is aborted or dies.  No producer,
   flush or drained pool waits forever. *)
RunEnds == pc \in Running ~> pc \in Stopped

-----------------------------------------------------------------------------
(* What the docs say and the code does not do *)

(* pipeline.py:25-31: a clone timeout is recorded as failed, an ok repo is
   never a gap. *)
NoSilentGap ==
    \A m \in manifest : m.status = "ok" => m.challenges = Archives[m.repo]

(* pipeline.py:28: resume is exact, never a double publish. *)
NeverPublishedAgain == Resume /\ pc = "corpus" => Batch \cap acked = {}

(* pipeline.py:527-528: at most `workers` clones/work dirs exist at once. *)
WorkDirs == {r \in Repos : work[r] # EmptyTree}
WorkDirsBounded == pc \in Running => Cardinality(WorkDirs) <= Workers

(* pipeline.py:30-31, 180, 547: a producer never raises, and nothing about one
   repo aborts the loop over the others. *)
NeverAborts == pc # "unwind"

(* pipeline.py:138, 213: curated seed repos are never size-capped. *)
SeedsNeverCapped == \A r \in Curated : result[r].status # "too_big"
=============================================================================
