----------------------- MODULE MirrorPipelineProofs -------------------------
(***************************************************************************)
(* Theorems about MirrorPipeline for any number of repos, workers, batch   *)
(* limits, faults and restarts.                                            *)
(***************************************************************************)
EXTENDS MirrorPipeline, FiniteSetTheorems, TLAPS

(* A producer's work tree is finite, so its size is a number. *)
WorkFinite == \A r \in Repos : IsFiniteSet(work[r].corpus)

TypeInv == TypeOK /\ WorkFinite

LEMMA InitTypeInv == Init => TypeInv
  <1> SUFFICES ASSUME Init PROVE TypeInv
    OBVIOUS
  <1>1. EmptyTree \in Tree /\ IsFiniteSet(EmptyTree.corpus)
    BY FS_EmptySet DEF EmptyTree, Tree
  <1>2. NoResult \in [status : Status, challenges : SUBSET Paths]
    BY DEF NoResult, Status, Final
  <1> QED
    BY <1>1, <1>2 DEF Init, TypeInv, TypeOK, WorkFinite, Stopped, Running,
       ProducerStates, CloneStates

(* What Overlay does to the paths of a tree. *)
LEMMA OverlayPaths ==
  ASSUME NEW dst, NEW src
  PROVE  PathsOf(Overlay(dst, src)) = PathsOf(dst) \cup PathsOf(src)
  BY DEF PathsOf, Overlay

LEMMA OverlayType ==
  ASSUME NEW S, NEW dst \in SUBSET S, NEW src \in SUBSET S
  PROVE  Overlay(dst, src) \in SUBSET S
  BY DEF Overlay

LEMMA CommitType ==
  ASSUME TypeOK
  PROVE  CorpusCommitted \in Tree /\ CatalogCommitted \in Tree
  <1>1. Overlay(remote.corpus, staging.corpus) \in SUBSET ArchiveFile
    BY OverlayType DEF TypeOK, Tree
  <1>2. Overlay(remote.catalog, staging.catalog) \in SUBSET ShardFile
    BY OverlayType DEF TypeOK, Tree
  <1> QED
    BY <1>1, <1>2 DEF TypeOK, Tree, CorpusCommitted, CatalogCommitted

LEMMA FilesFinite ==
  ASSUME NEW found, IsFiniteSet(found), NEW r
  PROVE  IsFiniteSet({[path |-> p, body |-> r] : p \in found})
  <1> DEFINE files == {[path |-> p, body |-> r] : p \in found}
  <1> DEFINE f == [p \in found |-> [path |-> p, body |-> r]]
  <1>1. f \in Surjection(found, files)
    BY DEF Surjection
  <1> QED
    BY <1>1, FS_Surjection DEF ExistsSurjection

(* The producer's steps. *)
LEMMA ProducerTypeInv ==
  ASSUME TypeInv, NEW r \in Repos, Producer(r)
  PROVE  TypeInv'
  <1> USE DEF TypeInv, TypeOK, WorkFinite
  <1> USE DEF producerVars, consumerVars, recordVars, outsideVars, Goto, Report
  <1>1. CASE SkipLowDisk(r)
    BY <1>1 DEF SkipLowDisk, UseFault, ProducerStates, Status, Final
  <1>2. CASE RejectTooBig(r)
    BY <1>2 DEF RejectTooBig, ProducerStates, Status, Final
  <1>3. CASE SizeCheckRaises(r)
    BY <1>3 DEF SizeCheckRaises, ProducerStates, Status, Final
  <1>4. CASE Admit(r)
    BY <1>4 DEF Admit, ProducerStates, InTry
  <1>5. CASE Connect(r)
    BY <1>5 DEF Connect, ProducerStates, InTry
  <1>6. CASE GitAdvances(r)
    BY <1>6 DEF GitAdvances, ProducerStates, InTry, CloneStates
  <1>7. CASE ResolveHead(r)
    BY <1>7 DEF ResolveHead, ProducerStates, InTry
  <1>8. CASE CloneFails(r)
    BY <1>8 DEF CloneFails, UseFault, ProducerStates, InTry
  <1>9. CASE Pack(r)
    <2>1. PICK found \in Walkable(r) :
            /\ Report(r, "none", found)
            /\ work' = [work EXCEPT ![r].corpus = {[path |-> p, body |-> r] : p \in found}]
      BY <1>9 DEF Pack
    <2>2. found \in SUBSET Archives[r] /\ Archives[r] \in SUBSET Paths
      BY <2>1, ConstantsAssumption DEF Walkable
    <2>3. IsFiniteSet(found)
      BY <2>2, FS_Subset, ConstantsAssumption
    <2>a. IsFiniteSet({[path |-> p, body |-> r] : p \in found})
      BY ONLY <2>3, FilesFinite, r \in Repos
    <2> DEFINE files == {[path |-> p, body |-> r] : p \in found}
    <2>4. IsFiniteSet(files)
      BY <2>a
    <2>5. files \in SUBSET ArchiveFile
      BY <2>2 DEF ArchiveFile
    <2>6. work' \in [Repos -> Tree] /\ \A q \in Repos : IsFiniteSet(work'[q].corpus)
      BY <2>1, <2>4, <2>5 DEF Tree
    <2>7. result' \in [Repos -> [status : Status, challenges : SUBSET Paths]]
      BY <2>1, <2>2 DEF Status
    <2> QED
      BY <1>9, <2>6, <2>7 DEF Pack, ProducerStates, InTry
  <1>10. CASE WriteShard(r)
    <2> DEFINE shard == {[path |-> r, body |-> result[r].challenges]}
    <2>1. shard \in SUBSET ShardFile
      BY DEF ShardFile
    <2>2. work' = [work EXCEPT ![r].catalog = shard]
      BY <1>10 DEF WriteShard
    <2> HIDE DEF shard
    <2>3. work' \in [Repos -> Tree] /\ \A q \in Repos : IsFiniteSet(work'[q].corpus)
      BY <2>1, <2>2 DEF Tree
    <2> QED
      BY <1>10, <2>3 DEF WriteShard, ProducerStates, Cleaning, Status
  <1>11. CASE StageRaises(r)
    <2>1. EmptyTree \in Tree /\ IsFiniteSet(EmptyTree.corpus)
      BY FS_EmptySet DEF EmptyTree, Tree
    <2> QED
      BY <1>11, <2>1 DEF StageRaises, UseFault, ProducerStates, Cleaning, Status, Final
  <1>12. CASE FreeClone(r)
    BY <1>12 DEF FreeClone, ProducerStates, CloneStates
  <1> QED
    BY <1>1, <1>2, <1>3, <1>4, <1>5, <1>6, <1>7, <1>8, <1>9, <1>10, <1>11, <1>12
    DEF Producer

(* The consumer's steps. *)
LEMMA FaultType ==
  ASSUME TypeInv, NEW kind, UseFault(kind)
  PROVE  faults' \in Nat
  BY DEF TypeInv, TypeOK, UseFault

LEMMA AppendType ==
  ASSUME TypeInv, NEW m \in Record, Append(m)
  PROVE  manifest' \in SUBSET Record /\ torn' \in BOOLEAN
         /\ acked' \in SUBSET Repos /\ swallowed' \in SUBSET Repos
  BY DEF TypeInv, TypeOK, Append, Record

LEMMA RecordOfType ==
  ASSUME TypeInv, NEW r \in Repos, NEW status \in Final
  PROVE  RecordOf(r, status) \in Record
  BY DEF TypeInv, TypeOK, RecordOf, Record

LEMMA ConsumerTypeInv ==
  ASSUME TypeInv, Consumer
  PROVE  TypeInv'
  <1> USE DEF TypeInv, TypeOK, WorkFinite
  <1> USE DEF producerVars, consumerVars, recordVars, outsideVars, Goto, Report
  <1>0. EmptyTree \in Tree /\ IsFiniteSet(EmptyTree.corpus)
    BY FS_EmptySet DEF EmptyTree, Tree
  <1>1. ASSUME NEW r \in Repos, MergeStaged(r) PROVE TypeInv'
    <2>1. work[r] \in Tree /\ IsFiniteSet(work[r].corpus)
      OBVIOUS
    <2>2. Overlay(staging.corpus, work[r].corpus) \in SUBSET ArchiveFile
      BY <2>1, OverlayType DEF Tree
    <2>3. Overlay(staging.catalog, work[r].catalog) \in SUBSET ShardFile
      BY <2>1, OverlayType DEF Tree
    <2>4. staging' \in Tree
      BY <1>1, <2>2, <2>3 DEF MergeStaged, Tree
    <2>5. batchBytes' \in Nat
      BY <1>1, <2>1, FS_CardinalityType DEF MergeStaged
    <2>6. work' \in [Repos -> Tree] /\ \A q \in Repos : IsFiniteSet(work'[q].corpus)
      BY <1>0, <1>1 DEF MergeStaged
    <2> QED
      BY <1>1, <2>4, <2>5, <2>6 DEF MergeStaged, ProducerStates
  <1>2. ASSUME NEW r \in Repos, MergeRaises(r) PROVE TypeInv'
    <2>1. PICK moved \in SUBSET work[r].corpus :
            /\ staging' = [staging EXCEPT !.corpus = Overlay(@, moved)]
            /\ work' = [work EXCEPT ![r].corpus = @ \ moved]
      BY <1>2 DEF MergeRaises
    <2>2. moved \in SUBSET ArchiveFile
      BY <2>1 DEF Tree
    <2>3. Overlay(staging.corpus, moved) \in SUBSET ArchiveFile
      BY <2>2, OverlayType DEF Tree
    <2>4. staging' \in Tree
      BY <2>1, <2>3 DEF Tree
    <2>5. IsFiniteSet(work[r].corpus \ moved)
      BY FS_Difference
    <2>6. work' \in [Repos -> Tree] /\ \A q \in Repos : IsFiniteSet(work'[q].corpus)
      BY <2>1, <2>5 DEF Tree
    <2> QED
      BY <1>2, <2>4, <2>6, FaultType DEF MergeRaises, Running
  <1>3. ASSUME NEW r \in Repos, RecordUnstaged(r) PROVE TypeInv'
    <2>1. PICK status \in {"failed", "skipped", "too_big"} : Append(RecordOf(r, status))
      BY <1>3 DEF RecordUnstaged
    <2>2. RecordOf(r, status) \in Record
      BY RecordOfType DEF Final
    <2>3. manifest' \in SUBSET Record /\ torn' \in BOOLEAN
         /\ acked' \in SUBSET Repos /\ swallowed' \in SUBSET Repos
      BY <2>1, <2>2, AppendType
    <2> QED
      BY <1>3, <2>3 DEF RecordUnstaged, ProducerStates
  <1>4. ASSUME NEW r \in Repos, ResultRaises(r) PROVE TypeInv'
    BY <1>4 DEF ResultRaises, Running
  <1>5. ASSUME NEW r \in Repos, RecordBatched(r) PROVE TypeInv'
    <2>1. Verdict \in Final
      BY DEF Verdict, Final
    <2>2. RecordOf(r, Verdict) \in Record
      BY <2>1, RecordOfType
    <2>3. manifest' \in SUBSET Record /\ torn' \in BOOLEAN
         /\ acked' \in SUBSET Repos /\ swallowed' \in SUBSET Repos
      BY <1>5, <2>2, AppendType DEF RecordBatched
    <2> QED
      BY <1>5, <2>1, <2>3 DEF RecordBatched, ProducerStates, Status
  <1>6. CASE StartFlush
    BY <1>6 DEF StartFlush, Running
  <1>7. CASE PublishCorpus
    BY <1>7, CommitType DEF PublishCorpus, Running
  <1>8. CASE PublishCorpusFails
    <2>1. remote' \in Tree
      BY <1>8, CommitType DEF PublishCorpusFails
    <2> QED
      BY <1>8, <2>1, FaultType DEF PublishCorpusFails, Running
  <1>9. CASE PublishCatalog
    BY <1>9, CommitType DEF PublishCatalog, Running
  <1>10. CASE PublishCatalogFails
    <2>1. remote' \in Tree
      BY <1>10, CommitType DEF PublishCatalogFails
    <2> QED
      BY <1>10, <2>1, FaultType DEF PublishCatalogFails, Running
  <1>11. CASE AppendRaises
    BY <1>11 DEF AppendRaises, UseFault, Running
  <1>12. CASE EndFlush
    BY <1>0, <1>12 DEF EndFlush, Running
  <1>13. CASE Return
    BY <1>0, <1>13 DEF Return, Stopped
  <1>14. CASE Abort
    BY <1>14 DEF Abort, Stopped
  <1> QED
    BY <1>1, <1>2, <1>3, <1>4, <1>5, <1>6, <1>7, <1>8, <1>9, <1>10, <1>11, <1>12,
       <1>13, <1>14 DEF Consumer

LEMMA NextTypeInv ==
  ASSUME TypeInv, [Next]_vars
  PROVE  TypeInv'
  <1> USE DEF TypeInv, TypeOK, WorkFinite
  <1> USE DEF producerVars, consumerVars, recordVars, outsideVars
  <1>0. EmptyTree \in Tree /\ IsFiniteSet(EmptyTree.corpus)
    BY FS_EmptySet DEF EmptyTree, Tree
  <1>1. NoResult \in [status : Status, challenges : SUBSET Paths]
    BY DEF NoResult, Status
  <1>2. CASE Start
    BY <1>0, <1>1, <1>2 DEF Start, Running, ProducerStates
  <1>3. ASSUME NEW r \in Repos, Producer(r) PROVE TypeInv'
    BY <1>3, ProducerTypeInv
  <1>4. CASE Consumer
    BY <1>4, ConsumerTypeInv
  <1>5. CASE Crash
    BY <1>1, <1>5, CommitType DEF Crash, UseFault, Stopped, ProducerStates
  <1>6. CASE DiscoveryStarts
    BY <1>6 DEF DiscoveryStarts, UseFault
  <1>7. CASE DiscoveryEnds
    BY <1>7 DEF DiscoveryEnds
  <1>8. CASE UNCHANGED vars
    BY <1>8 DEF vars
  <1> QED
    BY <1>2, <1>3, <1>4, <1>5, <1>6, <1>7, <1>8 DEF Next, Over

(* Every reachable state has the types TypeOK gives: in particular no repo is
   ever appended to the manifest while still "staged". *)
THEOREM TypeCorrect == Spec => []TypeOK
  <1>1. Init => TypeInv
    BY InitTypeInv
  <1>2. TypeInv /\ [Next]_vars => TypeInv'
    BY NextTypeInv
  <1>3. TypeInv => TypeOK
    BY DEF TypeInv
  <1> QED
    BY <1>1, <1>2, <1>3, PTL DEF Spec

-----------------------------------------------------------------------------
(* Durability: the inductive invariant behind OkImpliesPublished *)

(* A packed work tree holds the repo's archives, a staged one its shard too. *)
WorkMatches ==
    \A r \in Repos :
      /\ prod[r] = "packed" => PathsOf(work[r].corpus) = result[r].challenges
      /\ /\ prod[r] \in {Cleaning, "done"}
         /\ result[r].status = "staged"
         /\ pc \in Running \ {"unwind"}
         => /\ PathsOf(work[r].corpus) = result[r].challenges
            /\ work[r].catalog = {[path |-> r, body |-> result[r].challenges]}

(* Until a flush is decided the staging tree holds the whole batch, *)
BatchStaged ==
    pc \in {"drain", "corpus", "catalog"} =>
      \A r \in Batch : /\ r \in PathsOf(staging.catalog)
                       /\ result[r].challenges \subseteq PathsOf(staging.corpus)

(* and, unless local files are kept, nothing else's shard. *)
OnlyBatchStaged ==
    pc \in {"drain", "corpus", "catalog"} /\ ~KeepLocal => PathsOf(staging.catalog) \subseteq Batch

StagingClosed == \A s \in staging.catalog : s.body \subseteq PathsOf(staging.corpus)

CorpusFirst == pc = "catalog" => PathsOf(staging.corpus) \subseteq PathsOf(remote.corpus)

(* A batch about to be recorded ok is in the dataset. *)
BatchPublished ==
    pc = "record" /\ publishedOk /\ Publish =>
      \A r \in Batch : result[r].challenges # {} =>
        /\ r \in PathsOf(remote.catalog)
        /\ result[r].challenges \subseteq PathsOf(remote.corpus)

Durable ==
    /\ WorkMatches
    /\ BatchStaged
    /\ OnlyBatchStaged
    /\ StagingClosed
    /\ CorpusFirst
    /\ BatchPublished
    /\ OkImpliesPublished
    /\ CatalogNeverDangles

LEMMA InitDurable == Init => Durable
  <1> SUFFICES ASSUME Init PROVE Durable
    OBVIOUS
  <1>1. Batch = {}
    BY DEF Init, Batch
  <1> QED
    BY <1>1 DEF Init, Durable, WorkMatches, BatchStaged, OnlyBatchStaged, StagingClosed,
       CorpusFirst, BatchPublished, OkImpliesPublished, CatalogNeverDangles, EmptyTree,
       Cleaning

(* A producer touches neither the batch nor what has been published. *)
LEMMA ProducerFrame ==
  ASSUME TypeInv, NEW r \in Repos, Producer(r)
  PROVE  /\ UNCHANGED <<pc, staging, publishedOk, manifest, torn, acked, swallowed, remote>>
         /\ Batch' = Batch
         /\ \A q \in Repos \ {r} : /\ prod'[q] = prod[q]
                                  /\ result'[q] = result[q]
                                  /\ work'[q] = work[q]
         /\ prod[r] \notin {"out", "batched", "recorded"}
  <1> USE DEF consumerVars, recordVars, Goto, Report, Batch, TypeInv, TypeOK
  <1>1. CASE SkipLowDisk(r)
    BY <1>1 DEF SkipLowDisk, CanStart
  <1>2. CASE RejectTooBig(r)
    BY <1>2 DEF RejectTooBig, CanStart
  <1>3. CASE SizeCheckRaises(r)
    BY <1>3 DEF SizeCheckRaises, CanStart
  <1>4. CASE Admit(r)
    BY <1>4 DEF Admit, CanStart
  <1>5. CASE Connect(r)
    BY <1>5 DEF Connect
  <1>6. CASE GitAdvances(r)
    BY <1>6 DEF GitAdvances
  <1>7. CASE ResolveHead(r)
    BY <1>7 DEF ResolveHead
  <1>8. CASE CloneFails(r)
    BY <1>8 DEF CloneFails
  <1>9. CASE Pack(r)
    BY <1>9 DEF Pack
  <1>10. CASE WriteShard(r)
    BY <1>10 DEF WriteShard, Cleaning
  <1>11. CASE StageRaises(r)
    BY <1>11 DEF StageRaises, Cleaning, InTry
  <1>12. CASE FreeClone(r)
    BY <1>12 DEF FreeClone, Cleaning
  <1> QED
    BY <1>1, <1>2, <1>3, <1>4, <1>5, <1>6, <1>7, <1>8, <1>9, <1>10, <1>11, <1>12
    DEF Producer

LEMMA FilePaths ==
  ASSUME NEW found, NEW r
  PROVE  PathsOf({[path |-> p, body |-> r] : p \in found}) = found
  <1> DEFINE files == {[path |-> p, body |-> r] : p \in found}
  <1>1. \A f \in files : f.path \in found
    OBVIOUS
  <1>2. \A p \in found : [path |-> p, body |-> r] \in files /\ [path |-> p, body |-> r].path = p
    OBVIOUS
  <1> HIDE DEF files
  <1>3. PathsOf(files) = found
    BY <1>1, <1>2 DEF PathsOf
  <1> QED
    BY <1>3 DEF files

LEMMA ProducerWorkMatches ==
  ASSUME TypeInv, WorkMatches, NEW r \in Repos, Producer(r)
  PROVE  WorkMatches'
  <1> DEFINE Matches ==
        /\ prod[r] = "packed" => PathsOf(work[r].corpus) = result[r].challenges
        /\ /\ prod[r] \in {Cleaning, "done"}
           /\ result[r].status = "staged"
           /\ pc \in Running \ {"unwind"}
           => /\ PathsOf(work[r].corpus) = result[r].challenges
              /\ work[r].catalog = {[path |-> r, body |-> result[r].challenges]}
  <1>0. Matches
    BY DEF WorkMatches
  <1>a. SUFFICES Matches'
    BY ProducerFrame DEF WorkMatches
  <1> USE DEF Goto, Report, Cleaning, InTry, TypeInv, TypeOK
  <1>1. CASE SkipLowDisk(r)
    BY <1>1 DEF SkipLowDisk
  <1>2. CASE RejectTooBig(r)
    BY <1>2 DEF RejectTooBig
  <1>3. CASE SizeCheckRaises(r)
    BY <1>3 DEF SizeCheckRaises
  <1>4. CASE Admit(r)
    BY <1>4 DEF Admit
  <1>5. CASE Connect(r)
    BY <1>5 DEF Connect
  <1>6. CASE GitAdvances(r)
    BY <1>6 DEF GitAdvances
  <1>7. CASE ResolveHead(r)
    BY <1>7 DEF ResolveHead
  <1>8. CASE CloneFails(r)
    BY <1>8 DEF CloneFails
  <1>9. CASE Pack(r)
    <2>1. PICK found \in Walkable(r) :
            /\ Report(r, "none", found)
            /\ work' = [work EXCEPT ![r].corpus = {[path |-> p, body |-> r] : p \in found}]
      BY <1>9 DEF Pack
    <2>2. work'[r].corpus = {[path |-> p, body |-> r] : p \in found}
      BY <2>1 DEF Tree
    <2>3. PathsOf(work'[r].corpus) = found
      BY <2>2, FilePaths
    <2>4. result'[r].challenges = found /\ prod'[r] = "packed"
      BY <1>9, <2>1 DEF Pack
    <2> QED
      BY <2>3, <2>4
  <1>10. CASE WriteShard(r)
    <2>1. work'[r].corpus = work[r].corpus
      BY <1>10 DEF WriteShard, Tree
    <2>2. work'[r].catalog = {[path |-> r, body |-> result[r].challenges]}
      BY <1>10 DEF WriteShard, Tree
    <2>3. result'[r].challenges = result[r].challenges /\ prod'[r] = "freeing"
      BY <1>10 DEF WriteShard
    <2>4. PathsOf(work[r].corpus) = result[r].challenges
      BY <1>0, <1>10 DEF WriteShard
    <2> QED
      BY <2>1, <2>2, <2>3, <2>4
  <1>11. CASE StageRaises(r)
    <2>1. prod'[r] = "freeing" /\ result'[r].status = "failed"
      BY <1>11 DEF StageRaises
    <2> QED
      BY <2>1
  <1>12. CASE FreeClone(r)
    <2>1. /\ prod[r] = "freeing" /\ prod'[r] = "done"
          /\ UNCHANGED <<result, work, pc>>
      BY <1>12 DEF FreeClone, consumerVars
    <2> QED
      BY <1>0, <2>1
  <1> QED
    BY <1>1, <1>2, <1>3, <1>4, <1>5, <1>6, <1>7, <1>8, <1>9, <1>10, <1>11, <1>12
    DEF Producer

LEMMA ProducerDurable ==
  ASSUME TypeInv, Durable, NEW r \in Repos, Producer(r)
  PROVE  Durable'
  <1>1. WorkMatches'
    BY ProducerWorkMatches DEF Durable
  <1>2. \A q \in Batch : q \in Repos /\ result'[q] = result[q]
    BY ProducerFrame DEF Batch
  <1>3. UNCHANGED <<pc, staging, publishedOk, manifest, remote>> /\ Batch' = Batch
    BY ProducerFrame
  <1> QED
    BY <1>1, <1>2, <1>3 DEF Durable, BatchStaged, OnlyBatchStaged, StagingClosed,
       CorpusFirst, BatchPublished, OkImpliesPublished, CatalogNeverDangles

(* Steps of the consumer that move the batch along. *)
LEMMA MergeDurable ==
  ASSUME TypeInv, Durable, NEW r \in Repos, MergeStaged(r)
  PROVE  Durable'
  <1> DEFINE body == result[r].challenges
  <1>1. /\ PathsOf(work[r].corpus) = body
        /\ work[r].catalog = {[path |-> r, body |-> body]}
    BY DEF MergeStaged, Draining, Finished, Durable, WorkMatches, Running
  <1>2. PathsOf(work[r].catalog) = {r}
    BY <1>1 DEF PathsOf
  <1>3. PathsOf(staging'.corpus) = PathsOf(staging.corpus) \cup body
    BY <1>1, OverlayPaths DEF MergeStaged
  <1>4. PathsOf(staging'.catalog) = PathsOf(staging.catalog) \cup {r}
    BY <1>2, OverlayPaths DEF MergeStaged
  <1>5. Batch' = Batch \cup {r}
    BY DEF MergeStaged, Goto, Batch, TypeInv, TypeOK
  <1>6. UNCHANGED <<pc, result, manifest, remote, publishedOk>> /\ pc = "drain"
    BY DEF MergeStaged, Draining, recordVars
  <1>7. \A q \in Repos \ {r} : prod'[q] = prod[q] /\ work'[q] = work[q]
    BY DEF MergeStaged, Goto, TypeInv, TypeOK
  <1>8. prod'[r] = "batched"
    BY DEF MergeStaged, Goto, TypeInv, TypeOK
  <1>9. WorkMatches'
    BY <1>6, <1>7, <1>8 DEF Durable, WorkMatches, Cleaning
  <1>10. BatchStaged'
    BY <1>3, <1>4, <1>5, <1>6 DEF Durable, BatchStaged
  <1>11. OnlyBatchStaged'
    BY <1>4, <1>5, <1>6 DEF Durable, OnlyBatchStaged
  <1>12. StagingClosed'
    <2>1. staging'.catalog \subseteq staging.catalog \cup {[path |-> r, body |-> body]}
      BY <1>1 DEF MergeStaged, Overlay
    <2>2. [path |-> r, body |-> body].body = body
      OBVIOUS
    <2> QED
      BY <1>3, <2>1, <2>2 DEF Durable, StagingClosed
  <1>13. CorpusFirst' /\ BatchPublished'
    BY <1>6 DEF CorpusFirst, BatchPublished
  <1>14. OkImpliesPublished' /\ CatalogNeverDangles'
    BY <1>6 DEF Durable, OkImpliesPublished, CatalogNeverDangles
  <1> QED
    BY <1>9, <1>10, <1>11, <1>12, <1>13, <1>14 DEF Durable

LEMMA CommitPaths ==
  ASSUME TypeOK
  PROVE
  /\ PathsOf(CorpusCommitted.corpus) = PathsOf(remote.corpus) \cup PathsOf(staging.corpus)
  /\ CorpusCommitted.catalog = remote.catalog
  /\ PathsOf(CatalogCommitted.catalog) = PathsOf(remote.catalog) \cup PathsOf(staging.catalog)
  /\ CatalogCommitted.catalog \subseteq remote.catalog \cup staging.catalog
  /\ CatalogCommitted.corpus = remote.corpus
  BY OverlayPaths DEF CorpusCommitted, CatalogCommitted, Overlay, Tree, TypeOK

(* A dataset that only gained paths, and gained shards no archive of which is
   missing, keeps what Durable says of the dataset. *)
LEMMA RemoteGrows ==
  ASSUME TypeInv, Durable, UNCHANGED manifest,
         PathsOf(remote.corpus) \subseteq PathsOf(remote'.corpus),
         PathsOf(remote.catalog) \subseteq PathsOf(remote'.catalog),
         \A s \in remote'.catalog : s \in remote.catalog \/ s.body \subseteq PathsOf(remote'.corpus)
  PROVE  OkImpliesPublished' /\ CatalogNeverDangles'
  <1>1. OkImpliesPublished'
    BY DEF Durable, OkImpliesPublished
  <1>2. CatalogNeverDangles'
    BY DEF Durable, CatalogNeverDangles
  <1> QED
    BY <1>1, <1>2

(* What a commit attempt may leave in the dataset, whether or not it is seen
   to succeed. *)
LEMMA CommitKeeps ==
  ASSUME TypeInv, Durable, UNCHANGED manifest,
         \/ remote' = remote
         \/ pc = "corpus" /\ remote' = CorpusCommitted
         \/ pc = "catalog" /\ remote' = CatalogCommitted
  PROVE  OkImpliesPublished' /\ CatalogNeverDangles'
  <1>1. CASE remote' = remote
    BY <1>1, RemoteGrows
  <1>2. CASE pc = "corpus" /\ remote' = CorpusCommitted
    <2>1. /\ PathsOf(remote'.corpus) = PathsOf(remote.corpus) \cup PathsOf(staging.corpus)
          /\ remote'.catalog = remote.catalog
      BY <1>2, CommitPaths DEF TypeInv
    <2> QED
      BY <2>1, RemoteGrows
  <1>3. CASE pc = "catalog" /\ remote' = CatalogCommitted
    <2>1. /\ PathsOf(remote'.catalog) = PathsOf(remote.catalog) \cup PathsOf(staging.catalog)
          /\ remote'.catalog \subseteq remote.catalog \cup staging.catalog
          /\ remote'.corpus = remote.corpus
      BY <1>3, CommitPaths DEF TypeInv
    <2>2. \A s \in staging.catalog : s.body \subseteq PathsOf(remote.corpus)
      BY <1>3 DEF Durable, StagingClosed, CorpusFirst
    <2> QED
      BY <2>1, <2>2, RemoteGrows
  <1> QED
    BY <1>1, <1>2, <1>3

LEMMA FlushDurable ==
  ASSUME TypeInv, Durable,
         StartFlush \/ PublishCorpus \/ PublishCorpusFails
         \/ PublishCatalog \/ PublishCatalogFails
  PROVE  Durable'
  <1>1. /\ UNCHANGED <<prod, result, work, staging, manifest>>
        /\ pc' \in {"corpus", "catalog", "record"}
        /\ pc \in {"drain", "corpus", "catalog"}
    BY DEF StartFlush, PublishCorpus, PublishCorpusFails, PublishCatalog,
       PublishCatalogFails, producerVars, recordVars
  <1>2. Batch' = Batch
    BY <1>1 DEF Batch
  <1>3. WorkMatches'
    BY <1>1 DEF Durable, WorkMatches, Running
  <1>4. BatchStaged' /\ OnlyBatchStaged' /\ StagingClosed'
    BY <1>1, <1>2 DEF Durable, BatchStaged, OnlyBatchStaged, StagingClosed
  <1>5. OkImpliesPublished' /\ CatalogNeverDangles'
    <2>1. \/ remote' = remote
          \/ pc = "corpus" /\ remote' = CorpusCommitted
          \/ pc = "catalog" /\ remote' = CatalogCommitted
      BY DEF StartFlush, PublishCorpus, PublishCorpusFails, PublishCatalog,
         PublishCatalogFails
    <2> QED
      BY <1>1, <2>1, CommitKeeps
  <1>6. CorpusFirst' /\ BatchPublished'
    <2>1. CASE StartFlush
      <3>1. pc' # "catalog" /\ (pc' = "record" /\ Publish => staging.corpus = {})
        BY <2>1 DEF StartFlush, TypeInv, TypeOK
      <3>2. pc' = "record" /\ Publish => \A r \in Batch : result[r].challenges = {}
        BY <2>1, <3>1 DEF StartFlush, Durable, BatchStaged, PathsOf
      <3> QED
        BY <1>1, <1>2, <3>1, <3>2 DEF CorpusFirst, BatchPublished
    <2>2. CASE PublishCorpus
      <3>1. pc' = "catalog" /\ remote' = CorpusCommitted
        BY <2>2 DEF PublishCorpus
      <3> QED
        BY <1>1, <3>1, CommitPaths DEF CorpusFirst, BatchPublished, TypeInv
    <2>3. CASE PublishCatalog
      <3>1. pc = "catalog" /\ pc' = "record" /\ remote' = CatalogCommitted
        BY <2>3 DEF PublishCatalog
      <3>2. /\ PathsOf(staging.catalog) \subseteq PathsOf(remote'.catalog)
            /\ PathsOf(staging.corpus) \subseteq PathsOf(remote'.corpus)
        BY <3>1, CommitPaths DEF Durable, CorpusFirst, TypeInv
      <3> QED
        BY <1>1, <1>2, <3>1, <3>2 DEF Durable, BatchStaged, CorpusFirst, BatchPublished
    <2>4. CASE PublishCorpusFails \/ PublishCatalogFails
      BY <2>4 DEF PublishCorpusFails, PublishCatalogFails, CorpusFirst, BatchPublished
    <2> QED
      BY <2>1, <2>2, <2>3, <2>4
  <1> QED
    BY <1>3, <1>4, <1>5, <1>6 DEF Durable

(* An appended record that is not ok, or whose repo is published, keeps
   OkImpliesPublished. *)
LEMMA AppendKeeps ==
  ASSUME TypeInv, Durable, UNCHANGED remote,
         NEW m, Append(m),
         Publish /\ m.status = "ok" /\ m.challenges # {} =>
           /\ m.repo \in PathsOf(remote.catalog)
           /\ m.challenges \subseteq PathsOf(remote.corpus)
  PROVE  OkImpliesPublished' /\ CatalogNeverDangles'
  BY DEF Durable, OkImpliesPublished, CatalogNeverDangles, Append

LEMMA RecordDurable ==
  ASSUME TypeInv, Durable, NEW r \in Repos, RecordBatched(r)
  PROVE  Durable'
  <1>1. /\ UNCHANGED <<pc, work, staging, publishedOk, remote>>
        /\ pc = "record" /\ r \in Batch
    BY DEF RecordBatched, consumerVars, Batch
  <1>2. /\ \A q \in Repos \ {r} : prod'[q] = prod[q] /\ result'[q] = result[q]
        /\ prod'[r] = "recorded"
    BY DEF RecordBatched, Goto, Report, TypeInv, TypeOK
  <1>3. Batch' = Batch \ {r}
    BY <1>2 DEF Batch
  <1>4. WorkMatches'
    BY <1>1, <1>2 DEF Durable, WorkMatches, Cleaning
  <1>5. BatchStaged' /\ OnlyBatchStaged' /\ StagingClosed' /\ CorpusFirst'
    BY <1>1 DEF Durable, BatchStaged, OnlyBatchStaged, StagingClosed, CorpusFirst
  <1>6. BatchPublished'
    BY <1>1, <1>2, <1>3 DEF Durable, BatchPublished, Batch
  <1>7. OkImpliesPublished' /\ CatalogNeverDangles'
    <2> DEFINE m == RecordOf(r, Verdict)
    <2>1. Append(m) /\ m.repo = r /\ m.challenges = result[r].challenges
      BY DEF RecordBatched, RecordOf
    <2>2. m.status = "ok" => publishedOk
      BY DEF RecordOf, Verdict
    <2>3. Publish /\ m.status = "ok" /\ m.challenges # {} =>
            /\ m.repo \in PathsOf(remote.catalog)
            /\ m.challenges \subseteq PathsOf(remote.corpus)
      BY <1>1, <2>1, <2>2 DEF Durable, BatchPublished
    <2> HIDE DEF m
    <2> QED
      BY <1>1, <2>1, <2>3, AppendKeeps
  <1> QED
    BY <1>4, <1>5, <1>6, <1>7 DEF Durable

LEMMA RecordUnstagedDurable ==
  ASSUME TypeInv, Durable, NEW r \in Repos, RecordUnstaged(r)
  PROVE  Durable'
  <1>1. /\ UNCHANGED <<pc, result, work, staging, publishedOk, remote>>
        /\ pc = "drain" /\ prod[r] = "done"
    BY DEF RecordUnstaged, consumerVars, Draining, Finished
  <1>2. /\ \A q \in Repos \ {r} : prod'[q] = prod[q]
        /\ prod'[r] = "recorded"
    BY DEF RecordUnstaged, Goto, TypeInv, TypeOK
  <1>3. Batch' = Batch
    BY <1>1, <1>2 DEF Batch
  <1>4. WorkMatches'
    BY <1>1, <1>2 DEF Durable, WorkMatches, Cleaning
  <1>5. BatchStaged' /\ OnlyBatchStaged' /\ StagingClosed' /\ CorpusFirst' /\ BatchPublished'
    BY <1>1, <1>3 DEF Durable, BatchStaged, OnlyBatchStaged, StagingClosed, CorpusFirst,
       BatchPublished
  <1>6. OkImpliesPublished' /\ CatalogNeverDangles'
    <2>1. PICK status \in {"failed", "skipped", "too_big"} : Append(RecordOf(r, status))
      BY DEF RecordUnstaged
    <2>2. RecordOf(r, status).status # "ok"
      BY DEF RecordOf
    <2> QED
      BY <1>1, <2>1, <2>2, AppendKeeps
  <1> QED
    BY <1>4, <1>5, <1>6 DEF Durable

(* Steps after which the batch is not looked at again before it is reset. *)
LEMMA LeaveDurable ==
  ASSUME TypeInv, Durable,
         pc' \notin {"drain", "corpus", "catalog", "record"},
         UNCHANGED manifest,
         \A r \in Repos : prod'[r] = "packed" =>
            /\ prod[r] = "packed"
            /\ UNCHANGED <<work[r], result[r]>>,
         UNCHANGED staging,
         OkImpliesPublished' /\ CatalogNeverDangles'
  PROVE  Durable'
  <1>1. WorkMatches'
    BY DEF Durable, WorkMatches, Running
  <1>2. BatchStaged' /\ OnlyBatchStaged' /\ CorpusFirst' /\ BatchPublished'
    BY DEF BatchStaged, OnlyBatchStaged, CorpusFirst, BatchPublished
  <1>3. StagingClosed'
    BY DEF Durable, StagingClosed
  <1> QED
    BY <1>1, <1>2, <1>3 DEF Durable

LEMMA MergeRaisesDurable ==
  ASSUME TypeInv, Durable, NEW r \in Repos, MergeRaises(r)
  PROVE  Durable'
  <1>1. /\ UNCHANGED <<prod, result, manifest, remote>>
        /\ pc' = "unwind" /\ prod[r] = "done"
    BY DEF MergeRaises, recordVars, Finished
  <1>2. PICK moved \in SUBSET work[r].corpus :
          /\ staging' = [staging EXCEPT !.corpus = Overlay(@, moved)]
          /\ work' = [work EXCEPT ![r].corpus = @ \ moved]
    BY DEF MergeRaises
  <1>3. \A q \in Repos \ {r} : work'[q] = work[q]
    BY <1>2 DEF TypeInv, TypeOK
  <1>4. WorkMatches'
    BY <1>1, <1>3 DEF Durable, WorkMatches
  <1>5. StagingClosed'
    <2>1. staging'.catalog = staging.catalog /\ staging'.corpus = Overlay(staging.corpus, moved)
      BY <1>2 DEF TypeInv, TypeOK, Tree
    <2>2. PathsOf(staging.corpus) \subseteq PathsOf(staging'.corpus)
      BY <2>1, OverlayPaths
    <2> QED
      BY <2>1, <2>2 DEF Durable, StagingClosed
  <1>6. BatchStaged' /\ OnlyBatchStaged' /\ CorpusFirst' /\ BatchPublished'
    BY <1>1 DEF BatchStaged, OnlyBatchStaged, CorpusFirst, BatchPublished
  <1>7. OkImpliesPublished' /\ CatalogNeverDangles'
    BY <1>1 DEF Durable, OkImpliesPublished, CatalogNeverDangles
  <1> QED
    BY <1>4, <1>5, <1>6, <1>7 DEF Durable

LEMMA EndFlushDurable ==
  ASSUME TypeInv, Durable, EndFlush
  PROVE  Durable'
  <1>1. /\ UNCHANGED <<prod, result, work, manifest, remote>>
        /\ pc = "record" /\ pc' = "drain" /\ Batch = {}
        /\ staging' = IF Reclaims THEN EmptyTree ELSE staging
    BY DEF EndFlush, producerVars, recordVars
  <1>2. Batch' = {}
    BY <1>1 DEF Batch
  <1>3. WorkMatches'
    BY <1>1 DEF Durable, WorkMatches, Running
  <1>4. BatchStaged' /\ CorpusFirst' /\ BatchPublished'
    BY <1>1, <1>2 DEF BatchStaged, CorpusFirst, BatchPublished
  <1>5. ~KeepLocal => PathsOf(staging'.catalog) = {}
    BY <1>1 DEF Reclaims, EmptyTree, PathsOf
  <1>6. OnlyBatchStaged'
    BY <1>5 DEF OnlyBatchStaged
  <1>7. StagingClosed'
    BY <1>1 DEF Durable, StagingClosed, EmptyTree
  <1>8. OkImpliesPublished' /\ CatalogNeverDangles'
    BY <1>1 DEF Durable, OkImpliesPublished, CatalogNeverDangles
  <1> QED
    BY <1>3, <1>4, <1>6, <1>7, <1>8 DEF Durable

LEMMA StartDurable ==
  ASSUME TypeInv, Durable, Start
  PROVE  Durable'
  <1>1. /\ UNCHANGED <<manifest, remote>>
        /\ pc' = "drain" /\ staging' = EmptyTree
        /\ \A r \in Repos : prod'[r] \in {"queued", "out"}
    BY DEF Start, recordVars
  <1>2. Batch' = {}
    BY <1>1 DEF Batch
  <1>3. WorkMatches'
    BY <1>1 DEF WorkMatches, Cleaning
  <1>4. BatchStaged' /\ CorpusFirst' /\ BatchPublished'
    BY <1>1, <1>2 DEF BatchStaged, CorpusFirst, BatchPublished
  <1>5. OnlyBatchStaged' /\ StagingClosed'
    BY <1>1 DEF OnlyBatchStaged, StagingClosed, EmptyTree, PathsOf
  <1>6. OkImpliesPublished' /\ CatalogNeverDangles'
    BY <1>1 DEF Durable, OkImpliesPublished, CatalogNeverDangles
  <1> QED
    BY <1>3, <1>4, <1>5, <1>6 DEF Durable

LEMMA NextDurable ==
  ASSUME TypeInv, Durable, [Next]_vars
  PROVE  Durable'
  <1> USE DEF producerVars, recordVars
  <1>1. CASE Start
    BY <1>1, StartDurable
  <1>2. ASSUME NEW r \in Repos, Producer(r) PROVE Durable'
    BY <1>2, ProducerDurable
  <1>3. ASSUME NEW r \in Repos,
               MergeStaged(r) \/ MergeRaises(r) \/ RecordUnstaged(r) \/ RecordBatched(r)
        PROVE  Durable'
    BY <1>3, MergeDurable, MergeRaisesDurable, RecordUnstagedDurable, RecordDurable
  <1>4. CASE StartFlush \/ PublishCorpus \/ PublishCorpusFails
             \/ PublishCatalog \/ PublishCatalogFails
    BY <1>4, FlushDurable
  <1>5. CASE EndFlush
    BY <1>5, EndFlushDurable
  <1>6. ASSUME (\E r \in Repos : ResultRaises(r)) \/ AppendRaises \/ Abort
        PROVE  Durable'
    <2>1. /\ UNCHANGED <<prod, result, work, staging, manifest, remote>>
          /\ pc' \in {"unwind", "aborted"}
      BY <1>6 DEF ResultRaises, AppendRaises, Abort
    <2>2. OkImpliesPublished' /\ CatalogNeverDangles'
      BY <2>1 DEF Durable, OkImpliesPublished, CatalogNeverDangles
    <2> QED
      BY <2>1, <2>2, LeaveDurable
  <1>7. CASE Return
    <2>1. /\ UNCHANGED <<prod, result, staging, manifest, remote>>
          /\ pc' = "returned"
          /\ \A r \in Repos : prod[r] # "packed"
      BY <1>7 DEF Return, Settled
    <2>2. OkImpliesPublished' /\ CatalogNeverDangles'
      BY <2>1 DEF Durable, OkImpliesPublished, CatalogNeverDangles
    <2> QED
      BY <2>1, <2>2, LeaveDurable
  <1>8. CASE Crash
    <2>1. /\ UNCHANGED <<staging, manifest>>
          /\ pc' = "crashed"
          /\ \A r \in Repos : prod'[r] = "out"
      BY <1>8 DEF Crash
    <2>2. \/ remote' = remote
          \/ pc = "corpus" /\ remote' = CorpusCommitted
          \/ pc = "catalog" /\ remote' = CatalogCommitted
      BY <1>8 DEF Crash
    <2>3. OkImpliesPublished' /\ CatalogNeverDangles'
      BY <2>1, <2>2, CommitKeeps
    <2> QED
      BY <2>1, <2>3, LeaveDurable
  <1>9. ASSUME DiscoveryStarts \/ DiscoveryEnds \/ UNCHANGED vars
        PROVE  Durable'
    <2>1. UNCHANGED <<pc, prod, result, work, staging, publishedOk, manifest, remote>>
      BY <1>9 DEF DiscoveryStarts, DiscoveryEnds, consumerVars, vars
    <2>2. Batch' = Batch
      BY <2>1 DEF Batch
    <2> QED
      BY <2>1, <2>2 DEF Durable, WorkMatches, BatchStaged, OnlyBatchStaged, StagingClosed,
         CorpusFirst, BatchPublished, OkImpliesPublished, CatalogNeverDangles
  <1> QED
    BY <1>1, <1>2, <1>3, <1>4, <1>5, <1>6, <1>7, <1>8, <1>9
    DEF Next, Consumer, Over

LEMMA DurableInvariant == Spec => [](TypeInv /\ Durable)
  <1>1. Init => TypeInv /\ Durable
    BY InitTypeInv, InitDurable
  <1>2. TypeInv /\ Durable /\ [Next]_vars => (TypeInv /\ Durable)'
    BY NextTypeInv, NextDurable
  <1> QED
    BY <1>1, <1>2, PTL DEF Spec

(* Whatever fails or dies, an ok record of a repo with challenges means that
   its shard and its archives are in the dataset. *)
THEOREM Durability == Spec => []OkImpliesPublished
  <1>1. TypeInv /\ Durable => OkImpliesPublished
    BY DEF Durable
  <1> QED
    BY <1>1, DurableInvariant, PTL

(* The dataset's catalog never points at an archive that is not there. *)
THEOREM NoDanglingRecord == Spec => []CatalogNeverDangles
  <1>1. TypeInv /\ Durable => CatalogNeverDangles
    BY DEF Durable
  <1> QED
    BY <1>1, DurableInvariant, PTL

(* Each commit is made from a tree that holds the batch and, unless local
   files are kept, the shard of no other repo. *)
THEOREM CommitHoldsBatch == Spec => []StagingIsBatch
  <1>1. Durable => StagingIsBatch
    BY DEF Durable, BatchStaged, OnlyBatchStaged, StagingIsBatch
  <1> QED
    BY <1>1, DurableInvariant, PTL

-----------------------------------------------------------------------------
(* No double publish but of what a torn line swallowed *)

(* The repos whose ok record has a line of its own. *)
Whole == acked \ swallowed

WholeSettled ==
    /\ Whole \subseteq DoneOk
    /\ Resume /\ pc \in Running => \A r \in Whole : prod[r] \in {"out", "recorded"}

LEMMA NextWholeSettled ==
  ASSUME TypeInv, WholeSettled, [Next]_vars
  PROVE  WholeSettled'
  <1> USE DEF producerVars, consumerVars, recordVars
  <1>0. Whole \subseteq Repos
    BY DEF TypeInv, TypeOK, Whole
  <1>1. CASE Start
    <2>1. UNCHANGED <<manifest, torn, acked, swallowed>>
      BY <1>1 DEF Start
    <2>2. Resume => \A r \in Whole : prod'[r] = "out"
      BY <1>0, <1>1 DEF Start, Pending, WholeSettled, Whole
    <2> QED
      BY <2>1, <2>2 DEF WholeSettled, DoneOk, Whole
  <1>2. ASSUME NEW r \in Repos, Producer(r) PROVE WholeSettled'
    BY <1>0, <1>2, ProducerFrame DEF WholeSettled, DoneOk, Whole
  <1>3. ASSUME NEW r \in Repos, MergeStaged(r) PROVE WholeSettled'
    <2>1. /\ UNCHANGED <<pc, manifest, torn, acked, swallowed>>
          /\ pc \in Running /\ prod[r] = "done"
          /\ \A q \in Repos \ {r} : prod'[q] = prod[q]
      BY <1>3 DEF MergeStaged, Draining, Running, Finished, Goto, TypeInv, TypeOK
    <2> QED
      BY <1>0, <2>1 DEF WholeSettled, DoneOk, Whole
  <1>4. ASSUME NEW r \in Repos, RecordUnstaged(r) PROVE WholeSettled'
    <2>1. PICK status \in {"failed", "skipped", "too_big"} : Append(RecordOf(r, status))
      BY <1>4 DEF RecordUnstaged
    <2>2. UNCHANGED <<acked, swallowed>> /\ manifest \subseteq manifest'
      BY <2>1 DEF Append, RecordOf
    <2>3. UNCHANGED pc /\ \A q \in Repos : q = r \/ prod'[q] = prod[q]
      BY <1>4 DEF RecordUnstaged, Goto, TypeInv, TypeOK
    <2>4. prod'[r] = "recorded"
      BY <1>4 DEF RecordUnstaged, Goto, TypeInv, TypeOK
    <2> QED
      BY <1>0, <2>2, <2>3, <2>4 DEF WholeSettled, DoneOk, Whole
  <1>5. ASSUME NEW r \in Repos, RecordBatched(r) PROVE WholeSettled'
    <2> DEFINE m == RecordOf(r, Verdict)
    <2>1. Append(m) /\ m.repo = r
      BY <1>5 DEF RecordBatched, RecordOf
    <2> HIDE DEF m
    <2>2. /\ manifest \subseteq manifest'
          /\ m.status = "ok" /\ ~torn => m \in manifest'
          /\ Whole' \subseteq Whole \cup {r}
          /\ r \in Whole' \ Whole => m.status = "ok" /\ ~torn
      BY <2>1 DEF Append, Whole
    <2>3. UNCHANGED pc /\ \A q \in Repos : q = r \/ prod'[q] = prod[q]
      BY <1>5 DEF RecordBatched, Goto, TypeInv, TypeOK
    <2>4. prod'[r] = "recorded"
      BY <1>5 DEF RecordBatched, Goto, TypeInv, TypeOK
    <2>5. Whole' \subseteq DoneOk'
      BY <2>1, <2>2 DEF WholeSettled, DoneOk
    <2>6. Resume /\ pc' \in Running => \A q \in Whole' : prod'[q] \in {"out", "recorded"}
      BY <1>0, <2>2, <2>3, <2>4 DEF WholeSettled
    <2> QED
      BY <2>5, <2>6 DEF WholeSettled
  <1>6. ASSUME (\E r \in Repos : MergeRaises(r) \/ ResultRaises(r))
               \/ StartFlush \/ PublishCorpus \/ PublishCorpusFails
               \/ PublishCatalog \/ PublishCatalogFails \/ EndFlush
        PROVE  WholeSettled'
    <2>1. UNCHANGED <<prod, manifest, torn, acked, swallowed>> /\ pc \in Running
      BY <1>6 DEF MergeRaises, ResultRaises, StartFlush, PublishCorpus,
         PublishCorpusFails, PublishCatalog, PublishCatalogFails, EndFlush, Draining, Running
    <2> QED
      BY <2>1 DEF WholeSettled, DoneOk, Whole
  <1>7. ASSUME Return \/ Abort PROVE WholeSettled'
    <2>1. UNCHANGED <<manifest, torn, acked, swallowed>> /\ pc' \notin Running
      BY <1>7 DEF Return, Abort, Running
    <2> QED
      BY <2>1 DEF WholeSettled, DoneOk, Whole
  <1>8. CASE AppendRaises
    <2>1. UNCHANGED <<prod, manifest, acked, swallowed>> /\ pc \in Running
      BY <1>8 DEF AppendRaises, Draining, Running
    <2> QED
      BY <2>1 DEF WholeSettled, DoneOk, Whole
  <1>9. CASE Crash
    <2>1. UNCHANGED <<manifest, torn, acked, swallowed>> /\ pc' \notin Running
      BY <1>9 DEF Crash, Running
    <2> QED
      BY <2>1 DEF WholeSettled, DoneOk, Whole
  <1>10. ASSUME DiscoveryStarts \/ DiscoveryEnds \/ UNCHANGED vars
         PROVE  WholeSettled'
    <2>1. UNCHANGED <<pc, prod, manifest, torn, acked, swallowed>>
      BY <1>10 DEF DiscoveryStarts, DiscoveryEnds, vars
    <2> QED
      BY <2>1 DEF WholeSettled, DoneOk, Whole
  <1> QED
    BY <1>1, <1>2, <1>3, <1>4, <1>5, <1>6, <1>7, <1>8, <1>9, <1>10
    DEF Next, Consumer, Over

(* With resume, whatever appends fail in whatever run, no commit is started for a
   batch with a repo whose ok record was appended, in this run or an earlier one,
   unless the last such record continued a torn line. *)
THEOREM NoRepublish == Spec => []NoDoublePublish
  <1>1. Init => WholeSettled
    BY DEF Init, WholeSettled, DoneOk, Running, Whole
  <1>2. TypeInv /\ WholeSettled /\ [Next]_vars => WholeSettled'
    BY NextWholeSettled
  <1>3. WholeSettled => NoDoublePublish
    BY DEF WholeSettled, NoDoublePublish, Batch, Running, Whole
  <1> QED
    BY <1>1, <1>2, <1>3, DurableInvariant, PTL DEF Spec

-----------------------------------------------------------------------------
(* What a return leaves behind *)

(* Who was not submitted was settled before; who was is, at the return, too. *)
Accounted ==
    /\ \A r \in Repos : prod[r] = "recorded" => result[r].status \in Final
    /\ pc \in Running \cup {"returned"} =>
         \A r \in Repos : prod[r] = "out" => Resume /\ r \in DoneOk
    /\ pc = "returned" => \A r \in Repos : prod[r] \in {"out", "recorded"}

(* A producer whose future is done has freed its clone, unless it never got
   as far as the try. *)
CloneFreed ==
    \A r \in Repos :
      /\ prod[r] = "out" => result[r].status = "none"
      /\ prod[r] = "batched" => result[r].status = "staged"
      /\ /\ prod[r] \in {"done", "batched", "recorded"}
         /\ result[r].status \in {"staged", "ok", "failed"}
         => clone[r] = "none"

StagingReclaimed ==
    pc \in {"drain", "returned"} /\ Batch = {} /\ ~KeepLocal => staging = EmptyTree

Tidy == Accounted /\ CloneFreed /\ StagingReclaimed

LEMMA InitTidy == Init => Tidy
  BY DEF Init, Tidy, Accounted, CloneFreed, StagingReclaimed, NoResult, Running

LEMMA ProducerTidy ==
  ASSUME TypeInv, Tidy, NEW r \in Repos, Producer(r)
  PROVE  Tidy'
  <1>0. /\ UNCHANGED <<pc, staging, manifest>>
        /\ Batch' = Batch
        /\ \A q \in Repos \ {r} : prod'[q] = prod[q] /\ result'[q] = result[q]
        /\ prod[r] \notin {"out", "batched", "recorded"}
    BY ProducerFrame
  <1> DEFINE Frees ==
        /\ \A q \in Repos \ {r} : clone'[q] = clone[q]
        /\ prod'[r] \notin {"out", "batched", "recorded"}
        /\ prod'[r] = "done" /\ result'[r].status \in {"staged", "ok", "failed"} =>
             clone'[r] = "none"
  <1>a. Frees
    <2> USE DEF Goto, Report, TypeInv, TypeOK
    <2>1. CASE SkipLowDisk(r)
      BY <2>1 DEF SkipLowDisk
    <2>2. CASE RejectTooBig(r)
      BY <2>2 DEF RejectTooBig
    <2>3. CASE SizeCheckRaises(r)
      BY <2>3 DEF SizeCheckRaises
    <2>4. CASE Admit(r)
      BY <2>4 DEF Admit
    <2>5. CASE Connect(r)
      BY <2>5 DEF Connect
    <2>6. CASE GitAdvances(r)
      BY <2>6 DEF GitAdvances
    <2>7. CASE ResolveHead(r)
      BY <2>7 DEF ResolveHead
    <2>8. CASE CloneFails(r)
      BY <2>8 DEF CloneFails
    <2>9. CASE Pack(r)
      BY <2>9 DEF Pack
    <2>10. CASE WriteShard(r)
      BY <2>10 DEF WriteShard, Cleaning
    <2>11. CASE StageRaises(r)
      BY <2>11 DEF StageRaises, Cleaning
    <2>12. CASE FreeClone(r)
      BY <2>12 DEF FreeClone
    <2> QED
      BY <2>1, <2>2, <2>3, <2>4, <2>5, <2>6, <2>7, <2>8, <2>9, <2>10, <2>11, <2>12
      DEF Producer
  <1> HIDE DEF Frees
  <1>1. Accounted'
    BY <1>0, <1>a DEF Tidy, Accounted, Frees, DoneOk
  <1>2. CloneFreed'
    BY <1>0, <1>a DEF Tidy, CloneFreed, Frees
  <1>3. StagingReclaimed'
    BY <1>0 DEF Tidy, StagingReclaimed
  <1> QED
    BY <1>1, <1>2, <1>3 DEF Tidy

LEMMA RecordTidy ==
  ASSUME TypeInv, Tidy, NEW r \in Repos, RecordUnstaged(r) \/ RecordBatched(r)
  PROVE  Tidy'
  <1>1. /\ UNCHANGED <<pc, clone, staging>>
        /\ pc \in {"drain", "record"}
        /\ prod[r] \in {"done", "batched"}
        /\ manifest \subseteq manifest'
    BY DEF RecordUnstaged, RecordBatched, consumerVars, Draining, Finished, Append
  <1>2. /\ \A q \in Repos \ {r} : prod'[q] = prod[q] /\ result'[q] = result[q]
        /\ prod'[r] = "recorded"
    BY DEF RecordUnstaged, RecordBatched, Goto, Report, TypeInv, TypeOK
  <1>3. /\ result'[r].status \in {"ok", "failed", "skipped", "too_big"}
        /\ result'[r].status \in {"ok", "failed"} => result[r].status \in {"staged", "failed"}
    <2>1. CASE RecordUnstaged(r)
      BY <2>1 DEF RecordUnstaged, Finished
    <2>2. CASE RecordBatched(r)
      <3>1. result'[r].status = Verdict
        BY <2>2 DEF RecordBatched, Report, TypeInv, TypeOK
      <3>2. result[r].status = "staged"
        BY <2>2 DEF RecordBatched, Tidy, CloneFreed
      <3> QED
        BY <3>1, <3>2 DEF Verdict
    <2> QED
      BY <2>1, <2>2
  <1>4. Accounted'
    <2>1. DoneOk \subseteq DoneOk'
      BY <1>1 DEF DoneOk
    <2> QED
      BY <1>1, <1>2, <1>3, <2>1 DEF Tidy, Accounted, Final
  <1>5. CloneFreed'
    BY <1>1, <1>2, <1>3 DEF Tidy, CloneFreed
  <1>6. StagingReclaimed'
    <2>1. pc = "drain" => prod[r] = "done"
      BY DEF RecordUnstaged, RecordBatched, Finished
    <2>2. pc = "drain" => Batch' = Batch
      BY <1>2, <2>1 DEF Batch
    <2> QED
      BY <1>1, <2>2 DEF Tidy, StagingReclaimed
  <1> QED
    BY <1>4, <1>5, <1>6 DEF Tidy

LEMMA MergeTidy ==
  ASSUME TypeInv, Tidy, NEW r \in Repos, MergeStaged(r)
  PROVE  Tidy'
  <1>1. /\ UNCHANGED <<pc, result, clone, manifest>>
        /\ pc = "drain" /\ prod[r] = "done" /\ result[r].status = "staged"
        /\ \A q \in Repos \ {r} : prod'[q] = prod[q]
        /\ prod'[r] = "batched"
    BY DEF MergeStaged, recordVars, Draining, Finished, Goto, TypeInv, TypeOK
  <1>2. Batch' # {}
    BY <1>1 DEF Batch
  <1> QED
    BY <1>1, <1>2 DEF Tidy, Accounted, CloneFreed, StagingReclaimed, DoneOk

LEMMA ReturnTidy ==
  ASSUME TypeInv, Tidy, Return
  PROVE  Tidy'
  <1>1. /\ UNCHANGED <<prod, result, clone, staging, manifest>>
        /\ pc = "drain" /\ pc' = "returned" /\ Settled /\ Batch = {}
    BY DEF Return, recordVars, NeedsFlush
  <1>2. \A r \in Repos : prod[r] \in {"out", "recorded"}
    BY <1>1 DEF Settled, Batch
  <1> QED
    BY <1>1, <1>2 DEF Tidy, Accounted, CloneFreed, StagingReclaimed, DoneOk, Batch, Running

LEMMA NextTidy ==
  ASSUME TypeInv, Tidy, [Next]_vars
  PROVE  Tidy'
  <1> USE DEF producerVars, recordVars
  <1>1. CASE Start
    <2>1. /\ UNCHANGED manifest /\ staging' = EmptyTree /\ pc' = "drain"
          /\ \A r \in Repos : /\ prod'[r] = IF r \in Pending THEN "queued" ELSE "out"
                              /\ result'[r] = NoResult
      BY <1>1 DEF Start
    <2> QED
      BY <2>1 DEF Tidy, Accounted, CloneFreed, StagingReclaimed, DoneOk, Pending, NoResult
  <1>2. ASSUME NEW r \in Repos, Producer(r) PROVE Tidy'
    BY <1>2, ProducerTidy
  <1>3. ASSUME NEW r \in Repos, MergeStaged(r) PROVE Tidy'
    BY <1>3, MergeTidy
  <1>4. ASSUME NEW r \in Repos, RecordUnstaged(r) \/ RecordBatched(r) PROVE Tidy'
    BY <1>4, RecordTidy
  <1>5. ASSUME (\E r \in Repos : MergeRaises(r) \/ ResultRaises(r))
               \/ StartFlush \/ PublishCorpus \/ PublishCorpusFails
               \/ PublishCatalog \/ PublishCatalogFails \/ AppendRaises \/ Abort
        PROVE  Tidy'
    <2>1. /\ UNCHANGED <<prod, result, clone, manifest>>
          /\ pc \in Running /\ pc' \notin {"drain", "returned"}
      BY <1>5 DEF MergeRaises, ResultRaises, StartFlush, PublishCorpus, PublishCorpusFails,
         PublishCatalog, PublishCatalogFails, AppendRaises, Abort, Draining, Running
    <2> QED
      BY <2>1 DEF Tidy, Accounted, CloneFreed, StagingReclaimed, DoneOk
  <1>6. CASE EndFlush
    <2>1. /\ UNCHANGED <<prod, result, clone, manifest>>
          /\ pc = "record" /\ pc' = "drain"
          /\ ~KeepLocal => staging' = EmptyTree
      BY <1>6 DEF EndFlush, Reclaims
    <2> QED
      BY <2>1 DEF Tidy, Accounted, CloneFreed, StagingReclaimed, DoneOk, Running
  <1>7. CASE Return
    BY <1>7, ReturnTidy
  <1>8. CASE Crash
    <2>1. /\ pc' = "crashed"
          /\ \A r \in Repos : prod'[r] = "out" /\ result'[r] = NoResult
      BY <1>8 DEF Crash
    <2> QED
      BY <2>1 DEF Tidy, Accounted, CloneFreed, StagingReclaimed, NoResult, Running
  <1>9. ASSUME DiscoveryStarts \/ DiscoveryEnds \/ UNCHANGED vars
        PROVE  Tidy'
    <2>1. UNCHANGED <<pc, prod, result, clone, staging, manifest>>
      BY <1>9 DEF DiscoveryStarts, DiscoveryEnds, consumerVars, vars
    <2> QED
      BY <2>1 DEF Tidy, Accounted, CloneFreed, StagingReclaimed, DoneOk, Batch
  <1> QED
    BY <1>1, <1>2, <1>3, <1>4, <1>5, <1>6, <1>7, <1>8, <1>9 DEF Next, Consumer, Over

(* When mirror_all returns every repo it was to process has its final status,
   every other was recorded ok before, and no batch and no clone of a repo it
   processed is left on the disk, in the first run or after any number of
   aborts and crashes. *)
THEOREM CompleteReturn == Spec => []ReturnIsComplete
  <1>1. TypeInv /\ Tidy /\ [Next]_vars => Tidy'
    BY NextTidy
  <1>2. Tidy => ReturnIsComplete
    <2> SUFFICES ASSUME Tidy, pc = "returned" PROVE ReturnIsComplete
      BY DEF ReturnIsComplete
    <2>1. Batch = {}
      BY DEF Tidy, Accounted, Batch
    <2> QED
      BY <2>1 DEF Tidy, Accounted, CloneFreed, StagingReclaimed, ReturnIsComplete
  <1> QED
    BY InitTidy, <1>1, <1>2, DurableInvariant, PTL DEF Spec
=============================================================================
