# A TLA+ verification project for ctfhoard

`ctfhoard` collects CTF challenge sources and writeups from GitHub, CTFtime, Hackropole and Juice Shop,
normalises and de-duplicates them, and publishes the corpus and its catalog to a Hugging Face (HF) dataset.
This directory holds TLA+ models of its core logic, the TLC runs that check them on small instances, and
proofs that TLAPS checks for every value of the constants. Paths below are relative to the repository root
(`src/`), line numbers to the commit modelled.

## 1. Inventory

| Component | Source | State it keeps | Operations | Talks to |
|---|---|---|---|---|
| Mirror pipeline | `pipeline.py` | work queue and futures of a thread pool; `batch_staged`, `batch_bytes`; on disk `raw/`, `work/`, `staging_batch/`, `mirror_state.jsonl` | `stage_repo_isolated` (producer), the `as_completed` consumer of `mirror_all`, `_merge_move`, `_flush_batch`, `_append_manifest`, `_load_done_ok` | git connector, corpus materializer, HF publisher |
| HF publisher | `hf.py` | the remote dataset; one child process and one result queue per attempt | `_upload_folder_with_retry`, `publish_corpus`, `publish_catalog` | pipeline, CLI |
| Pinned clone | `mirror.py` | the clone directory | `clone_pinned`, `_run_git`, `detect_repo_license` | git connector |
| Git connector | `connectors/git_repo.py` | the seed list; what its generators suspend over | `_load_seeds`, `_load_discovered_seeds`, `discover`, `walk_repo`, `_iter_challenge_dirs`, `_derive_meta` | pinned clone, licences, pipeline, CLI |
| Corpus materializer | `corpus.py` | the challenge directory, its `writeups/`, its tarball; the record's manifest | `_copy_sources`, `materialize_challenge`, `_prune_writeups`, `archive_challenge` | pipeline, CLI, netguard |
| GitHub discovery | `discover.py` | recursion over date and star windows, `seen`, `found` | `_search_page`, `search_repos`, `_shard_by_dates`, `_shard_by_stars`, `discover_all`, `write_discovered` | GitHub search, rate limiter |
| CTFtime connector | `connectors/ctftime.py` | `seen`, `window_start`, `emitted` | `_fetch_events`, `discover` and the HTML parsers | CTFtime API, polite client |
| Hackropole connector | `connectors/hackropole.py` | handouts and `.part` files in the work directory | `_challenge_urls`, `_download_files`, `_stream_to_file`, `discover` | Hackropole site, polite client |
| Rate limiter | `ratelimit.py` | `_tokens`, `_last_refill`, `_last_acquire`, a lock | `acquire`, `_refill` | every HTTP caller |
| Polite client | `http.py` | none beyond the limiter | `get` (retry around limiter + request) | connectors, materializer |
| Egress guard | `netguard.py` | the current hop of a redirect chain | `safe_get`, `assert_safe_url` | materializer |
| Dedup | `dedup.py` | none (pure) | `content_fingerprint`, `cluster_by_fingerprint`, `merge_cluster` | pipeline, CLI |
| Normalizer | `normalize.py` | none (pure) | `synthesize_id`, `build_file_manifest`, `normalize`, `slugify`, `map_category` | pipeline, CLI |
| Licences | `licenses.py` | none (pure) | `from_spdx`, `detect_from_text` | mirror, connectors |
| Catalog storage | `storage.py` | the JSONL shard on disk | `write_jsonl`, `merge_jsonl` | pipeline, CLI |
| CLI | `cli.py` | none | `ingest`, `mirror`, `publish-hf`, `discover-github`, `stats` | everything |
| Juice Shop connector | `connectors/juiceshop.py` | none | `discover` | HTTP |
| Schema, registry | `schema.py`, `connectors/base.py`, `connectors/__init__.py` | none | data classes | everything |

The interesting interactions: the pipeline's producers call the git connector, which calls the pinned clone;
its consumer calls the publisher, whose uploads run in child processes with deadlines. Discovery writes
`discovered_repos.jsonl`, which a concurrent mirror run may be reading. The CLI's `ingest` runs one connector
to its end, then dedup, then the materializer, then the catalog writer, over a corpus that earlier runs left.
All HTTP goes through one limiter per client.

What is hard here, and what makes each part correct:

* **Mirror pipeline** - parallel producers, one serial consumer, results in any order, a batch published in two
  commits, a manifest appended afterwards, and a process that may die between any two of these. *A repo recorded
  `ok` is in the dataset; the dataset's catalog never points at a missing archive; a commit holds its batch and
  nothing else; an `ok` repo is not published again unless its record was lost; a run that returns has settled every
  repo; every run ends.*
* **HF publisher** - a child that hangs, dies, or answers after it was given up. *An answer is only ever that of
  the attempt waited for; the call ends; success means the commit landed.*
* **GitHub discovery** - bisecting windows, paging results that are reordered under way, requests given up. *A
  repo is missed only for a logged reason; the cap holds; discovery ends.*
* **CTFtime connector** - a sliding window over pages that cut a second in two, with hours between two pages.
  *No early event is skipped; a lost page costs what hangs below it; the crawl ends, and when it raises it has what came
  before.*
* **Hackropole connector** - downloads that break off, runs that die and resume. *A final name means a whole
  file; it stays; records list nothing else; a failure costs itself.*
* **Rate limiter and polite client** - threads that sleep for the same token. *Interval and rate hold for any
  two grants; somebody always proceeds.*
* **Git connector and licences** - a generator within a generator, consumed while a limit, a failed clone or a
  challenge at the root may end it; layouts nobody agreed on. *A walk yields every topmost challenge directory and
  no other, in an order that makes a cut repeatable; an artifact is lost in known ways only; the repos visited are
  those the pipeline queued; nothing passes for redistributable without a licence of its own.*
* **Ingest (CLI, dedup, normalizer, materializer, storage)** - re-ingestion over a corpus and a catalog that are
  written file by file and not atomically. *After a run that goes through, each record's bytes are where the
  catalog says and its place holds no other hard copy; dedup loses nothing; a dead run takes no source file away.*

## 2. Modules

| Module | Models | State and actions against the code |
|---|---|---|
| `MirrorPipeline` | `pipeline.py`, with what it meets of `mirror.py`, `git_repo.py`, `hf.py`, `discover.py` | `prod`/`result` are the futures and their `RepoResult`s, `clone`, `work`, `staging`, `manifest`, `torn` the disk, `remote` the dataset; `acked` and `swallowed` remember whose `ok` was appended, and whose last one continued a torn line. A producer is `Admit` (or `SkipLowDisk`, `RejectTooBig`, `SizeCheckRaises`), `Connect`, `GitAdvances`/`CloneFails`, `ResolveHead`, `Pack`, `WriteShard` (or `StageRaises`), `FreeClone`; the consumer `MergeStaged`/`RecordUnstaged`/`ResultRaises`, `StartFlush`, `PublishCorpus`, `PublishCatalog` (or their failures, which may leave the commit in the dataset), `RecordBatched`/`AppendRaises`, `EndFlush`, `Return`. `Crash` ends all of it; `Start` is the next run. |
| `PublishOutcome` | the promise of one publish call | abstract specification: `ok` only after the commit landed |
| `UploadRetry` | `hf._upload_folder_with_retry`, `_upload_worker` | the parent's loop, one child process and one queue per attempt; refines `PublishOutcome` |
| `DiscoverShards` | `discover.py` | the recursion is a stack of windows; `Count*` decide whether a window is empty, a leaf or split, `ReadPage` pages a leaf, `RequestFails`/`RequestGivenUp`/`RequestRefused` are `_search_page`; `Update` reorders GitHub's results |
| `CTFtimeCrawl` | `connectors/ctftime.py` | `_fetch_events` (`FetchPage`, `PassOver`, `YieldEvent`, `NextEvent`, `EndBatch`; the page in hand is a set, read by its starts) and, while that generator is suspended, `discover` over the tables of tasks and writeups, by what their rows link to (`Linked`), with `BuildWriteup` for what a writeup page becomes; `FetchRaises`, `EventRaises` (a field that `CtfEvent` rejects) and `WriteupRaises` (a link that `Writeup` rejects) end it; `Announce` is CTFtime |
| `HackropoleDownload` | `connectors/hackropole.py` | `discover` over a sitemap's pages (`ChallengeUrls`, `PageArrives`, `YieldRecord`), `_download_files` and `_stream_to_file` over handouts (`Resume`, `Request`, `BodyStarts`, `Chunk`, `BodyEnds`, `Drop`), `Crash` and `Restart`; sitemap and pages change between runs |
| `ChallengeTrees` | `connectors/git_repo.py`, the predicates on directories | `IsChallengeRoot`, `SubtreeHasArtifacts`, `IsChallenge`; `ChallengeDirs` is the reference: what a walk is to find, told without walking |
| `DerivedMeta` | `_derive_meta`, `walk_repo`'s defaults | title, event, year and category from a path and a `challenge.json`; `PlaceOf` is where that puts the challenge |
| `Licences` | `licenses.py`, `mirror.detect_repo_license` | a licence file is the set of the marker rules its head matches |
| `GitConnector` | `connectors/git_repo.py`, `pipeline.resolve_repo_list` | `DedupPreserve` and `Resolved` read the lists for the pipeline's queue, `LoadSeed`, `LoadDiscoveredSeed` and `Discover` for the connector's own seeds; then `Clone`/`CloneFails`, then the walk: `RootIsChallenge`, `EnterRoot`, `Descend`, `YieldChallenge`, `YieldRoot`, `EndWalk`. The suspended recursion is the set of directories still to be entered |
| `Identity` | `normalize.synthesize_id`, `corpus.challenge_relpath` | ids and places; a digest is what it is taken of |
| `PoliteClient` | `ratelimit.py`, `http.py` | the bucket and its clocks as times since an event; a look at the bucket under the lock is one step (`AcquireAtOnce`, `AcquireLater`, `Wake`); `get`'s attempts around it |
| `Ingest` | `cli.ingest`, `dedup.py`, `normalize.py` (ids, manifest), `corpus.py`, `storage.py` | `Discover` normalizes and, but for `--no-dedup`, deduplicates (`Cluster`, `Canonical`, `Lacking`, `Merged`); `CopySource`, `MaterializeWriteup`, `Prune` are `materialize_challenge`, `EmptyShard`/`WriteRecord` are `write_jsonl`; `Crash` leaves corpus and catalog as they are |
| `MirrorPipelineProofs`, `UploadRetryProofs`, `DiscoverShardsProofs`, `CTFtimeCrawlProofs`, `HackropoleDownloadProofs`, `GitConnectorProofs`, `PoliteClientProofs`, `IngestProofs` | - | theorems about the module each is named after (section 6) |
| `MC...` | - | constant values for TLC |

Data is abstracted to what the properties tell apart. In `MirrorPipeline` a tree is a set of files, an
archive's body the repo it came from, a shard's body the archive paths it points at; in `Ingest` a file's body
is its content's name; in `DiscoverShards` a repo is its day and its stars; in `GitConnector` a
directory is the sequence of its names and a file whether it is an artifact; in `Identity` a slug is a constant function; in `HackropoleDownload` a body is a
count of chunks; in `CTFtimeCrawl` a time is a second. Definitions named `Bug...` are mutated forms of the
definition after them, used to see that a property can fail; nothing else refers to them.

## 3. Composition

`MirrorPipeline` composes producers, git, the discovered list and the publisher. It does not contain the retry
loop of `UploadRetry`: a publish step of the pipeline is `PublishOutcome`'s `Succeed` (the commit is in the
dataset) or `Fail` (it may be), and `UploadRetry` is shown - by TLC and by proof - to implement
`PublishOutcome` under the mapping `outcome <- returned / raised / pending`, `landed <- some attempt's commit
landed`. One thing `PublishOutcome` allows is left out of the pipeline: a commit that lands after its call
failed, when the pipeline has moved on. Such a commit adds files of the batch
that failed and removes none, so what it may do besides is replace a later copy of a file by an earlier one: the
model's files carry no versions and do not show that.

`PublishCorpusFails` and `PublishCatalogFails` therefore both keep and change `remote`.

`GitConnector` extends `ChallengeTrees`, `Licences` and `DerivedMeta`, and `Ingest` extends `Identity`, which
`DerivedMeta` extends too: what the walk yields and what `ingest` stores go by one definition of a place. The pipeline
does not contain the walk: there a repo's challenges are the archives it yields, and each repo has a connector of
its own. That the list given to `mirror_all` and the list the connector builds from the same files name the same
repos, which the pipeline takes for granted, is `ListedReposVisited` of `GitConnector`.

## 4. Runs

| Run | Question | Bounds |
|---|---|---|
| `Mirror` | records, dataset, batch and manifest consistent under every kind of fault and crashes; every run ends | 2 repos (one whose two archives fill a batch, one sharing an archive path with it, discovered and oversize), 2 workers, batches of 2 repos or 2 bytes, 2 faults, 3 runs |
| `MirrorFailedClone` | *violation*: `NoSilentGap` | 2 repos, one git fault |
| `MirrorAborts` | *violation*: `NeverAborts` | 2 repos, the discovered list being rewritten |
| `UploadRetry` | freshness, refinement, end of an upload | 4 attempts |
| `Discover` | nothing that stays as it is missed silently, cap, end | 5 repos on 4 days, search cap 2, pages of 1, 2 retries, `max_repos` 3, one update |
| `DiscoverWindowSkipped` | *violation*: `OnlyPagesSkipped` | 5 repos, no updates |
| `CTFtime` | early events found, records and writeups those of the pages that were had, also when the crawl raises, end | 6 events on 5 seconds, one undated, one that cannot be built, a malformed link, pages of 3, a cap of 5 events, tables with repeated links, 2 writeups a task, 2 losses |
| `Hackropole` | final files whole and lasting, records clean, failures contained | 2 pages, 7 handouts, changing sitemap and pages, 3 runs, any number of failures |
| `GitConnector` | the walk finds the topmost challenges, loses artifacts in four ways only, visits what the pipeline queued, licences proven | every tree of at most 3 directories below the root with names of 5 kinds and artifacts anywhere, pairs of 11 layouts, an archive of 12 directories with a loop of links; 4 repos, 56 lists, a limit of 2 or none |
| `Polite` | interval, rate, progress | 2 threads, 3 attempts, bucket of 4 units at a cost of 3, interval 2, history of 6 ticks |
| `Ingest` | each record against its place in the corpus, dedup | 4 possible crops of at most 3 challenges, titles that slug alike or to nothing among them, with and without dedup, 3 runs, one crash or failed copy |
| `IngestOwnWriteups` | *violation*: `BytesAreHeld` | one run |

Why these are enough. The pipeline's hazards need two producers in flight, a batch that is full and one that is
not, a fault, and a later run that meets what the fault left. Two repos make each of these happen: repo 1's
archives fill a batch by their bytes, so that repo 2's result may arrive while that batch is flushed or go out in
a short one. Two faults let one meet what the other left. A torn manifest line
bites in the run after the next, which has to append over it first: hence the third run. The theorems of section 6
cover any number of repos, workers, faults and runs. In
discovery, a day over the cap that splits by stars or cannot, a leaf of several pages and a second query that
overlaps the first all occur with five repos. The CTFtime pages of three cut the second that holds two events,
one of which has no readable start, and five events before the one that cannot be built reach the cap.
Whether a directory is a challenge is a matter of its own entries, those of its children and the artifacts below
it, and what a walk does about it is a matter of its ancestors: three directories below the root, in a chain or
not, with a component, a marker, a noise and two plain names, show each combination, and a deeper archive repeats
them. A path tells of at most a year, a category, an event and an edition; the layouts put each of them before and
after the others. Two challenges that clash, a third that does not, and a mirror are what dedup tells apart; two
further runs see what a crash left, and what the repair of that left.
The limiter's history of six ticks spans three intervals and more than a full refill; `RateKept` and
`IntervalKept` relate any two grants in it. `MaxFaults`, `MaxRuns`, `MaxUpdates`, `MaxLosses` and `Horizon`
bound the model only: the code has no such limits. `MaxRepos`, `MaxEvents`, `MaxWriteups`, `MaxRetries`,
`MaxAttempts`, `SizeCap` and `lists.most` are the code's own.

Each property of a passing run has a mutant in `PROJECT.json`: a plausible bug in a mapped definition that TLC
finds the property violated by.

## 5. Fairness

* `MirrorPipeline`: weak fairness of each producer and of the consumer. Threads of a pool are scheduled; a git
  command ends or is killed after `_GIT_TIMEOUT`, an upload attempt after `_UPLOAD_TIMEOUT_S`. Faults, crashes
  and the discovery process are not fair.
* `UploadRetry`: weak fairness of the parent only. Its waits have deadlines (`join(timeout)`, `join(30)`,
  `sleep`); a child may hang for ever.
* `DiscoverShards`: weak fairness of the discoverer: requests have timeouts and retries a limit. Updates are not
  fair.
* `CTFtimeCrawl`: weak fairness of the crawler; announcements are not fair.
* `PoliteClient`: weak fairness of the clock and of each thread: a sleep ends, a request has a timeout. Waiters
  are not queued, so the property is that *some* thread proceeds, not each.

## 6. Proofs

Every safety property of a passing run is a theorem, for every value of the constants: any number of repos, events,
pages, workers, threads, faults and runs. Assumptions are those on constants, each named in its module and evaluated
by TLC in the runs, and, where a theorem says `ASSUME`, the conditions in italics below: what the code leaves to its
data, most of them with the counterexample in section 8. The constants of the passing runs meet all of them. Each
proof module has the type invariant first (`TypeCorrect`), with what its own step needs; few of the others are
inductive, and this is what strengthens them.

**`MirrorPipelineProofs`.**

* `Durability`, `NoDanglingRecord`, `CommitHoldsBatch` - `OkImpliesPublished`, `CatalogNeverDangles`,
  `StagingIsBatch`, from `Durable`: what a finished producer reports is what its work directory holds; the batch is
  in the staging tree and, without `keep_local`, nothing else is; every shard of the staging tree points only at
  archives that are there; between the two commits the staged corpus is in the dataset; once both succeeded the
  batch is in the dataset until its records are written. Producers change none of this except their own work
  directory; each consumer step has its lemma; a crash leaves the dataset and the manifest alone.
* `NoRepublish` - `NoDoublePublish`, with no condition, from `WholeSettled`: a repo whose `ok` append returned and
  whose record has a line of its own is in the manifest as it is read back, and was either recorded by this run or
  never queued by it. A torn line is one of the faults: what it swallows is what the property exempts.
* `CompleteReturn` - `ReturnIsComplete`, from `Tidy`: a repo that is not submitted was settled before; a producer
  whose future is done has freed its clone unless it never came to its `try`; an empty batch means an empty staging
  tree.

**`UploadRetryProofs`.** `FreshAnswer` (`AnswerIsFresh`) and `Refinement` (`ImplementsOutcome`, initial states to
initial states and each step to a step or a stutter) from one invariant: attempts not yet begun have no child, no
answer and no commit, and an `ok` in a queue means that its attempt's commit landed.

**`DiscoverShardsProofs`.** `CapHolds` (`CapRespected`), and `NothingLostSilently` (`StillReposFound`): a repo that
stays put and is neither found nor in a window that was warned about is in a window of the stack of the query in
hand (`SearchInv`), and in a leaf it is on the page to be read or on a later one (`LeafInv`). Its lemmas say that
the halves of a range are ranges that make it up, and that pages of the ordered hits leave none out.

**`CTFtimeCrawlProofs`.**

* `NoEventSkipped` - `EarlyEventsFound`, *if the events of a second and the undated ones are together fewer than a page
  holds and `Finish` has none* (`SecondsBelowPage`, `NoneAtFinish`).
  `EventInv`: every early event behind the window is found; ahead of it one is
  found, on the page in hand, or, if the page was full, not before the page's last start; the window slides to the
  last start it could read and nothing found lies past it but what is undated; a full page that brought nothing new is
  of one second and the undated.
* `OnlyLostMissing` - `OnlyLostPagesMissing`, with no condition. `CrawlInv`: the tasks of an event crawled are its
  records, those of the event in hand are its records or still on its table; only pages that were asked for are
  lost; the writeups kept are those of the rows gone by, in their order. `RaisedInv`: with an event in hand, the crawl
  raised over that event's own fields or over the link of the writeup in hand.

**`HackropoleDownloadProofs`.**

* `Stays` - the action property `FinalStays`: the handout in hand had no final file when it was asked for, so what a
  transfer writes, unlinks or promotes is never one.
* `Complete` - `FinalIsComplete`, *if no body ends with its connection only* (`CloseEnds = {}`).
* `NoPartsListed` - `RecordsListFinalFiles`: a target never has both a `.part` and a file, and what is left of the
  handouts gone through is under final names.
* `FailuresStayLocal` - `OnlyFailuresMissing`, *if besides pages have directories of their own (`SlugsDistinct`), a
  body within the cap is not declared over it (`LengthsHonest`), and like-named handouts of a page are not empty
  (`NamesakesNotEmpty`)*: every page listed is to come, failed, or has its one record, and every handout gone
  through and not failed is there.

**`GitConnectorProofs`.**

* `CompleteWalks`, `NoNesting` - `WalkFindsChallenges`, `NeverParentAndChild`, for any tree. `Progress`: what is
  found are topmost challenges, what is pending may be visited and has no challenge above it, everything found comes
  before everything pending, and every topmost challenge is found or at or below a pending directory.
* `PartsStayParts`, `ProvenLicence` - `PartsAreNoChallenges`, `OnlyProvenRedistributable`: each record by itself is
  the root or a topmost challenge of its checkout, with a licence its seed declares or its checkout's files match.
* `KnownLosses` - `OnlyKnownLosses`, for any trees, names and `challenge.json` files. Each artifact where a walk may
  go is below a topmost challenge, the one nearest to the root (`Covered`); each record has the place its repo, its
  path and its checkout give (`PlacesInv`); and challenges that share a place agree in all that plain names tell
  (`OnePlace`, from what `_derive_meta` makes of a path, `PlainMeta`).
* `SameRepos` - `ListedReposVisited`, *if no curated repo has two entries and no line of a discovered repo is within
  the cap that an earlier line of it is over* (`CuratedOnce`, `FirstLineTells`). Both lists are read one entry at a
  time; what was read of each is what is queued, or to be visited, in the order of the lists (`QueueInv`,
  `SeedsInv`), so that neither needs an induction over the list.

**`PoliteClientProofs`.** `Interval` (`IntervalKept`): no grant of the history is younger than the last acquisition
the limiter remembers. `RateBound` (`RateKept`): from any grant on, what was taken and what the bucket holds is at
most a full bucket and the refill since.

**`IngestProofs`.**

* `DedupKeepsAll` - `NothingDropped`: for each challenge found, exactly one record, written, ready or to come, has
  it as a source, with its files and writeups. Clusters partition the records, and what a merge orders it neither
  drops nor repeats.
* `SourcesStay`, `BytesStay` - `SourcesStayThere`, `BytesAreHeld`, *if no challenge brings files in a `writeups/` of
  its own* (`NoOwnWriteups`); `PlacesPruned` - `NoStaleWriteups` without that. `Progress` and `ThroughSettled`: the
  last record at each place that is through is settled - its place has no hard copy it does not list and each file
  it lists with its bytes - except at the place worked at, where what was kept and what is to be copied make up the
  record.

## 7. Model-checked only, and out of reach

Liveness under fairness (`RunEnds`, `CallEnds`, `DiscoveryEnds`, `CrawlEnds`, `SomeoneProceeds`) and anything about
`ENABLED` are beyond TLAPS as installed and stay with TLC. Induction over data is, too: where the code folds over a
list, the models either take one element a step or state the result by sets and orders, and the proofs use only what
that says. The four disagreements of section 8 are shown by TLC's counterexamples.

## 8. Where code and documentation part

Shown by a run each, and listed under `findings`:

1. **A failed clone is recorded `ok`** (`MirrorFailedClone`). `GitRepoConnector.discover` swallows the `MirrorError`
   (`git_repo.py:615-619`), so the repo stages no challenges and resume never tries it again; `pipeline.py:25-31`
   promises a `failed` record and "never a silent gap".
2. **A half-written `discovered_repos.jsonl` aborts the run** (`MirrorAborts`). The size pre-check is outside the
   producer's `try` and catches `OSError` only (`pipeline.py:148, 214`); `pipeline.py:30-31, 180, 547` say that
   nothing raises.
3. **A request given up skips its window** (`DiscoverWindowSkipped`). `(0, [])` is an empty window to the bisection
   (`discover.py:300, 372, 424`); `discover.py:256-258` says the page is skipped.
4. **A challenge's own `writeups/` is emptied** (`IngestOwnWriteups`). `_prune_writeups` deletes whatever is not a
   hard copy of this run (`corpus.py:177-180`), in-repo writeups included, which the manifest goes on listing;
   `corpus.py:220` gives the purpose as "corpus == catalog", and `pipeline.py:257` relies on the files.

Seen in the models with other constants, without a run of their own:

* `MirrorPipeline`, `Faults = {"crash"}`, `MaxRuns = 2`: a checkout cut short by a crash is reused (`mirror.py:116`)
  and its repo recorded `ok` with part of its challenges (`NoSilentGap`).
* `Curated = {1}` of 2 repos: a repo given by `--only` that is in no list is filtered out by the connector
  (`git_repo.py:559, 583`) and recorded `ok` with nothing in it (`NoSilentGap`).
* `BatchSize = 1`, `Workers = 1`: finished work directories pile up while the consumer publishes (`WorkDirsBounded`,
  after `pipeline.py:527-528`).
* A curated seed that is also in the discovered list over the cap is rejected (`SeedsNeverCapped`, after
  `pipeline.py:138, 213`; `pipeline.py:145-147` does not ask).
* The constants of `Mirror`: a torn manifest line swallows the record appended after it, whose repo is published again
  by the next run (`NeverPublishedAgain`; `pipeline.py:362-364`, where `pipeline.py:28` says "never a double publish").
  `NoDoublePublish`, which the run checks, exempts these repos and no others.
* `DiscoverShards`, `MaxUpdates = 1`: a repo updated between two pages moves to the page already read and is lost
  without a word (`NoSilentLoss`, after `discover.py:324`). `StillReposFound` is what holds.
* `CTFtimeCrawl`, `Finish = 3`: events of the window's last second that a full page cut off are not asked for, since
  the loop ends when the window reaches `finish` (`ctftime.py:133, 170`); and with `MCBusySecond`, a second that
  fills a page ends the crawl (168). `EarlyEventsFound` states both conditions.
* The constants of `CTFtime`: one malformed link on a writeup's page ends the crawl (`NoPageAborts`). `_external_url`
  takes any `http...` (`ctftime.py:409`), and `Writeup` validates it outside of the only `try` (282, 197-200); the
  fields of an event are validated so too (172-187, 319). `ctftime.py:194, 199` promise that a bad page does not sink
  the crawl. `ingest` has written nothing by then (`cli.py:83`). `OnlyLostPagesMissing`, which the run checks, says
  what a crawl that raised has yielded, and over what it may raise.
* `PoliteClient`: the requests of a redirect chain go out back to back (`EveryRequestLimited`, after `http.py:43`).
* `HackropoleDownload`, a handout in `CloseEnds`: a body without a length that ends with its connection is promoted
  although it was cut (`FinalIsComplete`).
* `HackropoleDownload`, two runs: the `.part` of a handout that a dead run left, and that the page no longer offers,
  is listed by the next record. `RecordsListFinalFiles` is about what the page offers. With `MCSharedSlug`, two
  pages of one slug (of different categories) share a directory, and a handout of the second that is called like one
  of the first is taken for fetched (`OnlyFailuresMissing`; `hackropole.py:225-229, 302`).
* `HackropoleDownload`, the handout `encoded`: a body that decodes to more than its Content-Length is rejected at
  every run (`hackropole.py:276`); `OnlyFailuresMissing` counts it among the failures.
* `Ingest` and `GitConnector`: titles that slug alike, the Quals and the Finals of one event, or two sub-levels of
  one event, year and category share an id and with it a path, and the second challenge overwrites the first.
  `corpus.py:46-47` says that the id's suffix tells apart challenges that slug alike, and `normalize.py:130-131`
  that distinct titles yield distinct ids. `OnlyKnownLosses` and `BytesAreHeld` say when.
* `GitConnector`: an artifact directly in the root of a repo with other challenges, or in a component of the root
  beside them, belongs to no challenge (`OnlyKnownLosses`); `git_repo.py:14-15` promises "faithful, exhaustive
  extraction".
* `GitConnector`, a repo in two sections of `official_repos.yaml`: it is walked twice, by seeds that may differ in
  their licence, and queued once (`ListedReposVisited`; only discovered repos are compared with the seeds,
  `git_repo.py:571-572`). A repo with two lines in `discovered_repos.jsonl`, the first over the cap and the second
  not, is visited at its second place and queued at its first; `discover_all` finds each repo once.
* `GitConnector`, two editions above one challenge: only the nearest counts as the edition, and the other becomes
  the event, so that `finals/b/quals/a` and `finals/c/quals/a` share a place. `OnlyKnownLosses` compares plainly
  named challenges (`PlainlyNamed`): above which no two names tell the same kind of thing, with no `challenge.json` and
  no category in their own name. Of any other pair it takes a clash for granted.
* `Licences`: the text of the LGPL, version 3, names the GPL before a "version 3", and the GPL's rule comes first
  (`licenses.py:48-50`, after "more specific first" in line 45): it is detected as `GPL-3.0-or-later`.
* `MirrorPipeline`, `Publish = FALSE`: a run without publishing records its repos `ok` (`pipeline.py:387`; 26 says
  `ok` only after publishing), and a later run that does publish passes over them. `OkImpliesPublished` is about
  runs that publish.
* The constants of `Ingest`: a place whose challenge is no longer found, or was merged into that of another place, is
  not pruned, and keeps hard copies that no record lists (`CorpusIsCatalog`; only the challenges of this run are
  materialized, `cli.py:104-113`, while `corpus.py:220` gives "corpus == catalog" as the purpose).
  `NoStaleWriteups`, which the run checks, is about the places of records.
* `Ingest`: a link that does not answer at a re-ingest costs the hard copy that an earlier run made
  (`corpus.py:161-180`).

Left out of the models, so that no property speaks of it:

* `MirrorPipeline`: what `rmtree(ignore_errors=True)` could not remove. A removal is whole, or a crash comes first.
* `GitConnector`: an error of the walk itself (an `OSError` of `iterdir`, a name that is not UTF-8 and that the record's
  model rejects), which ends `discover`; a broken link with the name of an artifact, which `os.walk` counts; and
  `max_challenges_per_repo=0`, which the code takes for a limit and cuts after one record (`most = 0` of the model is
  `None`). "Nor a directory twice" is by path: a loop of links gives one directory many.
* `Licences`: the licence file of a single challenge. `official_repos.yaml:6-8` asks for detection "per-repo/per-file";
  the code reads those of the root.
* `HackropoleDownload`: other content under the same URL at a later run. A handout's body is its URL's.

## 9. Plan

Modelled first was what publishing depends on: the pipeline, the upload, then discovery, the connectors that
keep state, the limiter, ingest, and what feeds them: the walk, ids, names and licences. What is left, in order:

1. `PublishOutcome` inside the pipeline: that `MirrorPipeline`'s publish steps implement it, as a refinement with the
   commit of one batch for the outcome, so that the two modules meet in a theorem and not in a paragraph of section 3.
2. `safe_get`'s chain of hops as part of `PoliteClient`'s request; the kinds of repos in `DiscoverShards`, which a later
   query may upgrade; `--no-materialize` and the licence re-elected for a merged record in `Ingest`.

Not to be modelled: HTML and YAML parsing, the tables of categories and languages (lookups without state), Parquet,
token lookup, logging, the egress guard's address checks, and the Juice Shop connector, which is one request and
one loop.
