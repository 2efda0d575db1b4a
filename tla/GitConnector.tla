---------------------------- MODULE GitConnector ----------------------------
(***************************************************************************)
(* src/ctfhoard/connectors/git_repo.py `GitRepoConnector`: the seed list,  *)
(* and `discover` over it - a clone (mirror.py), its licence, and the walk *)
(* for challenge directories - with `resolve_repo_list` of pipeline.py,    *)
(* which is to name the same repos.                                        *)
(*                                                                         *)
(* The walk is a generator within a generator.  What is left of it between *)
(* two steps is the set of directories still to be entered: siblings are   *)
(* sorted and children come before the next sibling, so the next one is    *)
(* always the first of them in path order.  Of a record its provenance is  *)
(* kept and the place in the corpus that its names amount to.              *)
(***************************************************************************)
EXTENDS ChallengeTrees, Licences, DerivedMeta

CONSTANTS
    Repos,
    RepoName,   \* the part of `owner/name` that a root challenge is called by
    OriginOf,   \* _origin_for_repo
    Checkouts,  \* what a clone of each repo may give: a tree with its root licence files
    Lists,      \* what a run may be given, see IsLists
    SizeCap     \* max_repo_size_mb, in the unit of `size`

(* [curated  the entries of official_repos.yaml, section by section,
    listed   discovered_repos.jsonl, line by line (empty if it is not asked for),
    only     the repos --only names; <<>> for no filter,
    most     max_challenges_per_repo; 0 for None, its own 0 cuts as 1 does] *)
Seed == [repo : Repos, official : BOOLEAN, declared : STRING \cup {NoSpdx}]
Candidate == [repo : Repos, size : Nat]

IsLists(l) ==
    /\ l.curated \in Seq(Seed)
    /\ l.listed \in Seq(Candidate)
    /\ l.only \in Seq(Repos)
    /\ l.most \in Nat

ASSUME ConnectorAssumption ==
    /\ Names \subseteq Texts \ {NoText}
    /\ RepoName \in [Repos -> Texts]
    /\ DOMAIN OriginOf = Repos
    /\ \A r \in Repos : \A t \in Checkouts[r] :
          IsTree(t) /\ t.licences \in Seq(SUBSET DOMAIN MarkerRules)
    /\ \A l \in Lists : IsLists(l)
    /\ SizeCap \in Nat

VARIABLES
    lists,     \* those of this run
    names,     \* what is left to read of the repos resolve_repo_list is given
    queue,     \* those it has kept, which mirror_all is given
    entries,   \* what is left to read of the curated ones
    lines,     \* and of the discovered ones
    pc,        \* "resolve", "load", "seeds": between two repos, "root", "walk", "done"
    seeds,     \* the seeds loaded; then those to come, the one in hand first
    clones,    \* the checkouts under the work directory, by repo
    licence,   \* of the repo in hand
    pending,   \* the directories the walk has still to enter
    count,     \* challenges yielded for the repo in hand
    yielded,   \* history: the records
    log        \* history: [repo, outcome] of each seed done

vars == <<lists, names, queue, entries, lines, pc, seeds, clones, licence, pending, count, yielded, log>>

queueVars == <<lists, names, queue>>
listVars == <<queueVars, entries, lines>>
walkVars == <<clones, licence, pending, count, yielded, log>>

-----------------------------------------------------------------------------
(* The lists *)

(* pipeline.py, resolve_repo_list: what mirror_all is given by --only or, for
   --source both, by the two lists. *)
Listing(l) ==
    [i \in DOMAIN l.curated |-> l.curated[i].repo] \o [i \in DOMAIN l.listed |-> l.listed[i].repo]

Named(l) == IF l.only # <<>> THEN l.only ELSE Listing(l)

KeepFirst(seen, r) == IF r \in ToSet(seen) THEN seen ELSE Append(seen, r)

DedupPreserve ==
    /\ pc = "resolve"
    /\ names # <<>>
    /\ queue' = KeepFirst(queue, Head(names))
    /\ names' = Tail(names)
    /\ UNCHANGED <<lists, entries, lines, pc, seeds, walkVars>>

Resolved ==
    /\ pc = "resolve"
    /\ names = <<>>
    /\ pc' = "load"
    /\ UNCHANGED <<listVars, seeds, walkVars>>

(* The connector's own list. *)
Selected(r) == lists.only = <<>> \/ r \in ToSet(lists.only)

(* Curated seeds in the order of the sections. *)
LoadSeed ==
    /\ pc = "load"
    /\ entries # <<>>
    /\ seeds' = IF Selected(Head(entries).repo) THEN Append(seeds, Head(entries)) ELSE seeds
    /\ entries' = Tail(entries)
    /\ UNCHANGED <<queueVars, lines, pc, walkVars>>

(* Each discovered repo that is not there yet, unless it is too big. *)
DiscoveredSeed(r) == [repo |-> r, official |-> FALSE, declared |-> NoSpdx]

BugAddDiscovered(known, c) ==  \* the cap is forgotten
    IF c.repo \in {s.repo : s \in ToSet(known)} \/ ~Selected(c.repo)
    THEN known
    ELSE Append(known, DiscoveredSeed(c.repo))

AddDiscovered(known, c) ==
    IF c.repo \in {s.repo : s \in ToSet(known)} \/ ~Selected(c.repo) \/ c.size > SizeCap
    THEN known
    ELSE Append(known, DiscoveredSeed(c.repo))

LoadDiscoveredSeed ==
    /\ pc = "load"
    /\ entries = <<>>
    /\ lines # <<>>
    /\ seeds' = AddDiscovered(seeds, Head(lines))
    /\ lines' = Tail(lines)
    /\ UNCHANGED <<queueVars, entries, pc, walkVars>>

Discover ==
    /\ pc = "load"
    /\ entries = <<>>
    /\ lines = <<>>
    /\ pc' = "seeds"
    /\ UNCHANGED <<listVars, seeds, walkVars>>

-----------------------------------------------------------------------------
(* The walk *)

repo == seeds[1].repo
tree == clones[repo]

Init ==
    /\ lists \in Lists
    /\ names = Named(lists)
    /\ queue = <<>>
    /\ entries = lists.curated
    /\ lines = lists.listed
    /\ pc = "resolve"
    /\ seeds = <<>>
    /\ clones = <<>>
    /\ licence = Undetected
    /\ pending = {}
    /\ count = 0
    /\ yielded = <<>>
    /\ log = <<>>

(* clone_pinned makes the checkout, or finds it there and reuses it. *)
Clone ==
    /\ pc = "seeds"
    /\ seeds # <<>>
    /\ IF repo \in DOMAIN clones THEN UNCHANGED clones
       ELSE \E t \in Checkouts[repo] :
              clones' = [r \in {repo} \cup DOMAIN clones |-> IF r = repo THEN t ELSE clones[r]]
    /\ licence' = DetectRepoLicense(clones'[repo].licences, seeds[1].declared)
    /\ count' = 0
    /\ pc' = "root"
    /\ UNCHANGED <<listVars, seeds, pending, yielded, log>>

NextSeed(outcome) ==
    /\ seeds' = Tail(seeds)
    /\ log' = Append(log, [repo |-> repo, outcome |-> outcome])
    /\ pc' = "seeds"

(* A failed or timed out git command: the repo is passed over. *)
CloneFails ==
    /\ pc = "seeds"
    /\ seeds # <<>>
    /\ NextSeed("skipped")
    /\ UNCHANGED <<listVars, clones, licence, pending, count, yielded>>

RepoEvent(r) == IF OriginOf[r] = "google_ctf" THEN "Google CTF" ELSE RepoName[r]
MetaOf(d) ==
    DeriveMeta(d, IF d \in DOMAIN tree.json THEN tree.json[d] ELSE NoJson,
               RepoName[repo], RepoEvent(repo))

Yield(d) ==
    /\ count' = count + 1
    /\ yielded' = Append(yielded, [walk |-> Len(log) + 1, repo |-> repo, path |-> d,
                                   place |-> PlaceOf(OriginOf[repo], MetaOf(d)),
                                   licence |-> licence, official |-> seeds[1].official])

(* The root says it is a challenge. *)
RootIsChallenge ==
    /\ pc = "root"
    /\ Root \in DOMAIN tree.json
    /\ Yield(Root)
    /\ NextSeed("walked")
    /\ UNCHANGED <<listVars, clones, licence, pending>>

RootChildren == {d \in Subdirs(tree, Root) : Last(d) \notin Components}

EnterRoot ==
    /\ pc = "root"
    /\ Root \notin DOMAIN tree.json
    /\ pending' = RootChildren
    /\ pc' = "walk"
    /\ UNCHANGED <<listVars, seeds, clones, licence, count, yielded, log>>

BugIsNext(d) == d \in pending  \* siblings in the order the disk gives them
IsNext(d) == d \in pending /\ \A e \in pending \ {d} : Before(d, e)

Cut == lists.most # 0 /\ count' >= lists.most

BugYieldChallenge(d) ==  \* the limit leaves the generator as it is
    /\ pc = "walk"
    /\ IsNext(d)
    /\ IsChallenge(tree, d)
    /\ Yield(d)
    /\ pending' = pending \ {d}
    /\ IF Cut THEN NextSeed("cut") ELSE UNCHANGED <<seeds, log, pc>>
    /\ UNCHANGED <<listVars, clones, licence>>

YieldChallenge(d) ==
    /\ pc = "walk"
    /\ IsNext(d)
    /\ IsChallenge(tree, d)
    /\ Yield(d)
    /\ pending' = IF Cut THEN {} ELSE pending \ {d}
    /\ IF Cut THEN NextSeed("cut") ELSE UNCHANGED <<seeds, log, pc>>
    /\ UNCHANGED <<listVars, clones, licence>>

BugDescend(d) ==  \* the directory is both a challenge and a container
    /\ pc = "walk"
    /\ IsNext(d)
    /\ pending' = (pending \ {d}) \cup Subdirs(tree, d)
    /\ IF IsChallenge(tree, d) THEN Yield(d) ELSE UNCHANGED <<count, yielded>>
    /\ UNCHANGED <<listVars, pc, seeds, clones, licence, log>>

Descend(d) ==
    /\ pc = "walk"
    /\ IsNext(d)
    /\ ~IsChallenge(tree, d)
    /\ pending' = (pending \ {d}) \cup Subdirs(tree, d)
    /\ UNCHANGED <<listVars, pc, seeds, clones, licence, count, yielded, log>>

(* Nothing below: the root may be the challenge. *)
YieldRoot ==
    /\ pc = "walk"
    /\ pending = {}
    /\ count = 0
    /\ IsChallenge(tree, Root)
    /\ Yield(Root)
    /\ NextSeed("walked")
    /\ UNCHANGED <<listVars, clones, licence, pending>>

EndWalk ==
    /\ pc = "walk"
    /\ pending = {}
    /\ count > 0 \/ ~IsChallenge(tree, Root)
    /\ NextSeed("walked")
    /\ UNCHANGED <<listVars, clones, licence, pending, count, yielded>>

EndDiscover ==
    /\ pc = "seeds"
    /\ seeds = <<>>
    /\ pc' = "done"
    /\ UNCHANGED <<listVars, seeds, clones, licence, pending, count, yielded, log>>

Over == pc = "done" /\ UNCHANGED vars

Next ==
    \/ DedupPreserve \/ Resolved \/ LoadSeed \/ LoadDiscoveredSeed \/ Discover
    \/ Clone \/ CloneFails \/ RootIsChallenge \/ EnterRoot
    \/ \E d \in pending : YieldChallenge(d) \/ Descend(d)
    \/ YieldRoot \/ EndWalk \/ EndDiscover \/ Over

Spec == Init /\ [][Next]_vars

-----------------------------------------------------------------------------
(* Properties *)

Outcomes == {"walked", "cut", "skipped"}
Walks == 1..Len(log)

(* Every variable has its type; a generator left behind leaves nothing to the
   next repo's. *)
TypeOK ==
    /\ pc \in {"resolve", "load", "seeds", "root", "walk", "done"}
    /\ lists \in Lists
    /\ queue \in Seq(Repos)
    /\ log \in Seq([repo : Repos, outcome : Outcomes])
    /\ seeds \in Seq(Seed)
    /\ DOMAIN clones \subseteq Repos
    /\ pc \in {"root", "walk"} => seeds # <<>>
    /\ \A d \in pending : d \in Directory
    /\ pc # "walk" => pending = {}
    /\ count \in Nat
    /\ \A i \in DOMAIN yielded : yielded[i].path \in Directory /\ yielded[i].walk \in 1..(Len(log) + 1)

(* git_repo.py:27-28: a walk never emits both a parent and its children, nor a
   directory twice - by their paths: a loop of links gives one directory many. *)
NeverParentAndChild ==
    \A i, j \in DOMAIN yielded :
        yielded[i].walk = yielded[j].walk /\ i # j => ~IsPrefix(yielded[i].path, yielded[j].path)

(* A walk finds the challenge directories the tree has, all of them and in path
   order, so that a walk that was cut has the first of them and the next run
   has the same. *)
Found(k) == {y.path : y \in {z \in ToSet(yielded) : z.walk = k}}
There(k) == IF log[k].repo \in DOMAIN clones THEN ChallengeDirs(clones[log[k].repo]) ELSE {}

InOrder ==
    \A i, j \in DOMAIN yielded :
        yielded[i].walk = yielded[j].walk /\ i < j => Before(yielded[i].path, yielded[j].path)

WalkFindsChallenges ==
    /\ InOrder
    /\ \A k \in Walks :
         CASE log[k].outcome = "skipped" -> Found(k) = {}
           [] log[k].outcome = "walked"  -> Found(k) = There(k)
           [] log[k].outcome = "cut"     ->
                /\ Found(k) \subseteq There(k)
                /\ Cardinality(Found(k)) = lists.most
                /\ \A d \in Found(k) : \A e \in There(k) \ Found(k) : Before(d, e)

(* What the names above a challenge tell of it, wherever they stand: one may be
   a year, a category or an edition; if it is none of these and no wrapper, it
   is an event. *)
Kinds(n) ==
    {k \in {"year", "category", "edition"} :
       CASE k = "year"     -> YearIn[n] # NoYear
         [] k = "category" -> CategoryOf[n] # Unknown
         [] k = "edition"  -> n \in Editions}
Telling(d) == {i \in DOMAIN Front(d) : d[i] \notin Wrappers \/ Kinds(d[i]) # {}}
Called(d, kinds) == {d[i] : i \in {j \in Telling(d) : Kinds(d[j]) = kinds}}

(* Each tells one thing, and no two the same. *)
PlainlyNamed(t, d) ==
    /\ d # Root
    /\ d \notin DOMAIN t.json
    /\ CategoryLabel[Last(d)] = NoText
    /\ \A i \in Telling(d) : Kinds(d[i]) \in {{}, {"year"}, {"category"}, {"edition"}}
    /\ \A i, j \in Telling(d) : Kinds(d[i]) = Kinds(d[j]) => i = j

Events(r, d) == IF Called(d, {}) # {} THEN Called(d, {}) ELSE {RepoEvent(r)}

(* d and e are alike in name, year, category and event: all that tells them
   apart is editions, wrappers, the order of their ancestors or how a name is
   spelt.  Of a pair not both plainly named it says nothing. *)
Namesakes(t, r, d, e) ==
    PlainlyNamed(t, d) /\ PlainlyNamed(t, e) =>
        /\ Slug[Last(d)] = Slug[Last(e)]
        /\ {YearIn[n] : n \in Called(d, {"year"})} = {YearIn[n] : n \in Called(e, {"year"})}
        /\ {CategoryOf[n] : n \in Called(d, {"category"})}
             = {CategoryOf[n] : n \in Called(e, {"category"})}
        /\ {Slug[n] : n \in Events(r, d)} = {Slug[n] : n \in Events(r, e)}

(* Extraction is exhaustive up to four things: an artifact that no challenge of
   a walk takes to a place of its own in the corpus lies in a noise directory,
   or directly in the root of a repo that has other challenges, or in a
   component at the root, or in a challenge whose place a namesake takes over
   later. *)
OnlyKnownLosses ==
    \A k \in Walks : log[k].outcome = "walked" =>
        LET r == log[k].repo
            t == clones[r]
            Records == {i \in DOMAIN yielded : yielded[i].walk = k}
            After(i) == {j \in Records : i < j /\ yielded[j].place = yielded[i].place}
        IN  \A a \in t.artifacts :
              \/ \E i \in Records :
                   /\ IsPrefix(yielded[i].path, a)
                   /\ \A j \in After(i) : Namesakes(t, r, yielded[i].path, yielded[j].path)
              \/ \E i \in DOMAIN a : a[i] \in Noise
              \/ a = Root /\ Records # {}
              \/ a # Root /\ a[1] \in Components

(* git_repo.py:368-371: a part that marks its parent as a challenge (challenge/,
   attachments/, solution/) is no challenge of its own, unless nothing but its
   challenge.json, or only what is behind a link, says there is one. *)
PartsAreNoChallenges ==
    \A y \in ToSet(yielded) :
        y.path # Root /\ Last(y.path) \in Markers =>
            ~SubtreeHasArtifacts(clones[y.repo], Front(y.path))

(* The repos visited are those mirror_all is given, each once and, unless --only
   names them in an order of its own, in that order (git_repo.py:571-572); but
   for discovered ones over the cap and for those that --only names and no list
   has. *)
Listed == {s.repo : s \in ToSet(lists.curated)} \cup {c.repo : c \in ToSet(lists.listed)}
TooBig(r) ==
    /\ r \notin {s.repo : s \in ToSet(lists.curated)}
    /\ \A c \in ToSet(lists.listed) : c.repo = r => c.size > SizeCap

ListedReposVisited ==
    pc = "done" =>
        /\ {log[k].repo : k \in Walks} = {r \in ToSet(queue) : r \in Listed /\ ~TooBig(r)}
        /\ \A i, j \in Walks : i < j =>
              /\ log[i].repo # log[j].repo
              /\ lists.only = <<>> =>
                    \A m, n \in DOMAIN queue :
                        queue[m] = log[i].repo /\ queue[n] = log[j].repo => m < n

(* licenses.py:3-7: a record may be passed on only if the seed of its own walk
   declares a listed licence, or declares nothing and a licence file of its own
   checkout matches the marker of one. *)
OnlyProvenRedistributable ==
    \A y \in ToSet(yielded) : y.licence.redistributable =>
        \E s \in ToSet(lists.curated) \cup {DiscoveredSeed(c.repo) : c \in ToSet(lists.listed)} :
            /\ s.repo = y.repo
            /\ s.official = y.official
            /\ \/ IsRedistributable(s.declared)
               \/ /\ s.declared = NoSpdx
                  /\ \E f \in ToSet(clones[y.repo].licences) :
                       \E m \in f : IsRedistributable(MarkerRules[m])
=============================================================================
