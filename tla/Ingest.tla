------------------------------- MODULE Ingest -------------------------------
(***************************************************************************)
(* src/ctfhoard/cli.py `ingest` over corpus.py `materialize_challenge`,     *)
(* dedup.py and storage.py: runs of one connector, one after the other,     *)
(* over the same corpus and catalog.  Between two runs upstream changes, a  *)
(* run may die at any step, a file may fail to copy and a link to answer.   *)
(* --no-materialize is left out.                                           *)
(***************************************************************************)
EXTENDS Identity, Naturals, FiniteSets, SequencesExt

CONSTANTS
    Finds,          \* what discover() and normalize() may give: sequences of challenges
                    \* [name, title, event, year, category, origin, rank, tree,
                    \* writeups]: `name` tells the sources apart, `tree` is the files
                    \* of local_dir with their contents, a writeup [url, inline]
    HardCopyStem,   \* "writeup_00", "writeup_01", ...
    LinkExts,       \* the extensions _writeup_ext may give a fetched body
    FetchWriteups,  \* no --no-fetch-writeups
    MaxRuns, MaxFaults

(* A file is <<directory, stem, extension>>. *)
Challenges == UNION {ToSet(f) : f \in Finds}
IdOf(c) == SynthesizeId(c.event, c.year, c.title, c.category)
PlaceOf(c) == ChallengeRelpath(c.origin, c.event, c.year, c.title, IdOf(c))
Places == {PlaceOf(c) : c \in Challenges}
NoFile == <<"", "", "">>

(* The positions <<i, n>> in a sequence of sequences. *)
Offered(sequences) == UNION {{i} \X (DOMAIN sequences[i]) : i \in DOMAIN sequences}

ASSUME IngestAssumption ==
    /\ IsFiniteSet(Challenges)
    /\ LinkExts # {}
    /\ FetchWriteups \in BOOLEAN
    /\ MaxRuns \in Nat \ {0}
    /\ MaxFaults \in Nat
    /\ \A f \in Finds :
         /\ f \in Seq(ToSet(f))
         /\ \A i, j \in DOMAIN f : f[i].name = f[j].name => i = j
         /\ Cardinality(Offered([i \in DOMAIN f |-> f[i].writeups])) <= Len(HardCopyStem)
    /\ \A c \in Challenges : c.rank \in Nat /\ c.writeups \in Seq(ToSet(c.writeups))
    /\ HardCopyStem \in Seq(STRING)
    /\ \A i, j \in DOMAIN HardCopyStem : HardCopyStem[i] = HardCopyStem[j] => i = j

VARIABLES
    pc,        \* "idle", "open", "copy", "writeups", "catalog", "write", "done"
    todo,      \* the records to be materialized, the one in hand first
    ready,     \* those that are
    uncopied,  \* the files of the record in hand still to be copied
    next,      \* the index of its next writeup
    kept,      \* the names of the hard copies written
    corpus,    \* data/corpus: the files at each place
    catalog,   \* the JSONL shard
    found,     \* history: what the current run found
    skipped,   \* history: the <<place, file>> whose last copy failed
    runs, faults

vars == <<pc, todo, ready, uncopied, next, kept, corpus, catalog, found, skipped, runs, faults>>

inHand == <<uncopied, next, kept>>

Init ==
    /\ pc = "idle"
    /\ todo = <<>>
    /\ ready = <<>>
    /\ uncopied = {}
    /\ next = 1
    /\ kept = {}
    /\ corpus = [p \in Places |-> <<>>]
    /\ catalog = <<>>
    /\ found = <<>>
    /\ skipped = {}
    /\ runs = 0
    /\ faults = 0

-----------------------------------------------------------------------------
(* Normalizing and deduplicating *)

IsSource(file) ==
    file[2] \notin {"README", "writeup", "writeups", "solve", "solves", "solver",
                    "solution", "solutions"}

(* The record of a raw challenge; its manifest is a set of files with contents. *)
Normalized(c) ==
    [id       |-> IdOf(c),
     at       |-> PlaceOf(c),
     rank     |-> c.rank,
     tree     |-> c.tree,
     files    |-> {<<f, c.tree[f]>> : f \in DOMAIN c.tree},
     sources  |-> {c.name},
     writeups |-> [i \in 1..Len(c.writeups) |->
                     [url |-> c.writeups[i].url, inline |-> c.writeups[i].inline, copy |-> NoFile]]]

SourceFiles(record) == {entry \in record.files : IsSource(entry[1])}

(* The content fingerprint; without source files, the id. *)
ClusterKey(record) ==
    IF SourceFiles(record) # {} THEN <<"fp", SourceFiles(record)>> ELSE <<"nofp", {record.id}>>

Urls(writeups) == {w.url : w \in ToSet(writeups)}

(* A finite set from its first to its last, by an order given as a set of pairs. *)
InOrder(S, before) ==
    [n \in 1..Cardinality(S) |->
        CHOOSE x \in S : Cardinality({y \in S : <<y, x>> \in before}) = n - 1]

Cluster(records, i) == {j \in DOMAIN records : ClusterKey(records[j]) = ClusterKey(records[i])}

(* The canonical member is the first of the most authoritative ones. *)
Authority(records) ==
    {o \in (DOMAIN records) \X (DOMAIN records) :
        LET r == records[o[1]]
            s == records[o[2]]
        IN  r.rank > s.rank \/ (r.rank = s.rank /\ o[1] < o[2])}
Canonical(records, members) == InOrder(members, Authority(records))[1]

(* The writeups of the others by their positions, and which of them it lacks. *)
Others(records, members) ==
    {p \in Offered([i \in DOMAIN records |-> records[i].writeups]) :
        p[1] \in members \ {Canonical(records, members)}}
At(records, p) == records[p[1]].writeups[p[2]]
Reading(positions) ==
    {o \in positions \X positions :
        LET p == o[1]
            q == o[2]
        IN  p[1] < q[1] \/ (p[1] = q[1] /\ p[2] < q[2])}

BugLacking(records, members) ==  \* a canonical member with writeups takes no more
    {p \in Others(records, members) : records[Canonical(records, members)].writeups = <<>>}
Lacking(records, members) ==
    LET others == Others(records, members)
    IN  {p \in others :
           /\ At(records, p).url \notin Urls(records[Canonical(records, members)].writeups)
           /\ \A q \in others : <<q, p>> \in Reading(others) => At(records, q).url # At(records, p).url}

(* It takes over what the others have. *)
Merged(records, members) ==
    LET order == InOrder(Lacking(records, members), Reading(Lacking(records, members)))
    IN  [records[Canonical(records, members)] EXCEPT
           !.sources  = UNION {records[i].sources : i \in members},
           !.writeups = @ \o [n \in DOMAIN order |-> At(records, order[n])]]

Deduplicated(records) ==
    LET firsts == {i \in DOMAIN records : \A j \in Cluster(records, i) : i <= j}
        order == InOrder(firsts, {o \in firsts \X firsts : o[1] < o[2]})
    IN  [k \in DOMAIN order |-> Merged(records, Cluster(records, order[k]))]

(* Nothing is on disk yet when discovery or normalization raises: a run that
   ends there is not told from one that never began. *)
Discover ==
    /\ pc \in {"idle", "done"}
    /\ runs < MaxRuns
    /\ runs' = runs + 1
    /\ \E f \in Finds :
         /\ found' = f
         /\ LET records == [i \in 1..Len(f) |-> Normalized(f[i])]
            IN  todo' \in {Deduplicated(records), records}  \* --no-dedup
    /\ ready' = <<>>
    /\ pc' = IF todo' = <<>> THEN "catalog" ELSE "open"
    /\ UNCHANGED <<inHand, corpus, catalog, skipped, faults>>

-----------------------------------------------------------------------------
(* Materializing *)

here == todo[1].at

With(tree, f, content) ==
    [g \in DOMAIN tree \cup {f} |-> IF g = f THEN content ELSE tree[g]]

BugMadeDir == <<>>  \* the challenge's directory is made anew
MadeDir == corpus[here]

BugFirstWriteup == next
FirstWriteup == 1

OpenChallenge ==
    /\ pc = "open"
    /\ corpus' = [corpus EXCEPT ![here] = MadeDir]
    /\ uncopied' = DOMAIN todo[1].tree
    /\ next' = FirstWriteup
    /\ kept' = {}
    /\ pc' = "copy"
    /\ UNCHANGED <<todo, ready, catalog, found, skipped, runs, faults>>

CopySource(f) ==
    /\ corpus' = [corpus EXCEPT ![here] = With(@, f, todo[1].tree[f])]
    /\ uncopied' = uncopied \ {f}
    /\ skipped' = skipped \ {<<here, f>>}
    /\ UNCHANGED <<pc, todo, ready, next, kept, catalog, found, runs, faults>>

(* A file that cannot be copied is passed over. *)
SkipSource(f) ==
    /\ faults < MaxFaults
    /\ faults' = faults + 1
    /\ skipped' = skipped \cup {<<here, f>>}
    /\ uncopied' = uncopied \ {f}
    /\ UNCHANGED <<pc, todo, ready, next, kept, corpus, catalog, found, runs>>

SourcesCopied ==
    /\ pc = "copy"
    /\ uncopied = {}
    /\ pc' = "writeups"
    /\ UNCHANGED <<todo, ready, inHand, corpus, catalog, found, skipped, runs, faults>>

Copying == pc = "copy" /\ \E f \in uncopied : CopySource(f) \/ SkipSource(f)

writeup == todo[1].writeups[next]

BugKept(copy) == kept
Kept(copy) == kept \cup {copy}

Listing(record, n, copy) ==
    LET w == record.writeups[n]
    IN  [record EXCEPT !.writeups = [record.writeups EXCEPT ![n] = [w EXCEPT !.copy = copy]],
                       !.files = record.files \cup {<<copy, w.url>>}]

(* The body of the next writeup becomes a file, and the file an entry. *)
Keep(ext) ==
    LET copy == <<"writeups", HardCopyStem[next], ext>>
    IN  /\ corpus' = [corpus EXCEPT ![here] = With(@, copy, writeup.url)]
        /\ kept' = Kept(copy)
        /\ todo' = [todo EXCEPT ![1] = Listing(todo[1], next, copy)]

KeepInline ==
    /\ writeup.inline
    /\ Keep("md")

FetchLink ==
    /\ ~writeup.inline
    /\ FetchWriteups
    /\ \E ext \in LinkExts : Keep(ext)

LoseLink ==
    /\ ~writeup.inline
    /\ UNCHANGED <<corpus, kept, todo>>

MaterializeWriteup ==
    /\ pc = "writeups"
    /\ next <= Len(todo[1].writeups)
    /\ KeepInline \/ FetchLink \/ LoseLink
    /\ next' = next + 1
    /\ UNCHANGED <<pc, ready, uncopied, catalog, found, skipped, runs, faults>>

(* Only the files of writeups/ itself are looked at. *)
BugStale(tree) == {f \in DOMAIN tree : f[1] = "writeups" /\ kept = {}}
Stale(tree) == {f \in DOMAIN tree : f[1] = "writeups" /\ f \notin kept}

Prune ==
    /\ pc = "writeups"
    /\ next > Len(todo[1].writeups)
    /\ corpus' = [corpus EXCEPT ![here] = [f \in DOMAIN @ \ Stale(@) |-> @[f]]]
    /\ ready' = Append(ready, todo[1])
    /\ todo' = Tail(todo)
    /\ pc' = IF todo' = <<>> THEN "catalog" ELSE "open"
    /\ UNCHANGED <<inHand, catalog, found, skipped, runs, faults>>

(* write_jsonl empties the shard and then writes it, line by line. *)
EmptyShard ==
    /\ pc = "catalog"
    /\ catalog' = <<>>
    /\ pc' = "write"
    /\ UNCHANGED <<todo, ready, inHand, corpus, found, skipped, runs, faults>>

WriteRecord ==
    /\ pc = "write"
    /\ ready # <<>>
    /\ catalog' = Append(catalog, Head(ready))
    /\ ready' = Tail(ready)
    /\ UNCHANGED <<pc, todo, inHand, corpus, found, skipped, runs, faults>>

CloseShard ==
    /\ pc = "write"
    /\ ready = <<>>
    /\ pc' = "done"
    /\ UNCHANGED <<todo, ready, inHand, corpus, catalog, found, skipped, runs, faults>>

(* The process dies, or a write raises. *)
Crash ==
    /\ pc \notin {"idle", "done"}
    /\ faults < MaxFaults
    /\ faults' = faults + 1
    /\ pc' = "idle"
    /\ todo' = <<>>
    /\ ready' = <<>>
    /\ UNCHANGED <<inHand, corpus, catalog, found, skipped, runs>>

Over ==
    /\ pc \in {"idle", "done"}
    /\ runs = MaxRuns
    /\ UNCHANGED vars

Next ==
    \/ Discover \/ OpenChallenge \/ Copying \/ SourcesCopied \/ MaterializeWriteup \/ Prune
    \/ EmptyShard \/ WriteRecord \/ CloseShard \/ Crash \/ Over

Spec == Init /\ [][Next]_vars

-----------------------------------------------------------------------------
(* Properties *)

(* Every variable has its type, and the writeup to come belongs to the record in
   hand: counters do not leak from one record into the next. *)
TypeOK ==
    /\ pc \in {"idle", "open", "copy", "writeups", "catalog", "write", "done"}
    /\ pc \in {"open", "copy", "writeups"} => todo # <<>>
    /\ pc \in {"catalog", "write"} => todo = <<>>
    /\ pc \in {"copy", "writeups"} => next \in 1..(Len(todo[1].writeups) + 1)
    /\ DOMAIN corpus = Places
    /\ \A f \in kept : f[1] = "writeups"
    /\ \A r \in ToSet(todo) \cup ToSet(ready) \cup ToSet(catalog) :
         r.at \in Places /\ Len(r.writeups) <= Len(HardCopyStem)

(* After a run that went through, whatever became of the runs before it, the
   bytes are where the catalog says: every file of a record's manifest, with the
   content its hash was taken of, and every hard copy under the writeup whose
   body it is - but for the files that could not be copied.  Of records that
   share an id and so a place this holds for the last.  (A challenge must bring
   no files of its own in writeups/.) *)
Holds(record, file, content) ==
    \/ <<record.at, file>> \in skipped
    \/ file \in DOMAIN corpus[record.at] /\ corpus[record.at][file] = content

LastAtPlace ==
    {catalog[i] : i \in {k \in DOMAIN catalog :
        \A j \in DOMAIN catalog : catalog[j].at = catalog[k].at => j <= k}}

BytesAreHeld ==
    pc = "done" => \A r \in LastAtPlace :
        /\ \A entry \in r.files : Holds(r, entry[1], entry[2])
        /\ \A w \in ToSet(r.writeups) : w.copy # NoFile => Holds(r, w.copy, w.url)

(* After a run that went through, the place of a record of the shard holds no hard
   copy that the record there does not list, whichever writeups, and under whichever
   names, earlier runs have kept or were keeping when they died.  It says nothing of
   a place the shard has no record for any more: see CorpusIsCatalog. *)
NoStaleWriteups ==
    pc = "done" => \A r \in LastAtPlace : \A f \in DOMAIN corpus[r.at] :
        f[1] = "writeups" => f \in {entry[1] : entry \in r.files}

(* Deduplication loses nothing it was given: each challenge found is a source of
   exactly one record, which has its source files and all its writeups. *)
NothingDropped ==
    pc = "done" => \A c \in ToSet(found) :
        \E r \in ToSet(catalog) :
          /\ c.name \in r.sources
          /\ \A s \in ToSet(catalog) : c.name \in s.sources => s = r
          /\ SourceFiles(Normalized(c)) \subseteq r.files
          /\ Urls(c.writeups) \subseteq Urls(r.writeups)

(* At every moment of a later run, and after its death, the source files the
   catalog names are there: a re-ingest overwrites them and never takes them
   away first. *)
SourcesStayThere ==
    \A r \in ToSet(catalog) : \A f \in DOMAIN r.tree :
        f \in DOMAIN corpus[r.at] \/ <<r.at, f>> \in skipped

-----------------------------------------------------------------------------
(* What the docs say and the code does not do *)

(* corpus.py:220: no hard copy is left that no catalog entry references. *)
CorpusIsCatalog ==
    pc = "done" => \A p \in Places : \A f \in DOMAIN corpus[p] :
        f[1] = "writeups" =>
          \E r \in ToSet(catalog) : r.at = p /\ f \in {entry[1] : entry \in r.files}
=============================================================================
