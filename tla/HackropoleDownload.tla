------------------------- MODULE HackropoleDownload -------------------------
(***************************************************************************)
(* src/ctfhoard/connectors/hackropole.py: `discover` over the sitemap's     *)
(* challenge pages and `_download_files` over the handouts of each, in runs *)
(* that resume what earlier ones left on disk.  Between two runs the        *)
(* sitemap and the pages may change; a run may die at any point, a page or  *)
(* a handout fail to arrive, a connection break in mid-body.                *)
(***************************************************************************)
EXTENDS Naturals, FiniteSets, SequencesExt

CONSTANTS
    Sitemaps,        \* what the sitemap may be: sequences of locs
    ChallengePages,  \* the locs with /challenges/ in them
    Limit,           \* `limit`; as many as there are pages is as good as None
    Slug,            \* a page's directory
    Offers,          \* the handouts a page may offer: sequences of links [url, name]
    Size,            \* how many chunks a URL's body decodes to
    Declared,        \* its Content-Length, in chunks, or NoLength
    NoLength,
    CloseEnds,       \* the URLs whose body ends with the connection, whole or not
    MaxFile,         \* MAX_FILE_BYTES
    Nothing,         \* no such file
    MaxRuns

Handouts == UNION {UNION {ToSet(o) : o \in Offers[p]} : p \in ChallengePages}
Urls == {l.url : l \in Handouts}

(* Where a page's handout is stored: workdir / slug / name. *)
Target(p, l) == <<Slug[p], l.name>>
OfferedBy(p) == UNION {ToSet(o) : o \in Offers[p]}
Targets == UNION {{Target(p, l) : l \in OfferedBy(p)} : p \in ChallengePages}

ASSUME DownloadAssumption ==
    /\ \A locs \in Sitemaps : locs \in Seq(ToSet(locs))
    /\ Limit \in Nat
    /\ DOMAIN Slug = ChallengePages
    /\ \A p \in ChallengePages : Offers[p] \subseteq Seq(OfferedBy(p))
    /\ Size \in [Urls -> Nat]
    /\ Declared \in [Urls -> Nat \cup {NoLength}]
    /\ NoLength \notin Nat
    /\ CloseEnds \subseteq {u \in Urls : Declared[u] = NoLength}
    /\ MaxFile \in Nat
    /\ Nothing \notin [of : Urls, got : Nat]
    /\ MaxRuns \in Nat \ {0}

VARIABLES
    pc,       \* "sitemap", "page", "link", "request", "body", "done", "dead"
    pages,    \* the pages left, the one in hand first
    offered,  \* the handouts it offers
    links,    \* those left, the one in hand first
    file,     \* the finalized files, each [of, got] or Nothing
    part,     \* their .part files
    records,  \* the challenges yielded
    listed,   \* history: the pages this run is to visit
    failed,   \* history: the <<page>>s and <<page, URL>>s it could not have
    runs

vars == <<pc, pages, offered, links, file, part, records, listed, failed, runs>>

Init ==
    /\ pc = "sitemap"
    /\ pages = <<>>
    /\ offered = <<>>
    /\ links = <<>>
    /\ file = [t \in Targets |-> Nothing]
    /\ part = [t \in Targets |-> Nothing]
    /\ records = <<>>
    /\ listed = {}
    /\ failed = {}
    /\ runs = 1

-----------------------------------------------------------------------------
(* discover *)

(* Where a challenge page appears in the sitemap for the first time. *)
Firsts(locs) ==
    {i \in DOMAIN locs : locs[i] \in ChallengePages /\ \A j \in 1..(i - 1) : locs[j] # locs[i]}

(* The one sequence of every challenge page once, in the sitemap's order, up to
   the limit: chosen by the places it takes the pages from. *)
ChallengeUrls(locs) ==
    {[k \in DOMAIN at |-> locs[at[k]]] : at \in
       {taken \in SeqOf(Firsts(locs), Limit) :
          /\ \A j, k \in DOMAIN taken : j < k => taken[j] < taken[k]
          /\ \A i \in Firsts(locs) \ ToSet(taken) :
               Len(taken) = Limit /\ \A k \in DOMAIN taken : taken[k] < i}}

SitemapArrives ==
    /\ pc = "sitemap"
    /\ \E locs \in Sitemaps : pages' \in ChallengeUrls(locs)
    /\ listed' = ToSet(pages')
    /\ pc' = "page"
    /\ UNCHANGED <<offered, links, file, part, records, failed, runs>>

PageArrives ==
    /\ pc = "page"
    /\ pages # <<>>
    /\ offered' \in Offers[Head(pages)]
    /\ links' = offered'
    /\ pc' = "link"
    /\ UNCHANGED <<pages, file, part, records, listed, failed, runs>>

(* Given up, not a 200, or not to be parsed. *)
PageFails ==
    /\ pc = "page"
    /\ pages # <<>>
    /\ pages' = Tail(pages)
    /\ failed' = failed \cup {<<Head(pages)>>}
    /\ UNCHANGED <<pc, offered, links, file, part, records, listed, runs>>

(* The record's manifest lists what lies in the challenge's directory. *)
InDir(p) == {t \in Targets : t[1] = Slug[p]}

YieldRecord ==
    /\ pc = "link"
    /\ links = <<>>
    /\ records' = Append(records,
         [page    |-> Head(pages),
          offered |-> ToSet(offered),
          files   |-> {<<t, file[t].of>> : t \in {u \in InDir(Head(pages)) : file[u] # Nothing}},
          parts   |-> {t \in InDir(Head(pages)) : part[t] # Nothing}])
    /\ pages' = Tail(pages)
    /\ offered' = <<>>
    /\ pc' = "page"
    /\ UNCHANGED <<links, file, part, listed, failed, runs>>

Finish ==
    /\ pc = "page"
    /\ pages = <<>>
    /\ pc' = "done"
    /\ UNCHANGED <<pages, offered, links, file, part, records, listed, failed, runs>>

-----------------------------------------------------------------------------
(* _download_files and _stream_to_file, for the handout at the head of links *)

url == Head(links).url
target == Target(Head(pages), Head(links))

BugFinal(t) == file[t] # Nothing /\ file[t].of = url
Final(t) == file[t] # Nothing /\ file[t].got > 0

Resume ==
    /\ pc = "link"
    /\ links # <<>>
    /\ Final(target)
    /\ links' = Tail(links)
    /\ UNCHANGED <<pc, pages, offered, file, part, records, listed, failed, runs>>

Request ==
    /\ pc = "link"
    /\ links # <<>>
    /\ ~Final(target)
    /\ part' = [part EXCEPT ![target] = Nothing]
    /\ pc' = "request"
    /\ UNCHANGED <<pages, offered, links, file, records, listed, failed, runs>>

NextLink ==
    /\ links' = Tail(links)
    /\ pc' = "link"
    /\ UNCHANGED <<pages, offered, records, listed, runs>>

(* Whatever is raised, the handout is dropped with all there is of it. *)
BugDrop ==
    /\ NextLink
    /\ failed' = failed \cup {<<Head(pages), url>>}
    /\ file' = [file EXCEPT ![target] = Nothing]
    /\ UNCHANGED part
Drop ==
    /\ NextLink
    /\ failed' = failed \cup {<<Head(pages), url>>}
    /\ file' = [file EXCEPT ![target] = Nothing]
    /\ part' = [part EXCEPT ![target] = Nothing]

RequestFails ==
    /\ pc = "request"
    /\ Drop

BugTooLarge(n) == n >= MaxFile
TooLarge(n) == n > MaxFile

DeclaredTooLarge ==
    /\ pc = "request"
    /\ Declared[url] # NoLength
    /\ TooLarge(Declared[url])
    /\ NextLink
    /\ UNCHANGED <<file, part, failed>>

BodyStarts ==
    /\ pc = "request"
    /\ Declared[url] # NoLength => ~TooLarge(Declared[url])
    /\ part' = [part EXCEPT ![target] = [of |-> url, got |-> 0]]
    /\ pc' = "body"
    /\ UNCHANGED <<pages, offered, links, file, records, listed, failed, runs>>

BugFits(n) == n <= MaxFile + 1
Fits(n) == ~TooLarge(n)

Chunk ==
    /\ pc = "body"
    /\ part[target].got < Size[url]
    /\ IF Fits(part[target].got + 1)
       THEN part' = [part EXCEPT ![target].got = @ + 1] /\ UNCHANGED <<pc, links>>
       ELSE /\ part' = [part EXCEPT ![target] = Nothing]
            /\ links' = Tail(links)
            /\ pc' = "link"
    /\ UNCHANGED <<pages, offered, file, records, listed, failed, runs>>

(* The body ended, as far as can be seen. *)
Matches == Declared[url] # NoLength => part[target].got = Declared[url]

Promote ==
    /\ Matches
    /\ file' = [file EXCEPT ![target] = part[target]]
    /\ part' = [part EXCEPT ![target] = Nothing]
    /\ NextLink
    /\ UNCHANGED failed

BodyEnds ==
    /\ pc = "body"
    /\ part[target].got = Size[url] \/ url \in CloseEnds
    /\ Promote \/ (~Matches /\ Drop)

BugBodyRaises ==  \* a broken connection is taken for the end
    /\ pc = "body"
    /\ Promote

(* httpx notices a connection that broke, unless the body was to end with it;
   a write may fail as well. *)
BodyRaises ==
    /\ pc = "body"
    /\ Drop

-----------------------------------------------------------------------------

(* The process dies, or the sitemap cannot be had. *)
Crash ==
    /\ pc \notin {"done", "dead"}
    /\ pc' = "dead"
    /\ UNCHANGED <<pages, offered, links, file, part, records, listed, failed, runs>>

Restart ==
    /\ pc \in {"done", "dead"}
    /\ runs < MaxRuns
    /\ runs' = runs + 1
    /\ pc' = "sitemap"
    /\ pages' = <<>>
    /\ offered' = <<>>
    /\ links' = <<>>
    /\ records' = <<>>
    /\ listed' = {}
    /\ failed' = {}
    /\ UNCHANGED <<file, part>>

Over ==
    /\ pc \in {"done", "dead"}
    /\ runs = MaxRuns
    /\ UNCHANGED vars

Connector ==
    \/ SitemapArrives \/ PageArrives \/ PageFails \/ YieldRecord \/ Finish
    \/ Resume \/ Request \/ RequestFails
    \/ DeclaredTooLarge \/ BodyStarts \/ Chunk \/ BodyEnds \/ BodyRaises

Next == Connector \/ Crash \/ Restart \/ Over

Spec == Init /\ [][Next]_vars

-----------------------------------------------------------------------------
(* Properties *)

Stored == [of : Urls, got : Nat] \cup {Nothing}

(* Every variable has its type, no file or .part outgrows the cap, and only the
   handout in hand is being written while a run is under way. *)
TypeOK ==
    /\ pc \in {"sitemap", "page", "link", "request", "body", "done", "dead"}
    /\ pages \in Seq(listed)
    /\ listed \subseteq ChallengePages
    /\ Cardinality(listed) <= Limit
    /\ links \in Seq(ToSet(offered))
    /\ offered \in Seq(Handouts)
    /\ file \in [Targets -> Stored]
    /\ part \in [Targets -> Stored]
    /\ pc \in {"link", "request", "body"} => pages # <<>>
    /\ pc \in {"request", "body"} => links # <<>>
    /\ runs \in 1..MaxRuns
    /\ \A t \in Targets :
         /\ file[t] # Nothing => file[t].got <= MaxFile
         /\ part[t] # Nothing => part[t].got <= MaxFile

(* "A finalized file on disk is always complete": whatever broke off or died
   before, in this run or an earlier one, a file under its final name is the
   whole body of a URL that was offered under that name. *)
FinalIsComplete ==
    \A t \in Targets : file[t] # Nothing =>
        /\ file[t].got = Size[file[t].of]
        /\ \E p \in ChallengePages : \E l \in OfferedBy(p) : l.url = file[t].of /\ Target(p, l) = t

(* Once final, always final: no retry, failure or namesake of a later run takes
   a non-empty handout away or puts another in its place. *)
FinalStays ==
    [][\A t \in Targets : file[t] # Nothing /\ file[t].got > 0 => file'[t] = file[t]]_vars

(* A record lists no .part of a handout its page offers, not even one that a
   dead run left behind.  (Of a handout that its page offers no more it does.) *)
RecordsListFinalFiles ==
    \A r \in ToSet(records) : \A l \in r.offered : Target(r.page, l) \notin r.parts

(* One bad page or handout costs itself: a run that goes through yields every
   page of the sitemap that arrived, once, with every handout on it that
   arrived, or had arrived before, and is not too large; under its name is a
   body that the page offers by that name, now or at an earlier run.  (The pages
   must have slugs of their own, a declared length over the cap must be true,
   and of handouts with one name none may be empty: an empty one is fetched
   again at every run, and a failure then takes it with it.) *)
OnlyFailuresMissing ==
    pc = "done" => \A p \in listed : <<p>> \notin failed =>
        \E i \in DOMAIN records :
          /\ \A j \in DOMAIN records : records[j].page = p <=> j = i
          /\ \A l \in records[i].offered :
               <<p, l.url>> \notin failed /\ Size[l.url] <= MaxFile =>
                 \E m \in OfferedBy(p) :
                   m.name = l.name /\ <<Target(p, l), m.url>> \in records[i].files
=============================================================================
