--------------------------- MODULE DiscoverShards ---------------------------
(***************************************************************************)
(* src/ctfhoard/discover.py: `discover_all`, the recursive bisection of *)
(* `sharded_search` under it, `search_repos` paging each leaf and           *)
(* `_search_page` retrying each request.                                    *)
(*                                                                          *)
(* The generators' recursion is a stack of windows still to be searched,    *)
(* the top one in hand.  A page is fetched and its items consumed in one    *)
(* step: nothing else can happen between the two that either would notice.  *)
(* Meanwhile repos are updated, and the results are sorted by that.         *)
(***************************************************************************)
EXTENDS Naturals, FiniteSets, SequencesExt

CONSTANTS
    Repos,
    Created,      \* each repo's creation day
    Stars,        \* each repo's stars
    Queries,      \* the query list: the set of repos each query matches
    Excluded,     \* repos of the seed file
    LastDay,      \* days run from 1 (_EPOCH) to today
    TopStars,     \* the star range's upper end
    Cap,          \* _RESULT_CAP
    PageSize,     \* search_repos' per_page
    MaxRetries,   \* _MAX_RETRIES
    MaxRepos,     \* max_repos; as many as there are is as good as None
    MaxUpdates    \* bound on the updates of a behaviour

ASSUME ShardsAssumption ==
    /\ IsFiniteSet(Repos)
    /\ LastDay \in Nat \ {0}
    /\ TopStars \in Nat
    /\ Created \in [Repos -> 1..LastDay]
    /\ Stars \in [Repos -> 0..TopStars]
    /\ Queries \in Seq(SUBSET Repos)
    /\ Excluded \subseteq Repos
    /\ Cap \in Nat \ {0}
    /\ PageSize \in Nat \ {0}
    /\ MaxRetries \in Nat \ {0}
    /\ MaxRepos \in Nat
    /\ MaxUpdates \in Nat

VARIABLES
    pc,       \* "idle", "count", "page", "returned", "raised"
    query,    \* the query being searched, or the last one searched
    stack,    \* windows still to search
    page,
    attempt,  \* failed attempts of the request in hand
    found,
    place,    \* GitHub: each repo's place among all, the most recently updated first
    moved,    \* history: the repos updated since the start
    warned    \* history: the searches a warning was logged about

vars == <<pc, query, stack, page, attempt, found, place, moved, warned>>

githubVars == <<place, moved>>

-----------------------------------------------------------------------------
(* Windows: a range of days, and of stars once the days cannot be split *)

Window == [by : {"dates", "stars"}, days : SUBSET (1..LastDay), stars : SUBSET (0..TopStars)]

Dates(lo, hi) == [by |-> "dates", days |-> lo..hi, stars |-> 0..TopStars]
StarsOfDay(w, lo, hi) == [by |-> "stars", days |-> w.days, stars |-> lo..hi]

Low(range) == CHOOSE x \in range : \A y \in range : x <= y
High(range) == CHOOSE x \in range : \A y \in range : y <= x
Mid(range) == Low(range) + (High(range) - Low(range)) \div 2

BugHalves(w) ==  \* the second half starts a day, or a star, late
    IF w.by = "dates"
    THEN <<Dates(Low(w.days), Mid(w.days)), Dates(Mid(w.days) + 2, High(w.days))>>
    ELSE <<StarsOfDay(w, Low(w.stars), Mid(w.stars)),
           StarsOfDay(w, Mid(w.stars) + 2, High(w.stars))>>

Halves(w) ==
    IF w.by = "dates"
    THEN <<Dates(Low(w.days), Mid(w.days)), Dates(Mid(w.days) + 1, High(w.days))>>
    ELSE <<StarsOfDay(w, Low(w.stars), Mid(w.stars)),
           StarsOfDay(w, Mid(w.stars) + 1, High(w.stars))>>

Splittable(w) == IF w.by = "dates" THEN Cardinality(w.days) > 1 ELSE Cardinality(w.stars) > 1

In(r, w) == Created[r] \in w.days /\ Stars[r] \in w.stars

(* What GitHub has for a search, and the first n of it. *)
Hits(q, w) == {r \in Queries[q] : In(r, w)}
Total == Cardinality(Hits(query, Head(stack)))

Ahead(r, repos) == {x \in repos : place[x] < place[r]}
First(n, repos) == {r \in repos : Cardinality(Ahead(r, repos)) < n}

-----------------------------------------------------------------------------

Places == {p \in [Repos -> 1..Cardinality(Repos)] : \A r, x \in Repos : p[r] = p[x] => r = x}

Init ==
    /\ pc = "idle"
    /\ query = 0
    /\ stack = <<>>
    /\ page = 0
    /\ attempt = 0
    /\ found = {}
    /\ place \in Places
    /\ moved = {}
    /\ warned = {}

StartQuery ==
    /\ pc = "idle"
    /\ query < Len(Queries)
    /\ query' = query + 1
    /\ stack' = <<Dates(1, LastDay)>>
    /\ pc' = "count"
    /\ attempt' = 0
    /\ UNCHANGED <<page, found, githubVars, warned>>

ReturnFound ==
    /\ pc = "idle"
    /\ query = Len(Queries)
    /\ pc' = "returned"
    /\ UNCHANGED <<query, stack, page, attempt, found, githubVars, warned>>

(* The windows left, and what to do about them. *)
GoOn(windows) ==
    /\ stack' = windows
    /\ pc' = IF windows = <<>> THEN "idle" ELSE "count"
    /\ attempt' = 0

Warn == warned' = warned \cup {[query |-> query, window |-> Head(stack)]}

(* The count request of the window in hand: drop it, page it, or split it.
   Days are split before stars; a single star value over the cap is logged and
   paged as far as the cap. *)
CountEmpty ==
    /\ pc = "count"
    /\ Total = 0
    /\ GoOn(Tail(stack))
    /\ UNCHANGED <<query, page, found, githubVars, warned>>

CountFits ==
    /\ pc = "count"
    /\ Total > 0
    /\ LET w == Head(stack) IN
         /\ Total <= Cap \/ (w.by = "stars" /\ ~Splittable(w))
         /\ IF Total > Cap THEN Warn ELSE UNCHANGED warned
    /\ pc' = "page"
    /\ page' = 1
    /\ attempt' = 0
    /\ UNCHANGED <<query, stack, found, githubVars>>

CountSplits ==
    /\ pc = "count"
    /\ Total > Cap
    /\ LET w == Head(stack) IN
         \/ /\ Splittable(w)
            /\ GoOn(Halves(w) \o Tail(stack))
         \/ /\ w.by = "dates" /\ ~Splittable(w)
            /\ GoOn(<<StarsOfDay(w, 0, TopStars)>> \o Tail(stack))
    /\ UNCHANGED <<query, page, found, githubVars, warned>>

Least(a, b) == IF a <= b THEN a ELSE b

(* The items of one page, GitHub serving none beyond the cap. *)
Items(hits, p) == First(Least(p * PageSize, Cap), hits) \ First((p - 1) * PageSize, hits)

MaxPages == (Cap + PageSize - 1) \div PageSize

BugLastPage(p, total) == (p + 1) * PageSize >= Least(total, Cap) \/ p = MaxPages
LastPage(p, total) == p * PageSize >= Least(total, Cap) \/ p = MaxPages

(* The new repos among the items, up to max_repos; the next one ends it all.
   A repo in the shards' `seen` set is excluded or found. *)
BugNew(items) == items \ found
New(items) == items \ (found \cup Excluded)
BugRoom == MaxRepos - Cardinality(found) + 1
Room == MaxRepos - Cardinality(found)

ReadPage ==
    /\ pc = "page"
    /\ LET items == Items(Hits(query, Head(stack)), page)
       IN /\ found' = found \cup First(Room, New(items))
          /\ IF Cardinality(New(items)) > Room
             THEN pc' = "returned" /\ UNCHANGED <<stack, page, attempt>>
             ELSE IF items = {} \/ LastPage(page, Total)
                  THEN GoOn(Tail(stack)) /\ UNCHANGED page
                  ELSE /\ page' = page + 1
                       /\ attempt' = 0
                       /\ UNCHANGED <<pc, stack>>
    /\ UNCHANGED <<query, githubVars, warned>>

(* 403, 429, 5xx or a transport error, and another attempt is left. *)
RequestFails ==
    /\ pc \in {"count", "page"}
    /\ attempt + 1 < MaxRetries
    /\ attempt' = attempt + 1
    /\ UNCHANGED <<pc, query, stack, page, found, githubVars, warned>>

(* None is left: (0, []) is what an empty window, and a page past the end, look
   like, so the rest of the window in hand is passed over. *)
BugRetriesForever ==
    /\ pc \in {"count", "page"}
    /\ attempt + 1 >= MaxRetries
    /\ attempt' = 0
    /\ UNCHANGED <<pc, query, stack, page, found, githubVars, warned>>

BugRequestGivenUp ==  \* not logged
    /\ pc \in {"count", "page"}
    /\ attempt + 1 >= MaxRetries
    /\ GoOn(Tail(stack))
    /\ UNCHANGED <<query, page, found, githubVars, warned>>

RequestGivenUp ==
    /\ pc \in {"count", "page"}
    /\ attempt + 1 >= MaxRetries
    /\ Warn
    /\ GoOn(Tail(stack))
    /\ UNCHANGED <<query, page, found, githubVars>>

(* raise_for_status on any other status: what was found goes with the stack. *)
RequestRefused ==
    /\ pc \in {"count", "page"}
    /\ pc' = "raised"
    /\ UNCHANGED <<query, stack, page, attempt, found, githubVars, warned>>

Discoverer ==
    \/ StartQuery \/ ReturnFound
    \/ CountEmpty \/ CountFits \/ CountSplits \/ ReadPage
    \/ RequestFails \/ RequestGivenUp \/ RequestRefused

(* Somebody pushes to r, which goes to the front of every result list. *)
Update(r) ==
    /\ Cardinality(moved) < MaxUpdates
    /\ place' = [x \in Repos |-> IF x = r THEN 1
                                ELSE IF place[x] < place[r] THEN place[x] + 1 ELSE place[x]]
    /\ moved' = moved \cup {r}
    /\ UNCHANGED <<pc, query, stack, page, attempt, found, warned>>

Over ==
    /\ pc \in {"returned", "raised"}
    /\ UNCHANGED vars

Next == Discoverer \/ (\E r \in Repos : Update(r)) \/ Over

Spec == Init /\ [][Next]_vars

(* Every request ends, by its timeout if need be, and every backoff is
   bounded. *)
FairSpec == Spec /\ WF_vars(Discoverer)

-----------------------------------------------------------------------------
(* Properties *)

TypeOK ==
    /\ pc \in {"idle", "count", "page", "returned", "raised"}
    /\ query \in 0..Len(Queries)
    /\ stack \in Seq(Window)
    /\ pc \in {"count", "page"} => stack # <<>>
    /\ page \in 0..MaxPages
    /\ attempt \in 0..MaxRetries - 1
    /\ found \subseteq Repos \ Excluded
    /\ place \in Places
    /\ moved \subseteq Repos

Wanted == (UNION ToSet(Queries)) \ Excluded

(* discover_all searched all its windows; otherwise max_repos cut it short. *)
RanThrough == pc = "returned" /\ stack = <<>>

(* r is in a search about which a warning was logged. *)
LossLogged(r) == \E l \in warned : r \in Queries[l.query] /\ In(r, l.window)

(* discover_all returns every repo its queries match, unless the search that
   would have yielded it was given up or truncated with a warning: bisection,
   paging and retries lose nothing silently.  Updates reorder the results
   between two pages, but only an updated repo can slip past: one that stays
   put is never pushed onto a page already read, or out of the last one. *)
StillReposFound ==
    RanThrough => \A r \in Wanted \ (found \cup moved) : LossLogged(r)

(* max_repos bounds the result, and a search cut short by it has found that
   many. *)
CapRespected ==
    /\ Cardinality(found) <= MaxRepos
    /\ pc = "returned" /\ ~RanThrough => Cardinality(found) = MaxRepos

(* Discovery ends, whatever fails. *)
DiscoveryEnds == <>(pc \in {"returned", "raised"})

(* search_repos' docstring (discover.py:324): every repo of the query is
   yielded, up to the cap; the losses the code knows of are logged. *)
NoSilentLoss ==
    RanThrough => \A r \in Wanted \ found : LossLogged(r)

(* _search_page's docstring (discover.py:256-258): a page given up is skipped,
   the rest of its search is not.  (Where every star value of every day fits
   the cap.) *)
Alike(r) == {x \in Repos : Created[x] = Created[r] /\ Stars[x] = Stars[r]}
OnlyPagesSkipped ==
    RanThrough /\ (\A r \in Repos : Cardinality(Alike(r)) <= Cap) =>
      Cardinality(Wanted \ found) <= PageSize * Cardinality(warned)
=============================================================================
