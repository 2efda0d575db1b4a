---------------------------- MODULE CTFtimeCrawl ----------------------------
(***************************************************************************)
(* src/ctfhoard/connectors/ctftime.py: `_fetch_events` sliding its window   *)
(* over the events API, and `discover` crawling each event's pages before   *)
(* it takes the next, so that hours may pass, and events be announced,      *)
(* between two requests to the API.                                         *)
(***************************************************************************)
EXTENDS Naturals, FiniteSets, SequencesExt

CONSTANTS
    Events,
    NoEvent,
    Second,       \* each event's start
    Undated,      \* the events whose start _iso_to_ts cannot read
    Unbuildable,  \* the events that CtfEvent rejects, for a homepage that is no URL, say
    Tasks,        \* each event's task page: its rows, the task each links first or NoLink
    Writeups,     \* each task's page: its rows, the writeup each links or NoLink
    NoLink,       \* a header, or another table's row
    Inline,       \* the writeups whose page holds their text
    Marked,       \* each writeup page's "original writeup" links, NotHttp for other schemes
    NotHttp,
    Malformed,    \* the http links that pydantic does not take for URLs
    Start, Finish,
    Limit,        \* event_limit
    MaxEvents,    \* max_events; Cardinality(Events) is as good as None
    MaxWriteups,  \* max_writeups_per_task
    MaxLosses     \* bound on the pages that cannot be had

TaskIds == (UNION {ToSet(Tasks[e]) : e \in Events}) \ {NoLink}
WriteupIds == (UNION {ToSet(Writeups[t]) : t \in TaskIds}) \ {NoLink}

ASSUME CrawlAssumption ==
    /\ IsFiniteSet(Events) /\ NoEvent \notin Events
    /\ Second \in [Events -> Nat]
    /\ Undated \subseteq Events
    /\ Unbuildable \subseteq Events
    /\ \A e \in Events : Tasks[e] \in Seq(ToSet(Tasks[e]))
    /\ \A t \in TaskIds : Writeups[t] \in Seq(ToSet(Writeups[t]))
    /\ Inline \subseteq WriteupIds
    /\ DOMAIN Marked = WriteupIds
    /\ Malformed \cap WriteupIds = {}
    /\ Start \in Nat \ {0}
    /\ Finish \in Nat
    /\ Limit \in Nat \ {0}
    /\ MaxEvents \in Nat \ {0}
    /\ MaxWriteups \in Nat
    /\ MaxLosses \in Nat

VARIABLES
    pc,         \* "api", "batch", "tasks", "task", "writeup", "done", "raised"
    window,     \* window_start
    seen,
    batch,      \* what is left of the API page in hand
    event,      \* the event in hand, or NoEvent
    full,       \* whether that page was full
    fresh,      \* new_in_batch # 0
    maxStart,
    table,      \* the tasks left of the event in hand, the task in hand first
    rows,       \* the writeups left of the task in hand
    kept,       \* its Writeups so far
    records,    \* the RawChallenges yielded
    announced,  \* CTFtime: the events its API knows
    early,      \* history: those it knew at the start
    lost        \* history: the pages that could not be had, each by the way to it

vars == <<pc, window, seen, batch, event, full, fresh, maxStart, table, rows, kept, records,
          announced, early, lost>>

windowVars == <<window, seen, full, fresh, maxStart>>
pageVars == <<table, rows, kept, records, lost>>
ctftimeVars == <<announced, early>>

Init ==
    /\ pc = "api"
    /\ window = Start
    /\ seen = {}
    /\ batch = {}
    /\ event = NoEvent
    /\ full = FALSE
    /\ fresh = FALSE
    /\ maxStart = Start
    /\ table = <<>>
    /\ rows = <<>>
    /\ kept = <<>>
    /\ records = <<>>
    /\ announced \in SUBSET Events
    /\ early = announced
    /\ lost = {}

-----------------------------------------------------------------------------
(* _fetch_events *)

(* The API answers with the first `limit` events from the window on, by start;
   events of one second come in any order. *)
InWindow == {e \in announced : window <= Second[e] /\ Second[e] <= Finish}
Earliest(n, events) ==
    {s \in SUBSET events : /\ Cardinality(s) = n
                           /\ \A e \in s, f \in events \ s : Second[e] <= Second[f]}
Foremost(events) == {e \in events : \A f \in events : Second[e] <= Second[f]}

PageLength == IF Cardinality(InWindow) < Limit THEN Cardinality(InWindow) ELSE Limit

FetchPage ==
    /\ pc = "api"
    /\ window < Finish
    /\ InWindow # {}
    /\ batch' \in Earliest(PageLength, InWindow)
    /\ full' = (PageLength = Limit)
    /\ fresh' = FALSE
    /\ maxStart' = window
    /\ pc' = "batch"
    /\ UNCHANGED <<window, seen, event, pageVars, ctftimeVars>>

NoMoreEvents ==
    /\ pc = "api"
    /\ window >= Finish \/ InWindow = {}
    /\ pc' = "done"
    /\ UNCHANGED <<windowVars, batch, event, pageVars, ctftimeVars>>

(* The API client does not retry: an error there ends the connector. *)
FetchRaises ==
    /\ pc = "api"
    /\ window < Finish
    /\ pc' = "raised"
    /\ UNCHANGED <<windowVars, batch, event, pageVars, ctftimeVars>>

PassOver ==
    /\ pc = "batch"
    /\ \E e \in Foremost(batch) : e \in seen /\ batch' = batch \ {e}
    /\ UNCHANGED <<pc, windowVars, event, pageVars, ctftimeVars>>

TakeEvent(e) ==
    /\ pc = "batch"
    /\ batch' = batch \ {e}
    /\ event' = e
    /\ seen' = seen \cup {e}
    /\ fresh' = TRUE
    /\ UNCHANGED <<window, full, maxStart, pageVars, ctftimeVars>>

YieldEvent ==
    \E e \in (Foremost(batch) \ seen) \ Unbuildable : TakeEvent(e) /\ pc' = "tasks"

(* _build_event validates the API's raw fields, outside of any try. *)
EventRaises ==
    \E e \in (Foremost(batch) \ seen) \cap Unbuildable : TakeEvent(e) /\ pc' = "raised"

(* discover() asks for the next event: max_events, then the window's new end,
   which an event without a readable start does not move. *)
NextEvent ==
    /\ event' = NoEvent
    /\ IF Cardinality(seen) >= MaxEvents
       THEN pc' = "done" /\ UNCHANGED maxStart
       ELSE /\ pc' = "batch"
            /\ maxStart' = IF event \notin Undated /\ Second[event] > maxStart
                           THEN Second[event] ELSE maxStart
    /\ UNCHANGED <<window, seen, full, fresh, batch>>

StayWithEvent == UNCHANGED <<windowVars, batch, event>>

BugSlide == maxStart + 1  \* past the last event seen
Slide == maxStart

BugEndBatch ==  \* a short or stale page is no end: only the window is
    /\ pc = "batch"
    /\ batch = {}
    /\ pc' = "api"
    /\ window' = Slide
    /\ UNCHANGED <<seen, full, fresh, maxStart, batch, event, pageVars, ctftimeVars>>

EndBatch ==
    /\ pc = "batch"
    /\ batch = {}
    /\ IF full /\ fresh
       THEN pc' = "api" /\ window' = Slide
       ELSE pc' = "done" /\ UNCHANGED window
    /\ UNCHANGED <<seen, full, fresh, maxStart, batch, event, pageVars, ctftimeVars>>

-----------------------------------------------------------------------------
(* discover, for the event in hand *)

Lose(page) ==
    /\ Cardinality(lost) < MaxLosses
    /\ lost' = lost \cup {page}

(* What a page's rows link to, each once, where it is first linked: a row's count
   or rating may link it again. *)
Linked(rs) ==
    LET links == ToSet(rs) \ {NoLink}
    IN  {q \in SeqOf(links, Len(rs)) :
           /\ ToSet(q) = links
           /\ \A i, j \in DOMAIN q : i < j =>
                 \E k \in DOMAIN rs : rs[k] = q[i] /\ \A l \in 1..k : rs[l] # q[j]}

FetchTasks ==
    /\ pc = "tasks"
    /\ table' \in Linked(Tasks[event])
    /\ IF table' = <<>> THEN NextEvent ELSE pc' = "task" /\ StayWithEvent
    /\ UNCHANGED <<rows, kept, records, ctftimeVars, lost>>

TasksLost ==
    /\ pc = "tasks"
    /\ Lose(<<event>>)
    /\ NextEvent
    /\ UNCHANGED <<table, rows, kept, records, ctftimeVars>>

BugFirstRows(q) == SubSeq(q, 1, IF MaxWriteups < Len(q) THEN MaxWriteups + 1 ELSE Len(q))
FirstRows(q) == SubSeq(q, 1, IF MaxWriteups < Len(q) THEN MaxWriteups ELSE Len(q))

(* The task in hand becomes a record with the writeups kept. *)
Yield(writeups) ==
    /\ records' = Append(records,
         [event |-> event, task |-> Head(table), writeups |-> writeups])
    /\ table' = Tail(table)
    /\ IF Len(table) = 1 THEN NextEvent ELSE pc' = "task" /\ StayWithEvent

FetchTask ==
    /\ pc = "task"
    /\ \E q \in Linked(Writeups[Head(table)]) : rows' = FirstRows(q)
    /\ kept' = <<>>
    /\ IF rows' = <<>>
       THEN Yield(<<>>)
       ELSE pc' = "writeup" /\ StayWithEvent /\ UNCHANGED <<table, records>>
    /\ UNCHANGED <<ctftimeVars, lost>>

BugTaskLost ==  \* the task is skipped with its page
    /\ pc = "task"
    /\ Lose(<<event, Head(table)>>)
    /\ table' = Tail(table)
    /\ IF Len(table) = 1 THEN NextEvent ELSE pc' = "task" /\ StayWithEvent
    /\ UNCHANGED <<rows, kept, records, ctftimeVars>>

(* A task whose page is missing has no writeups. *)
TaskLost ==
    /\ pc = "task"
    /\ Lose(<<event, Head(table)>>)
    /\ Yield(<<>>)
    /\ UNCHANGED <<rows, kept, ctftimeVars>>

KeepRows(writeups) ==
    /\ rows' = Tail(rows)
    /\ kept' = writeups
    /\ IF Len(rows) = 1
       THEN Yield(writeups)
       ELSE StayWithEvent /\ UNCHANGED <<pc, table, records>>

(* The text, if CTFtime has it; else the link to follow; else the page itself. *)
ExternalUrls(w) == SelectSeq(Marked[w], LAMBDA u : u # NotHttp)
UrlOf(w) == IF w \in Inline \/ ExternalUrls(w) = <<>> THEN w ELSE Head(ExternalUrls(w))
BuildWriteup(w) == [url |-> UrlOf(w), inline |-> w \in Inline]

FetchWriteup ==
    /\ pc = "writeup"
    /\ UrlOf(Head(rows)) \notin Malformed
    /\ KeepRows(Append(kept, BuildWriteup(Head(rows))))
    /\ UNCHANGED <<ctftimeVars, lost>>

(* Any "http..." passes _external_url; Writeup validates it, outside of any try. *)
WriteupRaises ==
    /\ pc = "writeup"
    /\ UrlOf(Head(rows)) \in Malformed
    /\ pc' = "raised"
    /\ UNCHANGED <<windowVars, batch, event, pageVars, ctftimeVars>>

WriteupLost ==
    /\ pc = "writeup"
    /\ Lose(<<event, Head(table), Head(rows)>>)
    /\ KeepRows(kept)
    /\ UNCHANGED ctftimeVars

-----------------------------------------------------------------------------

Crawler ==
    \/ FetchPage \/ NoMoreEvents \/ FetchRaises \/ PassOver \/ YieldEvent \/ EventRaises
    \/ EndBatch \/ FetchTasks \/ TasksLost \/ FetchTask \/ TaskLost
    \/ FetchWriteup \/ WriteupRaises \/ WriteupLost

(* CTFtime lists another event. *)
Announce(e) ==
    /\ e \notin announced
    /\ announced' = announced \cup {e}
    /\ UNCHANGED <<pc, windowVars, batch, event, pageVars, early>>

Over ==
    /\ pc \in {"done", "raised"}
    /\ UNCHANGED vars

Next == Crawler \/ (\E e \in Events : Announce(e)) \/ Over

Spec == Init /\ [][Next]_vars

(* Requests time out. *)
FairSpec == Spec /\ WF_vars(Crawler)

-----------------------------------------------------------------------------
(* Properties *)

Built == {BuildWriteup(w) : w \in WriteupIds}

(* Every variable has its type, and the two caps hold at every moment: no more
   than max_events events, no more than max_writeups_per_task writeups a task. *)
TypeOK ==
    /\ pc \in {"api", "batch", "tasks", "task", "writeup", "done", "raised"}
    /\ window \in Start..(IF Start > Finish THEN Start ELSE Finish)
    /\ maxStart \in Nat
    /\ seen \subseteq announced
    /\ Cardinality(seen) <= MaxEvents
    /\ batch \subseteq announced
    /\ event \in seen \cup {NoEvent}
    /\ pc \in {"tasks", "task", "writeup"} => event # NoEvent
    /\ pc \in {"api", "batch", "done"} => event = NoEvent
    /\ full \in BOOLEAN
    /\ fresh \in BOOLEAN
    /\ table \in Seq(TaskIds)
    /\ rows \in Seq(WriteupIds)
    /\ kept \in Seq(Built) /\ Len(kept) <= MaxWriteups
    /\ records \in Seq([event : Events, task : TaskIds, writeups : Seq(Built)])
    /\ \A r \in ToSet(records) : Len(r.writeups) <= MaxWriteups
    /\ early \subseteq announced
    /\ announced \subseteq Events

(* The crawl ran to its end, and not to its cap. *)
Complete == pc = "done" /\ Cardinality(seen) < MaxEvents

(* An event known to CTFtime when the crawl began, and within its window, is
   found: no slide of the window skips it, though pages are cut in the middle
   of a second and events are announced meanwhile.  It needs two things of the
   constants that the code does not see to: the events of a second and those
   without a readable start are together fewer than a page (of more, _fetch_events
   may see the same page twice and stop), and Finish has none (the loop does not
   look at its last second again). *)
EarlyEventsFound ==
    Complete => \A e \in early : Start <= Second[e] /\ Second[e] <= Finish => e \in seen

(* A page that cannot be had costs what hangs below it and nothing else: every
   task that the page of an event found links, however often, is one record,
   unless that page was lost, with every writeup that was wanted and not lost
   itself, in the order and the form CTFtime has them, unless the task's page
   was.  When the crawl raised, the event in hand may lack records, and only it;
   those it has are whole.  What it raised over is the API, an event that cannot be
   built or a writeup's malformed link, and nothing else about an event or its
   pages. *)
Had(page) == page \notin lost
TasksOf(e) == IF Had(<<e>>) THEN ToSet(Tasks[e]) \ {NoLink} ELSE {}

(* The writeups are those that the rows of these numbers link, in their order. *)
FromRows(writeups, wanted, numbers) ==
    \E nth \in [DOMAIN writeups -> numbers] :
        /\ \A i \in numbers : \E k \in DOMAIN writeups : nth[k] = i
        /\ \A k, l \in DOMAIN writeups : k < l => nth[k] < nth[l]
        /\ \A k \in DOMAIN writeups : writeups[k] = BuildWriteup(wanted[nth[k]])

WriteupsHad(writeups, e, t) ==
    IF Had(<<e, t>>)
    THEN \E q \in Linked(Writeups[t]) :
           LET wanted == FirstRows(q)
           IN  FromRows(writeups, wanted, {i \in DOMAIN wanted : Had(<<e, t, wanted[i]>>)})
    ELSE writeups = <<>>

RaisedOver(e) ==
    \/ e \in Unbuildable
    \/ rows # <<>> /\ UrlOf(Head(rows)) \in Malformed

OnlyLostPagesMissing ==
    pc \in {"done", "raised"} =>
      /\ \A e \in seen \ {event} : \A t \in TasksOf(e) :
            \E r \in ToSet(records) : r.event = e /\ r.task = t
      /\ \A i, j \in DOMAIN records :
            records[i].event = records[j].event /\ records[i].task = records[j].task => i = j
      /\ \A r \in ToSet(records) :
            /\ r.event \in seen /\ r.task \in TasksOf(r.event)
            /\ WriteupsHad(r.writeups, r.event, r.task)
      /\ event # NoEvent => pc = "raised" /\ RaisedOver(event)

(* Sliding the window to the last second seen, not past it, cannot go on for
   ever. *)
CrawlEnds == <>(pc \in {"done", "raised"})

-----------------------------------------------------------------------------
(* What the docs say and the code does not do *)

(* ctftime.py:194, 199: one bad page does not abort the crawl. *)
NoPageAborts == pc = "raised" => event = NoEvent \/ event \in Unbuildable
=============================================================================
