------------------------- MODULE CTFtimeCrawlProofs -------------------------
(***************************************************************************)
(* Theorems about CTFtimeCrawl for any events, pages, window, page limit    *)
(* and caps, and any events announced and pages lost during the crawl.     *)
(***************************************************************************)
EXTENDS CTFtimeCrawl, SequenceTheorems, FiniteSetTheorems, TLAPS

-----------------------------------------------------------------------------
(* The window over the events *)

LastSecond == IF Start > Finish THEN Start ELSE Finish

CrawlsEvent == pc \in {"tasks", "task", "writeup"}

(* The window moves between Start and Finish, what is left of a page is within
   it, and max_events leaves room for another event wherever one may come. *)
WindowTyped ==
    /\ pc \in {"api", "batch", "tasks", "task", "writeup", "done", "raised"}
    /\ window \in Start..LastSecond
    /\ maxStart \in window..LastSecond
    /\ pc = "api" => maxStart = window
    /\ announced \subseteq Events
    /\ early \subseteq announced
    /\ seen \subseteq announced
    /\ Cardinality(seen) <= MaxEvents
    /\ pc \in {"api", "batch"} => Cardinality(seen) < MaxEvents
    /\ batch \subseteq announced
    /\ \A e \in batch : window <= Second[e] /\ Second[e] <= Finish
    /\ event \in seen \cup {NoEvent}
    /\ CrawlsEvent => event # NoEvent
    /\ event # NoEvent => CrawlsEvent \/ pc = "raised"
    /\ event # NoEvent => window <= Second[event] /\ Second[event] <= Finish
    /\ full \in BOOLEAN
    /\ fresh \in BOOLEAN

LEMMA EventFacts ==
  ASSUME WindowTyped
  PROVE  /\ window \in Nat /\ maxStart \in Nat /\ Start \in Nat /\ Finish \in Nat /\ LastSecond \in Nat
         /\ Limit \in Nat \ {0} /\ MaxEvents \in Nat \ {0}
         /\ \A e \in Events : Second[e] \in Nat
         /\ \A S \in SUBSET Events : IsFiniteSet(S) /\ Cardinality(S) \in Nat
         /\ seen \subseteq Events /\ batch \subseteq Events /\ early \subseteq Events
         /\ NoEvent \notin Events
  <1>1. /\ Start \in Nat /\ Finish \in Nat /\ Limit \in Nat \ {0} /\ MaxEvents \in Nat \ {0}
        /\ NoEvent \notin Events /\ Second \in [Events -> Nat]
    BY CrawlAssumption
  <1>2. LastSecond \in Nat
    BY <1>1 DEF LastSecond
  <1>3. window \in Nat /\ maxStart \in Nat
    BY <1>1, <1>2 DEF WindowTyped
  <1>4. \A S \in SUBSET Events : IsFiniteSet(S) /\ Cardinality(S) \in Nat
    BY CrawlAssumption, FS_Subset, FS_CardinalityType
  <1> QED
    BY <1>1, <1>2, <1>3, <1>4 DEF WindowTyped

(* A page is a part of what the window shows. *)
LEMMA PageFacts ==
  ASSUME WindowTyped, FetchPage
  PROVE  /\ batch' \subseteq InWindow /\ InWindow \subseteq announced
         /\ \A e \in batch' : window <= Second[e] /\ Second[e] <= Finish
         /\ Cardinality(batch') = PageLength
         /\ full' => Cardinality(batch') = Limit
         /\ ~full' => batch' = InWindow
         /\ \A e \in batch', f \in InWindow \ batch' : Second[e] <= Second[f]
  <1>1. InWindow \subseteq announced /\ announced \subseteq Events
    BY DEF InWindow, WindowTyped
  <1>2. IsFiniteSet(InWindow) /\ Cardinality(InWindow) \in Nat /\ Limit \in Nat
    BY <1>1, EventFacts
  <1>3. /\ batch' \subseteq InWindow
        /\ Cardinality(batch') = PageLength
        /\ \A e \in batch', f \in InWindow \ batch' : Second[e] <= Second[f]
    BY DEF FetchPage, Earliest
  <1>4. full' => Cardinality(batch') = Limit
    BY <1>3 DEF FetchPage
  <1>5. ASSUME ~full'
        PROVE  batch' = InWindow
    <2>1. PageLength = Cardinality(InWindow)
      BY <1>2, <1>5 DEF FetchPage, PageLength
    <2> QED
      BY <2>1, <1>2, <1>3, FS_Subset
  <1> QED
    BY <1>1, <1>3, <1>4, <1>5 DEF InWindow

(* Whatever becomes of the pages of an event: the connector stays with it or
   asks for the next. *)
LEMMA CrawlStep ==
  ASSUME \/ FetchTasks \/ TasksLost \/ FetchTask \/ TaskLost \/ FetchWriteup \/ WriteupLost
  PROVE  /\ CrawlsEvent
         /\ UNCHANGED ctftimeVars
         /\ \/ NextEvent
            \/ StayWithEvent /\ pc' \in {"task", "writeup"}
  <1>1. CASE FetchTasks \/ TasksLost
    BY <1>1 DEF FetchTasks, TasksLost, CrawlsEvent
  <1>2. CASE FetchTask \/ TaskLost
    BY <1>2 DEF FetchTask, TaskLost, Yield, CrawlsEvent
  <1>3. CASE FetchWriteup \/ WriteupLost
    BY <1>3 DEF FetchWriteup, WriteupLost, KeepRows, Yield, CrawlsEvent
  <1> QED
    BY <1>1, <1>2, <1>3

LEMMA NextEventFacts ==
  ASSUME WindowTyped, CrawlsEvent, NextEvent
  PROVE  /\ pc' \in {"batch", "done"} /\ event' = NoEvent
         /\ UNCHANGED <<window, seen, full, fresh, batch>>
         /\ event \in seen /\ event \in Events
         /\ maxStart' \in maxStart..LastSecond
         /\ pc' = "batch" =>
              Cardinality(seen) < MaxEvents /\ (event \notin Undated => Second[event] <= maxStart')
         /\ maxStart' \in {maxStart, Second[event]}
         /\ pc' = "done" => Cardinality(seen) >= MaxEvents
  <1>1. event \in seen /\ event \in Events /\ Second[event] \in Nat /\ Second[event] <= LastSecond
    <2>1. event # NoEvent
      BY DEF WindowTyped
    <2>2. event \in seen /\ event \in Events
      BY <2>1, EventFacts DEF WindowTyped
    <2>3. Second[event] <= Finish /\ Second[event] \in Nat
      BY <2>1, <2>2, EventFacts DEF WindowTyped
    <2> QED
      BY <2>2, <2>3, EventFacts DEF LastSecond
  <1>2. maxStart \in Nat /\ LastSecond \in Nat /\ maxStart <= LastSecond /\ MaxEvents \in Nat
        /\ Cardinality(seen) \in Nat
    BY EventFacts DEF WindowTyped
  <1>3. CASE Cardinality(seen) >= MaxEvents
    BY <1>1, <1>2, <1>3 DEF NextEvent
  <1>4. CASE Cardinality(seen) < MaxEvents
    BY <1>1, <1>2, <1>4 DEF NextEvent
  <1> QED
    BY <1>2, <1>3, <1>4

LEMMA InitWindowTyped ==
  ASSUME Init
  PROVE  WindowTyped
  <1>1. Start \in Nat /\ Finish \in Nat /\ MaxEvents \in Nat \ {0}
    BY CrawlAssumption
  <1>2. Start \in Start..LastSecond
    BY <1>1 DEF LastSecond
  <1>3. Cardinality({}) < MaxEvents /\ Cardinality({}) <= MaxEvents
    BY <1>1, FS_EmptySet
  <1> QED
    BY <1>2, <1>3 DEF Init, WindowTyped, CrawlsEvent

LEMMA NextWindowTyped ==
  ASSUME WindowTyped, [Next]_vars
  PROVE  WindowTyped'
  <1> USE DEF windowVars, ctftimeVars
  <1>1. CASE FetchPage
    <2>1. /\ batch' \subseteq announced
          /\ \A e \in batch' : window <= Second[e] /\ Second[e] <= Finish
      BY <1>1, PageFacts
    <2>2. maxStart' \in window'..LastSecond
      BY <1>1, EventFacts DEF FetchPage, WindowTyped
    <2> QED
      BY <1>1, <2>1, <2>2 DEF FetchPage, WindowTyped, CrawlsEvent
  <1>2. CASE NoMoreEvents
    BY <1>2 DEF NoMoreEvents, WindowTyped, CrawlsEvent
  <1>3. CASE FetchRaises
    BY <1>3 DEF FetchRaises, WindowTyped, CrawlsEvent
  <1>4. CASE PassOver
    BY <1>4 DEF PassOver, WindowTyped, CrawlsEvent
  <1>5. CASE YieldEvent \/ EventRaises
    <2>1. PICK e \in batch : /\ e \notin seen
                             /\ batch' = batch \ {e} /\ event' = e /\ seen' = seen \cup {e}
      BY <1>5 DEF YieldEvent, EventRaises, TakeEvent, Foremost
    <2>2. e \in announced /\ e # NoEvent /\ window <= Second[e] /\ Second[e] <= Finish
      BY EventFacts DEF WindowTyped
    <2>3. Cardinality(seen') <= MaxEvents
      <3>1. IsFiniteSet(seen) /\ Cardinality(seen) \in Nat /\ MaxEvents \in Nat
        BY EventFacts
      <3>2. Cardinality(seen) < MaxEvents
        BY <1>5 DEF YieldEvent, EventRaises, TakeEvent, WindowTyped
      <3>3. Cardinality(seen \cup {e}) = Cardinality(seen) + 1
        BY <2>1, <3>1, FS_AddElement
      <3> QED
        BY <2>1, <3>1, <3>2, <3>3
    <2> QED
      BY <1>5, <2>1, <2>2, <2>3 DEF YieldEvent, EventRaises, TakeEvent, WindowTyped, CrawlsEvent
  <1>6. CASE EndBatch
    <2>1. PICK w : w = IF full /\ fresh THEN maxStart ELSE window
      OBVIOUS
    <2>2. window' = w /\ w \in Start..LastSecond /\ maxStart \in w..LastSecond
      BY <1>6, <2>1, EventFacts DEF EndBatch, Slide, WindowTyped
    <2>3. UNCHANGED <<seen, full, fresh, maxStart, batch, event, announced, early>>
      BY <1>6 DEF EndBatch
    <2>4. /\ pc = "batch" /\ batch = {} /\ pc' \in {"api", "done"}
          /\ pc' = "api" => maxStart = w
      BY <1>6, <2>1 DEF EndBatch
    <2>5. event = NoEvent
      BY <2>4 DEF WindowTyped, CrawlsEvent
    <2> QED
      BY <2>2, <2>3, <2>4, <2>5 DEF WindowTyped, CrawlsEvent
  <1>7. CASE FetchTasks \/ TasksLost \/ FetchTask \/ TaskLost \/ FetchWriteup \/ WriteupLost
    <2>1. CrawlsEvent /\ UNCHANGED ctftimeVars
      BY <1>7, CrawlStep
    <2>2. CASE NextEvent
      <3>1. maxStart' \in window..LastSecond
        BY <2>1, <2>2, NextEventFacts, EventFacts DEF WindowTyped
      <3> QED
        BY <2>1, <2>2, <3>1, NextEventFacts DEF WindowTyped, CrawlsEvent
    <2>3. CASE StayWithEvent /\ pc' \in {"task", "writeup"}
      BY <2>1, <2>3 DEF StayWithEvent, WindowTyped, CrawlsEvent
    <2> QED
      BY <1>7, <2>2, <2>3, CrawlStep
  <1>8. ASSUME NEW e \in Events, Announce(e)
        PROVE  WindowTyped'
    BY <1>8 DEF Announce, WindowTyped, CrawlsEvent
  <1>9. CASE Over \/ UNCHANGED vars
    BY <1>9 DEF Over, vars, WindowTyped, CrawlsEvent
  <1>10. CASE WriteupRaises
    BY <1>10 DEF WriteupRaises, WindowTyped, CrawlsEvent
  <1> QED
    BY <1>1, <1>2, <1>3, <1>4, <1>5, <1>6, <1>7, <1>8, <1>9, <1>10 DEF Next, Crawler

-----------------------------------------------------------------------------
(* Events known from the start are found *)

(* The two things the code leaves to its data: the events of a second and those
   without a readable start are fewer than a page, and Finish has none. *)
SecondsBelowPage ==
    \A s \in Nat : Cardinality({e \in Events : Second[e] = s \/ e \in Undated}) < Limit
NoneAtFinish == \A e \in Events : Second[e] # Finish

(* Behind the window, every early event is found. *)
BehindWindow ==
    \A e \in early : Start <= Second[e] /\ Second[e] < window /\ Second[e] <= Finish => e \in seen

(* While a page is in hand, an early event in the window is found, is left on
   the page, or comes after the whole page; and the window will slide no further
   than the page reaches. *)
AheadOfWindow ==
    pc \in {"batch", "tasks", "task", "writeup"} =>
        \A e \in early : window <= Second[e] /\ Second[e] <= Finish =>
            \/ e \in seen
            \/ e \in batch
            \/ /\ full
               /\ maxStart <= Second[e]
               /\ \A f \in batch \cup {event} : f \in Events => Second[f] <= Second[e]

(* Nothing found so far lies past where the window slides, but what has no
   readable start. *)
FoundBehind ==
    pc \notin {"done", "raised"} => \A e \in (seen \ {event}) \ Undated : Second[e] <= maxStart

(* A full page that has brought nothing new so far is of the window's first
   second or without a readable start, as far as it is read. *)
StalePage ==
    /\ CrawlsEvent => fresh
    /\ pc = "batch" /\ ~fresh =>
         /\ maxStart = window
         /\ full => Limit <= Cardinality(batch \cup {e \in Events : Second[e] = window \/ e \in Undated})

EventInv == WindowTyped /\ BehindWindow /\ AheadOfWindow /\ FoundBehind /\ StalePage

LEMMA InitEventInv ==
  ASSUME Init
  PROVE  EventInv
  <1>1. WindowTyped
    BY InitWindowTyped
  <1>2. BehindWindow
    <2>1. \A e \in early : Second[e] \in Nat
      BY <1>1, EventFacts
    <2> QED
      BY <1>1, <2>1, EventFacts DEF Init, BehindWindow
  <1> QED
    BY <1>1, <1>2 DEF Init, EventInv, AheadOfWindow, FoundBehind, StalePage, CrawlsEvent

LEMMA FetchPageKeeps ==
  ASSUME EventInv, FetchPage, WindowTyped'
  PROVE  EventInv'
  <1>0. /\ WindowTyped /\ pc = "api" /\ pc' = "batch" /\ maxStart' = window /\ maxStart = window
        /\ UNCHANGED <<window, seen, early, event>> /\ event = NoEvent /\ ~fresh'
    BY DEF FetchPage, EventInv, WindowTyped, CrawlsEvent, ctftimeVars
  <1>1. BehindWindow'
    BY <1>0 DEF EventInv, BehindWindow
  <1>2. AheadOfWindow'
    <2> SUFFICES ASSUME NEW e \in early, window <= Second[e], Second[e] <= Finish, e \notin batch'
                 PROVE  /\ full' /\ maxStart' <= Second[e]
                        /\ \A f \in batch' \cup {event} : f \in Events => Second[f] <= Second[e]
      BY <1>0 DEF AheadOfWindow
    <2>1. e \in InWindow
      BY <1>0 DEF InWindow, WindowTyped
    <2>2. full'
      BY <1>0, <2>1, PageFacts
    <2>3. \A f \in batch' : Second[f] <= Second[e]
      BY <1>0, <2>1, PageFacts
    <2>4. event \notin Events
      BY <1>0, EventFacts
    <2> QED
      BY <1>0, <2>2, <2>3, <2>4
  <1>3. FoundBehind'
    BY <1>0 DEF EventInv, FoundBehind
  <1>4. StalePage'
    <2> SUFFICES ASSUME full'
                 PROVE  Limit <= Cardinality(batch' \cup {e \in Events : Second[e] = window \/ e \in Undated})
      BY <1>0 DEF StalePage, CrawlsEvent
    <2>1. Cardinality(batch') = Limit
      BY <1>0, PageFacts
    <2>2. batch' \subseteq Events
      BY <1>0, PageFacts DEF WindowTyped
    <2>3. PICK S : S = batch' \cup {e \in Events : Second[e] = window \/ e \in Undated}
      OBVIOUS
    <2>4. S \subseteq Events /\ batch' \subseteq S
      BY <2>2, <2>3
    <2>5. IsFiniteSet(S) /\ Cardinality(S) \in Nat
      BY <1>0, <2>4, EventFacts
    <2>6. Cardinality(batch') <= Cardinality(S)
      BY <2>4, <2>5, FS_Subset
    <2> QED
      BY <2>1, <2>3, <2>6
  <1> QED
    BY <1>1, <1>2, <1>3, <1>4 DEF EventInv

LEMMA PassOverKeeps ==
  ASSUME EventInv, PassOver, WindowTyped'
  PROVE  EventInv'
  <1>0. /\ WindowTyped /\ pc = "batch" /\ pc' = "batch" /\ event = NoEvent
        /\ UNCHANGED <<window, maxStart, seen, early, event, full, fresh>>
    BY DEF PassOver, EventInv, WindowTyped, CrawlsEvent, ctftimeVars, windowVars
  <1>1. PICK e \in batch : e \in seen /\ batch' = batch \ {e}
    BY DEF PassOver, Foremost
  <1>2. BehindWindow' /\ FoundBehind'
    BY <1>0 DEF EventInv, BehindWindow, FoundBehind
  <1>3. AheadOfWindow'
    <2>1. \A x \in early : window <= Second[x] /\ Second[x] <= Finish =>
            \/ x \in seen
            \/ x \in batch
            \/ /\ full /\ maxStart <= Second[x]
               /\ \A f \in batch \cup {event} : f \in Events => Second[f] <= Second[x]
      BY <1>0 DEF EventInv, AheadOfWindow
    <2> QED
      BY <1>0, <1>1, <2>1 DEF AheadOfWindow
  <1>4. StalePage'
    <2> SUFFICES ASSUME ~fresh
                 PROVE  /\ maxStart = window
                        /\ full => Limit <= Cardinality(batch' \cup {x \in Events : Second[x] = window \/ x \in Undated})
      BY <1>0 DEF StalePage, CrawlsEvent
    <2>1. /\ maxStart = window
          /\ full => Limit <= Cardinality(batch \cup {x \in Events : Second[x] = window \/ x \in Undated})
      BY <1>0 DEF EventInv, StalePage
    <2>2. e \in Events /\ (Second[e] = window \/ e \in Undated)
      <3> SUFFICES ASSUME e \notin Undated
                   PROVE  e \in Events /\ Second[e] = window
        BY <1>0, EventFacts
      <3>1. e # event /\ e \in Events
        BY <1>0, EventFacts
      <3>2. Second[e] <= maxStart /\ window <= Second[e] /\ Second[e] \in Nat /\ window \in Nat
        BY <1>0, <1>1, <3>1, EventFacts DEF EventInv, FoundBehind, WindowTyped
      <3> QED
        BY <2>1, <3>1, <3>2
    <2>3. batch' \cup {x \in Events : Second[x] = window \/ x \in Undated} = batch \cup {x \in Events : Second[x] = window \/ x \in Undated}
      BY <1>1, <2>2
    <2> QED
      BY <2>1, <2>3
  <1> QED
    BY <1>2, <1>3, <1>4 DEF EventInv

LEMMA YieldEventKeeps ==
  ASSUME EventInv, YieldEvent, WindowTyped'
  PROVE  EventInv'
  <1>0. /\ WindowTyped /\ pc = "batch" /\ pc' = "tasks" /\ event = NoEvent
        /\ UNCHANGED <<window, maxStart, early, full>> /\ fresh'
    BY DEF YieldEvent, TakeEvent, EventInv, WindowTyped, CrawlsEvent, ctftimeVars
  <1>1. PICK e \in batch : batch' = batch \ {e} /\ event' = e /\ seen' = seen \cup {e}
    BY DEF YieldEvent, TakeEvent, Foremost
  <1>2. e \in Events
    BY <1>0, EventFacts
  <1>3. BehindWindow'
    BY <1>0, <1>1 DEF EventInv, BehindWindow
  <1>4. FoundBehind'
    <2>1. event \notin seen
      BY <1>0, EventFacts
    <2> QED
      BY <1>0, <1>1, <2>1 DEF EventInv, FoundBehind
  <1>5. AheadOfWindow'
    <2>1. \A x \in early : window <= Second[x] /\ Second[x] <= Finish =>
            \/ x \in seen
            \/ x \in batch
            \/ /\ full /\ maxStart <= Second[x]
               /\ \A f \in batch \cup {event} : f \in Events => Second[f] <= Second[x]
      BY <1>0 DEF EventInv, AheadOfWindow
    <2> QED
      BY <1>0, <1>1, <2>1 DEF AheadOfWindow
  <1>6. StalePage'
    BY <1>0 DEF StalePage, CrawlsEvent
  <1> QED
    BY <1>3, <1>4, <1>5, <1>6 DEF EventInv

(* Where the crawl raises, only what lies behind the window still counts. *)
LEMMA RaisingKeeps ==
  ASSUME EventInv, EventRaises \/ WriteupRaises, WindowTyped'
  PROVE  EventInv'
  <1>1. pc' = "raised" /\ UNCHANGED <<window, early>> /\ seen \subseteq seen'
    BY DEF EventRaises, TakeEvent, WriteupRaises, windowVars, ctftimeVars
  <1> QED
    BY <1>1 DEF EventInv, BehindWindow, AheadOfWindow, FoundBehind, StalePage, CrawlsEvent

LEMMA EndBatchKeeps ==
  ASSUME EventInv, EndBatch, WindowTyped'
  PROVE  EventInv'
  <1>0. /\ WindowTyped /\ pc = "batch" /\ pc' \in {"api", "done"} /\ event = NoEvent /\ batch = {}
        /\ UNCHANGED <<seen, maxStart, early, event, full, fresh>>
        /\ window' = (IF full /\ fresh THEN maxStart ELSE window)
    BY DEF EndBatch, Slide, EventInv, WindowTyped, CrawlsEvent, ctftimeVars
  <1>1. BehindWindow'
    <2> SUFFICES ASSUME NEW e \in early, Start <= Second[e], Second[e] < window', Second[e] <= Finish
                 PROVE  e \in seen
      BY <1>0 DEF BehindWindow
    <2>1. CASE Second[e] < window
      BY <2>1 DEF EventInv, BehindWindow
    <2>2. CASE window <= Second[e]
      <3>1. Second[e] \in Nat /\ maxStart \in Nat /\ window \in Nat
        BY <1>0, EventFacts
      <3>2. ~(maxStart <= Second[e])
        BY <1>0, <2>2, <3>1
      <3> QED
        BY <1>0, <2>2, <3>2 DEF EventInv, AheadOfWindow
    <2>3. Second[e] \in Nat /\ window \in Nat
      BY <1>0, EventFacts
    <2> QED
      BY <2>1, <2>2, <2>3
  <1>2. FoundBehind'
    BY <1>0 DEF EventInv, FoundBehind
  <1> QED
    BY <1>0, <1>1, <1>2 DEF EventInv, AheadOfWindow, StalePage, CrawlsEvent

LEMMA CrawlKeeps ==
  ASSUME EventInv, CrawlsEvent, UNCHANGED ctftimeVars, WindowTyped',
         NextEvent \/ (StayWithEvent /\ pc' \in {"task", "writeup"})
  PROVE  EventInv'
  <1>0. WindowTyped
    BY DEF EventInv
  <1>1. CASE NextEvent
    <2>1. /\ pc' \in {"batch", "done"} /\ event' = NoEvent
          /\ UNCHANGED <<window, seen, full, fresh, batch, early>>
          /\ event \in seen /\ event \in Events
          /\ maxStart' \in maxStart..LastSecond
          /\ pc' = "batch" => event \in Undated \/ Second[event] <= maxStart'
          /\ maxStart' \in {maxStart, Second[event]}
      BY <1>0, <1>1, NextEventFacts DEF ctftimeVars
    <2>2. BehindWindow'
      BY <2>1 DEF EventInv, BehindWindow
    <2>3. maxStart \in Nat /\ maxStart' \in Nat /\ maxStart <= maxStart'
      BY <1>0, <2>1, EventFacts
    <2>4. FoundBehind'
      <3> SUFFICES ASSUME pc' = "batch", NEW e \in seen \ Undated
                   PROVE  Second[e] <= maxStart'
        BY <2>1 DEF FoundBehind
      <3>1. CASE e = event
        BY <3>1, <2>1
      <3>2. CASE e # event
        <4>1. Second[e] <= maxStart /\ Second[e] \in Nat
          BY <1>0, <3>2, EventFacts DEF EventInv, FoundBehind, CrawlsEvent
        <4> QED
          BY <4>1, <2>3
      <3> QED
        BY <3>1, <3>2
    <2>5. AheadOfWindow'
      <3>1. \A x \in early : window <= Second[x] /\ Second[x] <= Finish =>
              \/ x \in seen
              \/ x \in batch
              \/ /\ full /\ maxStart <= Second[x]
                 /\ \A f \in batch \cup {event} : f \in Events => Second[f] <= Second[x]
        BY DEF EventInv, AheadOfWindow, CrawlsEvent
      <3>2. NoEvent \notin Events
        BY <1>0, EventFacts
      <3>3. ASSUME NEW x \in early, window <= Second[x], Second[x] <= Finish
            PROVE  \/ x \in seen
                   \/ x \in batch
                   \/ /\ full /\ maxStart' <= Second[x]
                      /\ \A f \in batch \cup {NoEvent} : f \in Events => Second[f] <= Second[x]
        BY <3>1, <3>2, <3>3, <2>1
      <3> QED
        BY <3>3, <2>1 DEF AheadOfWindow
    <2>6. StalePage'
      <3>1. fresh
        BY DEF EventInv, StalePage
      <3> QED
        BY <3>1, <2>1 DEF StalePage, CrawlsEvent
    <2> QED
      BY <2>2, <2>4, <2>5, <2>6 DEF EventInv
  <1>2. CASE StayWithEvent /\ pc' \in {"task", "writeup"}
    <2>1. UNCHANGED <<window, seen, full, fresh, maxStart, batch, event, early>>
      BY <1>2 DEF StayWithEvent, windowVars, ctftimeVars
    <2> QED
      BY <1>2, <2>1 DEF EventInv, BehindWindow, AheadOfWindow, FoundBehind, StalePage, CrawlsEvent
  <1> QED
    BY <1>1, <1>2

LEMMA NextEventInv ==
  ASSUME EventInv, [Next]_vars
  PROVE  EventInv'
  <1>0. WindowTyped /\ WindowTyped'
    BY NextWindowTyped DEF EventInv
  <1>1. CASE FetchPage \/ PassOver \/ YieldEvent \/ EndBatch
    BY <1>0, <1>1, FetchPageKeeps, PassOverKeeps, YieldEventKeeps, EndBatchKeeps
  <1>2. CASE FetchTasks \/ TasksLost \/ FetchTask \/ TaskLost \/ FetchWriteup \/ WriteupLost
    BY <1>0, <1>2, CrawlStep, CrawlKeeps
  <1>3. CASE NoMoreEvents \/ FetchRaises \/ Over \/ UNCHANGED vars \/ \E e \in Events : Announce(e)
    <2>1. /\ UNCHANGED <<window, seen, full, fresh, maxStart, batch, event, early>>
          /\ pc' = pc \/ pc' \in {"done", "raised"}
      BY <1>3 DEF NoMoreEvents, FetchRaises, Over, Announce, vars, windowVars, ctftimeVars
    <2> QED
      BY <1>0, <2>1
         DEF EventInv, BehindWindow, AheadOfWindow, FoundBehind, StalePage, CrawlsEvent
  <1>4. CASE EventRaises \/ WriteupRaises
    BY <1>0, <1>4, RaisingKeeps
  <1> QED
    BY <1>1, <1>2, <1>3, <1>4 DEF Next, Crawler

(* Where the crawl may end, nothing early is left. *)
LEMMA NothingEarlyLeft ==
  ASSUME SecondsBelowPage, NoneAtFinish, EventInv, EarlyEventsFound, [Next]_vars
  PROVE  EarlyEventsFound'
  <1>0. WindowTyped
    BY DEF EventInv
  <1>1. CASE NoMoreEvents
    <2> SUFFICES ASSUME NEW e \in early, Start <= Second[e], Second[e] <= Finish
                 PROVE  e \in seen
      BY <1>1 DEF NoMoreEvents, EarlyEventsFound, windowVars, ctftimeVars
    <2>1. e \in announced /\ Second[e] \in Nat /\ window \in Nat /\ Finish \in Nat
          /\ Second[e] # Finish
      BY <1>0, EventFacts DEF WindowTyped, NoneAtFinish
    <2>2. Second[e] < window
      <3>1. CASE window >= Finish
        BY <3>1, <2>1
      <3>2. CASE InWindow = {}
        BY <3>2, <2>1 DEF InWindow
      <3> QED
        BY <1>1, <3>1, <3>2 DEF NoMoreEvents
    <2> QED
      BY <2>2 DEF EventInv, BehindWindow
  <1>2. CASE EndBatch
    <2> SUFFICES ASSUME pc' = "done", NEW e \in early, Start <= Second[e], Second[e] <= Finish
                 PROVE  e \in seen
      BY <1>2 DEF EndBatch, EarlyEventsFound, Complete, ctftimeVars
    <2>1. pc = "batch" /\ batch = {} /\ ~(full /\ fresh)
      BY <1>2 DEF EndBatch
    <2>2. ~full
      <3> SUFFICES ASSUME full
                   PROVE  FALSE
        OBVIOUS
      <3>1. PICK S : S = {f \in Events : Second[f] = window \/ f \in Undated}
        OBVIOUS
      <3>2. Limit <= Cardinality(S)
        <4>1. Limit <= Cardinality(batch \cup S)
          BY <2>1, <3>1 DEF EventInv, StalePage
        <4>2. batch \cup S = S
          BY <2>1
        <4> QED
          BY <4>1, <4>2
      <3>3. Cardinality(S) < Limit /\ Cardinality(S) \in Nat /\ Limit \in Nat
        BY <1>0, <3>1, EventFacts DEF SecondsBelowPage
      <3> QED
        BY <3>2, <3>3
    <2>3. CASE Second[e] < window
      BY <2>3 DEF EventInv, BehindWindow
    <2>4. CASE window <= Second[e]
      BY <2>1, <2>2, <2>4 DEF EventInv, AheadOfWindow
    <2>5. Second[e] \in Nat /\ window \in Nat
      BY <1>0, EventFacts
    <2> QED
      BY <2>3, <2>4, <2>5
  <1>3. CASE FetchTasks \/ TasksLost \/ FetchTask \/ TaskLost \/ FetchWriteup \/ WriteupLost
    <2>1. CrawlsEvent /\ (NextEvent \/ (StayWithEvent /\ pc' \in {"task", "writeup"}))
      BY <1>3, CrawlStep
    <2>2. CASE NextEvent
      <3>1. /\ pc' = "done" => Cardinality(seen) >= MaxEvents
            /\ seen' = seen /\ Cardinality(seen) \in Nat /\ MaxEvents \in Nat
        BY <1>0, <2>1, <2>2, NextEventFacts, EventFacts
      <3>2. ~Complete'
        BY <3>1 DEF Complete
      <3> QED
        BY <3>2 DEF EarlyEventsFound
    <2>3. CASE pc' \in {"task", "writeup"}
      BY <2>3 DEF EarlyEventsFound, Complete
    <2> QED
      BY <2>1, <2>2, <2>3
  <1>4. CASE \/ FetchPage \/ FetchRaises \/ PassOver \/ YieldEvent \/ EventRaises
             \/ WriteupRaises
    <2>1. pc' # "done"
      BY <1>4 DEF FetchPage, FetchRaises, PassOver, YieldEvent, EventRaises, TakeEvent,
                  WriteupRaises
    <2> QED
      BY <2>1 DEF EarlyEventsFound, Complete
  <1>5. CASE Over \/ UNCHANGED vars \/ \E e \in Events : Announce(e)
    <2>1. UNCHANGED <<pc, seen, early>>
      BY <1>5 DEF Over, vars, Announce, windowVars
    <2> QED
      BY <2>1 DEF EarlyEventsFound, Complete
  <1> QED
    BY <1>1, <1>2, <1>3, <1>4, <1>5 DEF Next, Crawler

(* No slide of the window skips an event: whatever the page limit and however
   pages are cut in the middle of a second, and whichever events are announced
   meanwhile, a crawl that ran to its end has found every event CTFtime knew at
   the start - given the two things the code leaves to its data, fewer events of a
   second or without a readable start than a page holds and none at Finish,
   without which TLC shows it false. *)
THEOREM NoEventSkipped ==
  ASSUME SecondsBelowPage, NoneAtFinish
  PROVE  Spec => []EarlyEventsFound
  <1>1. Init => EventInv
    BY InitEventInv
  <1>2. EventInv /\ [Next]_vars => EventInv'
    BY NextEventInv
  <1>3. Init => EarlyEventsFound
    BY DEF Init, EarlyEventsFound, Complete
  <1>4. EventInv /\ EarlyEventsFound /\ [Next]_vars => EarlyEventsFound'
    BY NothingEarlyLeft
  <1> QED
    BY <1>1, <1>2, <1>3, <1>4, PTL DEF Spec

-----------------------------------------------------------------------------
(* Tables and rows *)

LEMMA LinkedFacts ==
  ASSUME NEW rs, NEW S, rs \in Seq(S), NEW q \in Linked(rs)
  PROVE  /\ q \in Seq(ToSet(rs) \ {NoLink})
         /\ ToSet(q) = ToSet(rs) \ {NoLink}
         /\ \A i, j \in 1..Len(q) : q[i] = q[j] => i = j
  <1> DEFINE links == ToSet(rs) \ {NoLink}
  <1>1. q \in SeqOf(links, Len(rs)) /\ ToSet(q) = links
        /\ \A i, j \in DOMAIN q : i < j =>
              \E k \in DOMAIN rs : rs[k] = q[i] /\ \A l \in 1..k : rs[l] # q[j]
    BY DEF Linked
  <1> HIDE DEF links
  <1>2. q \in Seq(links)
    <2>1. PICK m \in 0..Len(rs) : q \in [1..m -> links]
      BY <1>1 DEF SeqOf
    <2>2. m \in Nat
      BY <2>1
    <2> QED
      BY <2>1, <2>2
  <1>3. ASSUME NEW i \in 1..Len(q), NEW j \in 1..Len(q), i < j
        PROVE  q[i] # q[j]
    <2>1. PICK k \in DOMAIN rs : rs[k] = q[i] /\ \A l \in 1..k : rs[l] # q[j]
      BY <1>1, <1>2, <1>3
    <2>2. k \in 1..k
      BY <2>1
    <2> QED
      BY <2>1, <2>2
  <1> QED
    BY <1>1, <1>2, <1>3 DEF links

LEMMA FirstRowsFacts ==
  ASSUME NEW S, NEW q \in Seq(S), \A i, j \in 1..Len(q) : q[i] = q[j] => i = j
  PROVE  /\ FirstRows(q) \in Seq(S)
         /\ Len(FirstRows(q)) <= MaxWriteups
         /\ \A i, j \in 1..Len(FirstRows(q)) : FirstRows(q)[i] = FirstRows(q)[j] => i = j
  <1>1. MaxWriteups \in Nat
    BY CrawlAssumption
  <1>2. PICK n : n = IF MaxWriteups < Len(q) THEN MaxWriteups ELSE Len(q)
    OBVIOUS
  <1>3. n \in 0..Len(q) /\ n <= MaxWriteups
    BY <1>1, <1>2
  <1>4. FirstRows(q) = SubSeq(q, 1, n)
    BY <1>2 DEF FirstRows
  <1>5. PICK f : f = SubSeq(q, 1, n)
    OBVIOUS
  <1>6. f \in Seq(S) /\ Len(f) = n /\ \A i \in 1..n : f[i] = q[i]
    BY <1>3, <1>5
  <1>7. \A i, j \in 1..n : f[i] = f[j] => i = j
    BY <1>3, <1>6
  <1> QED
    BY <1>3, <1>4, <1>5, <1>6, <1>7

LEMMA TablesOf ==
  ASSUME NEW e \in Events, NEW q \in Linked(Tasks[e])
  PROVE  /\ q \in Seq(TaskIds)
         /\ ToSet(q) = ToSet(Tasks[e]) \ {NoLink}
         /\ ToSet(q) \subseteq TaskIds
         /\ \A i, j \in 1..Len(q) : q[i] = q[j] => i = j
  <1>1. Tasks[e] \in Seq(ToSet(Tasks[e]))
    BY CrawlAssumption
  <1>2. /\ q \in Seq(ToSet(Tasks[e]) \ {NoLink})
        /\ ToSet(q) = ToSet(Tasks[e]) \ {NoLink}
        /\ \A i, j \in 1..Len(q) : q[i] = q[j] => i = j
    BY <1>1, LinkedFacts
  <1>3. ToSet(Tasks[e]) \ {NoLink} \subseteq TaskIds
    BY DEF TaskIds
  <1>4. q \in Seq(TaskIds)
    BY <1>2, <1>3
  <1> QED
    BY <1>2, <1>3, <1>4

LEMMA RowsOf ==
  ASSUME NEW t \in TaskIds, NEW q \in Linked(Writeups[t])
  PROVE  /\ FirstRows(q) \in Seq(WriteupIds)
         /\ Len(FirstRows(q)) <= MaxWriteups
         /\ \A i, j \in 1..Len(FirstRows(q)) : FirstRows(q)[i] = FirstRows(q)[j] => i = j
  <1>1. Writeups[t] \in Seq(ToSet(Writeups[t]))
    BY CrawlAssumption
  <1>2. /\ q \in Seq(ToSet(Writeups[t]) \ {NoLink})
        /\ \A i, j \in 1..Len(q) : q[i] = q[j] => i = j
    BY <1>1, LinkedFacts
  <1>3. ToSet(Writeups[t]) \ {NoLink} \subseteq WriteupIds
    BY DEF WriteupIds
  <1>4. q \in Seq(WriteupIds)
    BY <1>2, <1>3
  <1> QED
    BY <1>2, <1>4, FirstRowsFacts

-----------------------------------------------------------------------------
(* Types *)

Record == [event : Events, task : TaskIds, writeups : Seq(Built)]

PagesTyped ==
    /\ table \in Seq(TaskIds)
    /\ pc \in {"task", "writeup"} => table # <<>>
    /\ rows \in Seq(WriteupIds)
    /\ kept \in Seq(Built) /\ Len(kept) <= MaxWriteups
    /\ pc = "writeup" => rows # <<>> /\ Len(kept) + Len(rows) <= MaxWriteups
    /\ records \in Seq(Record)
    /\ \A i \in 1..Len(records) : Len(records[i].writeups) <= MaxWriteups

Typed == WindowTyped /\ PagesTyped

LEMMA YieldTyped ==
  ASSUME Typed, pc \in {"task", "writeup"}, NEW ws \in Seq(Built), Len(ws) <= MaxWriteups, Yield(ws)
  PROVE  /\ table' \in Seq(TaskIds)
         /\ records' \in Seq(Record)
         /\ \A i \in 1..Len(records') : Len(records'[i].writeups) <= MaxWriteups
         /\ \/ NextEvent /\ pc' \in {"batch", "done"}
            \/ StayWithEvent /\ pc' = "task" /\ table' # <<>>
  <1>1. /\ table \in Seq(TaskIds) /\ table # <<>> /\ records \in Seq(Record)
        /\ \A i \in 1..Len(records) : Len(records[i].writeups) <= MaxWriteups
    BY DEF Typed, PagesTyped
  <1>2. event \in Events
    BY EventFacts DEF Typed, WindowTyped, CrawlsEvent
  <1>3. PICK r : r = [event |-> event, task |-> Head(table), writeups |-> ws]
    OBVIOUS
  <1>4. r \in Record /\ r.writeups = ws
    BY <1>1, <1>2, <1>3 DEF Record
  <1>5. records' = Append(records, r) /\ table' = Tail(table)
    BY <1>3 DEF Yield
  <1>6. \A i \in 1..Len(records') : Len(records'[i].writeups) <= MaxWriteups
    BY <1>1, <1>4, <1>5
  <1>7. CASE Len(table) = 1
    BY <1>1, <1>4, <1>5, <1>6, <1>7, NextEventFacts DEF Yield, Typed, CrawlsEvent
  <1>8. CASE Len(table) # 1
    <2>1. StayWithEvent /\ pc' = "task"
      BY <1>8 DEF Yield
    <2>2. Tail(table) \in Seq(TaskIds) /\ Tail(table) # <<>>
      <3>1. PICK t : t = Tail(table)
        OBVIOUS
      <3>2. t \in Seq(TaskIds) /\ Len(t) = Len(table) - 1
        BY <1>1, <3>1
      <3>3. Len(t) # 0
        BY <1>1, <1>8, <3>2
      <3>4. t # <<>>
        BY <3>3
      <3> QED
        BY <3>1, <3>2, <3>4
    <2>3. records' \in Seq(Record)
      BY <1>1, <1>4, <1>5
    <2> QED
      BY <1>5, <1>6, <2>1, <2>2, <2>3
  <1> QED
    BY <1>7, <1>8

LEMMA NextPagesTyped ==
  ASSUME Typed, [Next]_vars
  PROVE  PagesTyped'
  <1> USE DEF pageVars
  <1>0. WindowTyped /\ PagesTyped /\ MaxWriteups \in Nat
    BY CrawlAssumption DEF Typed
  <1>1. CASE FetchTasks
    <2>1. event \in Events /\ CrawlsEvent /\ pc = "tasks"
      BY <1>0, <1>1, EventFacts DEF FetchTasks, WindowTyped, CrawlsEvent
    <2>2. table' \in Seq(TaskIds) /\ UNCHANGED <<rows, kept, records>>
      BY <1>1, <2>1, TablesOf DEF FetchTasks
    <2>3. \/ pc' \in {"batch", "done"}
          \/ pc' = "task" /\ table' # <<>>
      BY <1>0, <1>1, <2>1, NextEventFacts DEF FetchTasks
    <2> QED
      BY <1>0, <2>2, <2>3 DEF PagesTyped
  <1>2. CASE TasksLost
    <2>1. pc' \in {"batch", "done"} /\ UNCHANGED <<table, rows, kept, records>>
      BY <1>0, <1>2, NextEventFacts DEF TasksLost, CrawlsEvent
    <2> QED
      BY <1>0, <2>1 DEF PagesTyped
  <1>3. CASE FetchTask
    <2>1. Head(table) \in TaskIds /\ pc = "task"
      BY <1>0, <1>3 DEF FetchTask, PagesTyped
    <2>2. rows' \in Seq(WriteupIds) /\ Len(rows') <= MaxWriteups /\ kept' = <<>>
      BY <1>3, <2>1, RowsOf DEF FetchTask
    <2>3. kept' \in Seq(Built) /\ Len(kept') = 0
      BY <2>2
    <2>4. CASE rows' = <<>>
      <3>1. PICK ws : ws = << >>
        OBVIOUS
      <3>2. ws \in Seq(Built) /\ Len(ws) <= MaxWriteups /\ Yield(ws)
        BY <1>0, <1>3, <2>4, <3>1 DEF FetchTask
      <3>3. Len(kept') <= MaxWriteups
        BY <1>0, <2>3
      <3>4. /\ table' \in Seq(TaskIds) /\ records' \in Seq(Record)
            /\ \A i \in 1..Len(records') : Len(records'[i].writeups) <= MaxWriteups
            /\ pc' \in {"batch", "done"} \/ (pc' = "task" /\ table' # <<>>)
        BY <2>1, <3>2, YieldTyped
      <3> QED
        BY <2>2, <2>3, <3>3, <3>4 DEF PagesTyped
    <2>5. CASE rows' # <<>>
      <3>1. pc' = "writeup" /\ UNCHANGED <<table, records>>
        BY <1>3, <2>5 DEF FetchTask
      <3>2. Len(kept') + Len(rows') <= MaxWriteups
        BY <2>2, <2>3
      <3> QED
        BY <1>0, <2>1, <2>2, <2>3, <2>5, <3>1, <3>2 DEF PagesTyped
    <2> QED
      BY <2>4, <2>5
  <1>4. CASE TaskLost
    <2>1. PICK ws : ws = << >>
      OBVIOUS
    <2>2. ws \in Seq(Built) /\ Len(ws) <= MaxWriteups /\ Yield(ws) /\ pc = "task"
          /\ UNCHANGED <<rows, kept>>
      BY <1>0, <1>4, <2>1 DEF TaskLost
    <2> QED
      BY <1>0, <2>2, YieldTyped DEF PagesTyped
  <1>5. CASE FetchWriteup \/ WriteupLost
    <2>1. /\ pc = "writeup" /\ rows \in Seq(WriteupIds) /\ rows # <<>> /\ kept \in Seq(Built)
          /\ Len(kept) + Len(rows) <= MaxWriteups
      BY <1>0, <1>5 DEF FetchWriteup, WriteupLost, PagesTyped
    <2>2. BuildWriteup(Head(rows)) \in Built
      BY <2>1 DEF Built
    <2>3. PICK ws \in {kept, Append(kept, BuildWriteup(Head(rows)))} : KeepRows(ws)
      BY <1>5 DEF FetchWriteup, WriteupLost
    <2>4. ws \in Seq(Built) /\ Len(ws) <= Len(kept) + 1
      BY <2>1, <2>2, <2>3
    <2>5. rows' = Tail(rows) /\ kept' = ws
      BY <2>3 DEF KeepRows
    <2>6. rows' \in Seq(WriteupIds) /\ Len(rows') = Len(rows) - 1 /\ Len(rows) \in Nat \ {0}
      BY <2>1, <2>5
    <2>7. Len(ws) <= MaxWriteups /\ Len(ws) + Len(rows') <= MaxWriteups
      BY <1>0, <2>1, <2>4, <2>6
    <2>8. CASE Len(rows) = 1
      <3>1. Yield(ws)
        BY <2>3, <2>8 DEF KeepRows
      <3> QED
        BY <1>0, <2>1, <2>4, <2>5, <2>6, <2>7, <3>1, YieldTyped DEF PagesTyped
    <2>9. CASE Len(rows) # 1
      <3>1. UNCHANGED <<pc, table, records>>
        BY <2>3, <2>9 DEF KeepRows
      <3>2. rows' # <<>>
        BY <2>6, <2>9
      <3> QED
        BY <1>0, <2>1, <2>4, <2>5, <2>6, <2>7, <3>1, <3>2 DEF PagesTyped
    <2> QED
      BY <2>8, <2>9
  <1>6. CASE \/ FetchPage \/ NoMoreEvents \/ FetchRaises \/ PassOver \/ YieldEvent \/ EndBatch
             \/ EventRaises \/ WriteupRaises \/ Over \/ UNCHANGED vars \/ \E e \in Events : Announce(e)
    <2>1. /\ UNCHANGED <<table, rows, kept, records>>
          /\ pc' = pc \/ pc' \notin {"task", "writeup"}
      BY <1>6 DEF FetchPage, NoMoreEvents, FetchRaises, PassOver, YieldEvent, EventRaises,
                  TakeEvent, EndBatch, WriteupRaises, Over, vars, Announce
    <2> QED
      BY <1>0, <2>1 DEF PagesTyped
  <1> QED
    BY <1>1, <1>2, <1>3, <1>4, <1>5, <1>6 DEF Next, Crawler

LEMMA InitTyped ==
  ASSUME Init
  PROVE  Typed
  <1>1. MaxWriteups \in Nat
    BY CrawlAssumption
  <1>2. PagesTyped
    BY <1>1 DEF Init, PagesTyped
  <1> QED
    BY <1>2, InitWindowTyped DEF Typed

LEMMA NextTyped ==
  ASSUME Typed, [Next]_vars
  PROVE  Typed'
  BY NextWindowTyped, NextPagesTyped DEF Typed

(* Every variable of CTFtimeCrawl keeps its type, and max_events and
   max_writeups_per_task hold at every moment, not only when the crawl is over. *)
THEOREM TypeCorrect == Spec => []TypeOK
  <1>1. Init => Typed
    BY InitTyped
  <1>2. Typed /\ [Next]_vars => Typed'
    BY NextTyped
  <1>3. Typed => TypeOK
    <2> SUFFICES ASSUME Typed
                 PROVE  TypeOK
      OBVIOUS
    <2>1. maxStart \in Nat
      BY EventFacts DEF Typed
    <2>2. \A r \in ToSet(records) : Len(r.writeups) <= MaxWriteups
      BY DEF Typed, PagesTyped, ToSet
    <2> QED
      BY <2>1, <2>2 DEF Typed, WindowTyped, PagesTyped, TypeOK, LastSecond, Record, CrawlsEvent
  <1> QED
    BY <1>1, <1>2, <1>3, PTL DEF Spec

-----------------------------------------------------------------------------
(* What a lost page costs *)

(* The ways to different pages differ. *)
LEMMA WaysDiffer ==
  \A a, b, c, d, e, f :
    /\ <<a>> # <<b, c>>
    /\ <<a>> # <<d, e, f>>
    /\ <<b, c>> # <<d, e, f>>
    /\ <<a>> = <<b>> => a = b
    /\ <<a, b>> = <<c, d>> => a = c /\ b = d
    /\ <<a, b, c>> = <<d, e, f>> => a = d /\ b = e /\ c = f
  OBVIOUS

Recorded(e, t) == \E i \in 1..Len(records) : records[i].event = e /\ records[i].task = t

(* Each task of an event crawled is one record, unless the event's page was lost;
   so is each task of the event in hand that is no longer on its table. *)
TablesInv ==
    /\ \A i, j \in 1..Len(records) :
         records[i].event = records[j].event /\ records[i].task = records[j].task => i = j
    /\ \A i \in 1..Len(records) : records[i].event \in seen
    /\ \A e \in seen \ {event}, t \in TaskIds : t \in TasksOf(e) <=> Recorded(e, t)
    /\ pc = "tasks" => Had(<<event>>) /\ \A t : ~Recorded(event, t)
    /\ pc \in {"task", "writeup"} =>
         /\ Had(<<event>>)
         /\ \A i, j \in 1..Len(table) : table[i] = table[j] => i = j
         /\ \A t \in TaskIds : t \in ToSet(Tasks[event]) <=> Recorded(event, t) \/ t \in ToSet(table)
         /\ \A t \in ToSet(table) : ~Recorded(event, t)
    /\ pc = "raised" => \A t : Recorded(event, t) => t \in TasksOf(event)

(* Only the pages of events, tasks and writeups that were crawled are lost. *)
LostInv ==
    /\ \A e \in Events : <<e>> \in lost => e \in seen
    /\ \A e, t : <<e, t>> \in lost => Recorded(e, t)
    /\ \A e, t, w : <<e, t, w>> \in lost =>
         \/ Recorded(e, t)
         \/ /\ pc \in {"writeup", "raised"}
            /\ e = event /\ t = Head(table) /\ w \notin ToSet(rows)

(* Every record has the writeups that could be had. *)
RecordsInv ==
    \A i \in 1..Len(records) :
        WriteupsHad(records[i].writeups, records[i].event, records[i].task)

(* The writeups kept are those of the rows gone by. *)
NumbersHad(e, t, wanted, n) == {i \in 1..n : Had(<<e, t, wanted[i]>>)}
KeptInv ==
    pc = "writeup" =>
        \E q \in Linked(Writeups[Head(table)]) :
          \E d \in Nat :
            /\ Len(FirstRows(q)) = d + Len(rows)
            /\ \A i \in 1..Len(rows) : rows[i] = FirstRows(q)[d + i]
            /\ FromRows(kept, FirstRows(q), NumbersHad(event, Head(table), FirstRows(q), d))

(* What a crawl with an event in hand raised over. *)
RaisedInv == pc = "raised" /\ event # NoEvent => RaisedOver(event)

CrawlInv == TablesInv /\ LostInv /\ RecordsInv /\ KeptInv

LEMMA FromNoRows ==
  ASSUME NEW wanted
  PROVE  FromRows(<< >>, wanted, {})
  <1>1. PICK nth : nth = [k \in {} |-> k]
    OBVIOUS
  <1>2. DOMAIN << >> = {} /\ nth \in [{} -> {}]
    BY <1>1
  <1> QED
    BY <1>2 DEF FromRows

(* The writeup of the next row goes to the end. *)
LEMMA FromOneMore ==
  ASSUME NEW ws \in Seq(Built), NEW wanted, NEW d \in Nat, NEW S \in SUBSET (1..d),
         FromRows(ws, wanted, S), BuildWriteup(wanted[d + 1]) \in Built
  PROVE  FromRows(Append(ws, BuildWriteup(wanted[d + 1])), wanted, S \cup {d + 1})
  <1>1. PICK nth \in [DOMAIN ws -> S] :
          /\ \A i \in S : \E k \in DOMAIN ws : nth[k] = i
          /\ \A k, l \in DOMAIN ws : k < l => nth[k] < nth[l]
          /\ \A k \in DOMAIN ws : ws[k] = BuildWriteup(wanted[nth[k]])
    BY DEF FromRows
  <1>2. PICK w : w = BuildWriteup(wanted[d + 1])
    OBVIOUS
  <1>3. PICK n \in Nat : n = Len(ws) /\ DOMAIN ws = 1..n
    OBVIOUS
  <1>4. PICK as : as = Append(ws, w)
    OBVIOUS
  <1>5. /\ DOMAIN as = 1..(n + 1) /\ as[n + 1] = w
        /\ \A k \in 1..n : as[k] = ws[k]
    BY <1>2, <1>3, <1>4
  <1>6. PICK f : f = [k \in 1..(n + 1) |-> IF k = n + 1 THEN d + 1 ELSE nth[k]]
    OBVIOUS
  <1>7. /\ f \in [1..(n + 1) -> S \cup {d + 1}]
        /\ f[n + 1] = d + 1
        /\ \A k \in 1..n : f[k] = nth[k] /\ f[k] \in S
    <2>1. \A k \in 1..n : k \in 1..(n + 1) /\ k # n + 1 /\ nth[k] \in S
      BY <1>1, <1>3
    <2>2. n + 1 \in 1..(n + 1) /\ \A k \in 1..(n + 1) : k \in 1..n \/ k = n + 1
      BY <1>3
    <2>3. f[n + 1] = d + 1 /\ \A k \in 1..n : f[k] = nth[k] /\ f[k] \in S
      BY <1>6, <2>1, <2>2
    <2>4. \A k \in 1..(n + 1) : f[k] \in S \cup {d + 1}
      BY <2>2, <2>3
    <2> QED
      BY <1>6, <2>3, <2>4
  <1>8. \A i \in S \cup {d + 1} : \E k \in 1..(n + 1) : f[k] = i
    <2>1. n + 1 \in 1..(n + 1)
      BY <1>3
    <2>2. ASSUME NEW i \in S
          PROVE  \E k \in 1..(n + 1) : f[k] = i
      <3>1. PICK k \in 1..n : nth[k] = i
        BY <1>1, <1>3
      <3>2. k \in 1..(n + 1)
        BY <1>3
      <3> QED
        BY <3>1, <3>2, <1>7
    <2> QED
      BY <2>1, <2>2, <1>7
  <1>9. \A k, l \in 1..(n + 1) : k < l => f[k] < f[l]
    <2> SUFFICES ASSUME NEW k \in 1..(n + 1), NEW l \in 1..(n + 1), k < l
                 PROVE  f[k] < f[l]
      OBVIOUS
    <2>1. k \in 1..n
      BY <1>3
    <2>2. CASE l \in 1..n
      BY <2>1, <2>2, <1>1, <1>3, <1>7
    <2>3. CASE l = n + 1
      <3>1. f[k] \in 1..d
        BY <2>1, <1>7
      <3> QED
        BY <3>1, <2>3, <1>7
    <2> QED
      BY <2>2, <2>3, <1>3
  <1>10. \A k \in 1..(n + 1) : as[k] = BuildWriteup(wanted[f[k]])
    <2> SUFFICES ASSUME NEW k \in 1..(n + 1)
                 PROVE  as[k] = BuildWriteup(wanted[f[k]])
      OBVIOUS
    <2>1. CASE k \in 1..n
      BY <2>1, <1>1, <1>3, <1>5, <1>7
    <2>2. CASE k = n + 1
      <3>1. f[k] = d + 1 /\ as[k] = w
        BY <2>2, <1>5, <1>7
      <3> QED
        BY <3>1, <1>2
    <2>3. k \in 1..n \/ k = n + 1
      OBVIOUS
    <2> QED
      BY <2>1, <2>2, <2>3
  <1>11. PICK D : D = 1..(n + 1)
    OBVIOUS
  <1>12. /\ DOMAIN as = D /\ f \in [D -> S \cup {d + 1}]
         /\ \A i \in S \cup {d + 1} : \E k \in D : f[k] = i
         /\ \A k, l \in D : k < l => f[k] < f[l]
         /\ \A k \in D : as[k] = BuildWriteup(wanted[f[k]])
    BY <1>5, <1>7, <1>8, <1>9, <1>10, <1>11
  <1>13. FromRows(as, wanted, S \cup {d + 1})
    BY <1>12 DEF FromRows
  <1> QED
    BY <1>2, <1>4, <1>13

(* A record's writeups are a matter of the pages on the way to them alone. *)
LEMMA HadElsewhere ==
  ASSUME NEW ws, NEW e, NEW t, WriteupsHad(ws, e, t),
         Had(<<e, t>>)' <=> Had(<<e, t>>),
         \A w : Had(<<e, t, w>>)' <=> Had(<<e, t, w>>)
  PROVE  WriteupsHad(ws, e, t)'
  <1>1. CASE Had(<<e, t>>)
    <2>1. PICK q \in Linked(Writeups[t]) :
            FromRows(ws, FirstRows(q), {i \in DOMAIN FirstRows(q) : Had(<<e, t, FirstRows(q)[i]>>)})
      BY <1>1 DEF WriteupsHad
    <2>2. PICK wanted : wanted = FirstRows(q)
      OBVIOUS
    <2>3. {i \in DOMAIN wanted : Had(<<e, t, wanted[i]>>)}
            = {i \in DOMAIN wanted : Had(<<e, t, wanted[i]>>)'}
      OBVIOUS
    <2>4. FromRows(ws, wanted, {i \in DOMAIN wanted : Had(<<e, t, wanted[i]>>)'})
      BY <2>1, <2>2, <2>3
    <2> QED
      BY <1>1, <2>2, <2>4 DEF WriteupsHad
  <1>2. CASE ~Had(<<e, t>>)
    BY <1>2 DEF WriteupsHad
  <1> QED
    BY <1>1, <1>2

LEMMA RecordsElsewhere ==
  ASSUME RecordsInv, UNCHANGED records,
         \A e, t : Recorded(e, t) =>
           /\ Had(<<e, t>>)' <=> Had(<<e, t>>)
           /\ \A w : Had(<<e, t, w>>)' <=> Had(<<e, t, w>>)
  PROVE  RecordsInv'
  <1> SUFFICES ASSUME NEW i \in 1..Len(records)
               PROVE  WriteupsHad(records[i].writeups, records[i].event, records[i].task)'
    BY DEF RecordsInv
  <1>1. PICK x, e, t : x = records[i].writeups /\ e = records[i].event /\ t = records[i].task
    OBVIOUS
  <1>2. WriteupsHad(x, e, t)
    BY <1>1 DEF RecordsInv
  <1>3. /\ Had(<<e, t>>)' <=> Had(<<e, t>>)
        /\ \A w : Had(<<e, t, w>>)' <=> Had(<<e, t, w>>)
    BY <1>1 DEF Recorded
  <1>4. WriteupsHad(x, e, t)'
    BY <1>2, <1>3, HadElsewhere
  <1> QED
    BY <1>1, <1>4

(* The task in hand becomes a record, and only pages on the way to it are lost. *)
LEMMA YieldKeeps ==
  ASSUME Typed, TablesInv, LostInv, RecordsInv, pc \in {"task", "writeup"},
         NEW ws \in Seq(Built), Len(ws) <= MaxWriteups, Yield(ws),
         NEW e0, e0 = event, NEW t0, t0 = Head(table), NEW w0,
         lost \subseteq lost', lost' \subseteq lost \cup {<<e0, t0>>, <<e0, t0, w0>>},
         WriteupsHad(ws, e0, t0)'
  PROVE  TablesInv' /\ LostInv' /\ RecordsInv' /\ pc' # "writeup"
  <1>0. /\ e0 \in Events /\ e0 \in seen /\ t0 \in TaskIds /\ e0 # NoEvent /\ t0 \in ToSet(table)
        /\ table \in Seq(TaskIds) /\ table # <<>> /\ t0 = table[1] /\ seen' = seen
    <2>1. event \in seen /\ event \in Events /\ event # NoEvent
      BY EventFacts DEF Typed, WindowTyped, CrawlsEvent
    <2>2. table \in Seq(TaskIds) /\ table # <<>>
      BY DEF Typed, PagesTyped
    <2>3. Head(table) = table[1] /\ table[1] \in TaskIds /\ table[1] \in ToSet(table)
      BY <2>2 DEF ToSet
    <2>4. seen' = seen
      BY DEF Yield, NextEvent, StayWithEvent, windowVars
    <2> QED
      BY <2>1, <2>2, <2>3, <2>4
  <1>1. PICK n \in Nat : n = Len(records)
    BY DEF Typed, PagesTyped
  <1>2. PICK r : r = [event |-> e0, task |-> t0, writeups |-> ws]
    OBVIOUS
  <1>3. PICK old, new : old = records /\ new = Append(old, r)
    OBVIOUS
  <1>4. /\ old \in Seq(Record) /\ records' = new /\ Len(new) = n + 1 /\ Len(old) = n
        /\ new[n + 1] = r /\ \A i \in 1..n : new[i] = old[i]
        /\ r.event = e0 /\ r.task = t0 /\ r.writeups = ws
    BY <1>1, <1>2, <1>3 DEF Yield, Typed, PagesTyped
  <1>5. \A e, t : Recorded(e, t)' <=> Recorded(e, t) \/ (e = e0 /\ t = t0)
    <2>1. \A i \in 1..(n + 1) : i \in 1..n \/ i = n + 1
      OBVIOUS
    <2>2. \A i \in 1..n : i \in 1..(n + 1)
      OBVIOUS
    <2>3. n + 1 \in 1..(n + 1)
      OBVIOUS
    <2>4. \A e, t : Recorded(e, t) <=> \E i \in 1..n : old[i].event = e /\ old[i].task = t
      BY <1>3, <1>4 DEF Recorded
    <2>5. \A e, t : Recorded(e, t)' <=> \E i \in 1..(n + 1) : new[i].event = e /\ new[i].task = t
      BY <1>4 DEF Recorded
    <2>6. ASSUME NEW e, NEW t
          PROVE  Recorded(e, t)' <=> Recorded(e, t) \/ (e = e0 /\ t = t0)
      <3>1. Recorded(e, t) <=> \E i \in 1..n : old[i].event = e /\ old[i].task = t
        BY <2>4
      <3>2. Recorded(e, t)' <=> \E i \in 1..(n + 1) : new[i].event = e /\ new[i].task = t
        BY <2>5
      <3>3. (\E i \in 1..(n + 1) : new[i].event = e /\ new[i].task = t)
              <=> (\E i \in 1..n : old[i].event = e /\ old[i].task = t) \/ (e = e0 /\ t = t0)
        BY <1>4, <2>1, <2>2, <2>3
      <3> QED
        BY <3>1, <3>2, <3>3
    <2> QED
      BY <2>6
  <1>6. /\ \A e : Had(<<e>>)' <=> Had(<<e>>)
        /\ \A e, t : e # e0 \/ t # t0 => (Had(<<e, t>>)' <=> Had(<<e, t>>))
        /\ \A e, t, w : e # e0 \/ t # t0 => (Had(<<e, t, w>>)' <=> Had(<<e, t, w>>))
    BY WaysDiffer DEF Had
  <1>7. \A e, t : t \in TasksOf(e)' <=> t \in TasksOf(e)
    BY <1>6 DEF TasksOf
  <1>8. /\ ~Recorded(e0, t0)
        /\ Had(<<e0>>)
        /\ \A i, j \in 1..Len(table) : table[i] = table[j] => i = j
        /\ \A t \in TaskIds : t \in ToSet(Tasks[e0]) <=> Recorded(e0, t) \/ t \in ToSet(table)
        /\ \A t \in ToSet(table) : ~Recorded(e0, t)
    BY <1>0 DEF TablesInv
  <1>9. \A i \in 1..n : old[i].event # e0 \/ old[i].task # t0
    BY <1>3, <1>4, <1>8 DEF Recorded
  <1>10. \A i, j \in 1..Len(records') :
           records'[i].event = records'[j].event /\ records'[i].task = records'[j].task => i = j
    <2> SUFFICES ASSUME NEW i \in 1..(n + 1), NEW j \in 1..(n + 1),
                        new[i].event = new[j].event, new[i].task = new[j].task
                 PROVE  i = j
      BY <1>4
    <2>1. CASE i \in 1..n /\ j \in 1..n
      BY <2>1, <1>3, <1>4 DEF TablesInv
    <2>2. CASE i = n + 1 /\ j \in 1..n
      BY <2>2, <1>4, <1>9
    <2>3. CASE i \in 1..n /\ j = n + 1
      BY <2>3, <1>4, <1>9
    <2>4. i \in 1..n \/ i = n + 1
      OBVIOUS
    <2>5. j \in 1..n \/ j = n + 1
      OBVIOUS
    <2> QED
      BY <2>1, <2>2, <2>3, <2>4, <2>5
  <1>11. \A i \in 1..Len(records') : records'[i].event \in seen'
    <2> SUFFICES ASSUME NEW i \in 1..(n + 1)
                 PROVE  new[i].event \in seen
      BY <1>0, <1>4
    <2>1. CASE i \in 1..n
      BY <2>1, <1>3, <1>4 DEF TablesInv
    <2>2. CASE i = n + 1
      BY <2>2, <1>0, <1>4
    <2>3. i \in 1..n \/ i = n + 1
      OBVIOUS
    <2> QED
      BY <2>1, <2>2, <2>3
  <1>12. RecordsInv'
    <2> SUFFICES ASSUME NEW i \in 1..(n + 1)
                 PROVE  WriteupsHad(new[i].writeups, new[i].event, new[i].task)'
      BY <1>4 DEF RecordsInv
    <2>1. CASE i \in 1..n
      <3>1. PICK x, e, t : x = old[i].writeups /\ e = old[i].event /\ t = old[i].task
        OBVIOUS
      <3>2. WriteupsHad(x, e, t)
        BY <2>1, <3>1, <1>3, <1>4 DEF RecordsInv
      <3>3. e # e0 \/ t # t0
        BY <2>1, <3>1, <1>9
      <3>4. WriteupsHad(x, e, t)'
        BY <3>2, <3>3, <1>6, HadElsewhere
      <3> QED
        BY <2>1, <3>1, <3>4, <1>4
    <2>2. CASE i = n + 1
      BY <2>2, <1>4
    <2>3. i \in 1..n \/ i = n + 1
      OBVIOUS
    <2> QED
      BY <2>1, <2>2, <2>3
  <1>14. LostInv'
    <2>1. ASSUME NEW e \in Events, <<e>> \in lost'
          PROVE  e \in seen'
      BY <2>1, <1>0, <1>6 DEF Had, LostInv
    <2>2. ASSUME NEW e, NEW t, <<e, t>> \in lost'
          PROVE  Recorded(e, t)'
      <3>1. CASE e = e0 /\ t = t0
        BY <3>1, <1>5
      <3>2. CASE e # e0 \/ t # t0
        <4>1. <<e, t>> \in lost
          BY <2>2, <3>2, <1>6 DEF Had
        <4> QED
          BY <4>1, <1>5 DEF LostInv
      <3> QED
        BY <3>1, <3>2
    <2>3. ASSUME NEW e, NEW t, NEW w, <<e, t, w>> \in lost'
          PROVE  Recorded(e, t)'
      <3>1. CASE e = e0 /\ t = t0
        BY <3>1, <1>5
      <3>2. CASE e # e0 \/ t # t0
        <4>1. <<e, t, w>> \in lost
          BY <2>3, <3>2, <1>6 DEF Had
        <4>2. ~(e = event /\ t = Head(table))
          BY <3>2
        <4> QED
          BY <4>1, <4>2, <1>5 DEF LostInv
      <3> QED
        BY <3>1, <3>2
    <2> QED
      BY <2>1, <2>2, <2>3 DEF LostInv
  <1>13. CASE Len(table) = 1
    <2>1. pc' \in {"batch", "done"} /\ event' = NoEvent
      BY <1>13, NextEventFacts DEF Yield, Typed, CrawlsEvent
    <2>2. ToSet(table) = {t0}
      <3>1. 1..Len(table) = {1}
        BY <1>13
      <3>2. DOMAIN table = 1..Len(table)
        BY <1>0
      <3>3. DOMAIN table = {1} /\ table[1] = t0
        BY <3>1, <3>2, <1>0
      <3> QED
        BY <3>3 DEF ToSet
    <2>3. ASSUME NEW e \in seen', NEW t \in TaskIds
          PROVE  t \in TasksOf(e)' <=> Recorded(e, t)'
      <3>1. CASE e # e0
        BY <3>1, <1>0, <1>5, <1>7 DEF TablesInv
      <3>2. CASE e = e0
        <4>1. t \in TasksOf(e0) <=> t \in ToSet(Tasks[e0])
          BY <1>8 DEF TasksOf, TaskIds
        <4> QED
          BY <3>2, <4>1, <2>2, <1>5, <1>7, <1>8
      <3> QED
        BY <3>1, <3>2
    <2>4. TablesInv'
      BY <2>1, <2>3, <1>10, <1>11 DEF TablesInv
    <2> QED
      BY <2>1, <2>4, <1>12, <1>14
  <1>15. CASE Len(table) # 1
    <2>1. pc' = "task" /\ event' = e0 /\ table' = Tail(table)
      BY <1>15 DEF Yield, StayWithEvent
    <2>2. PICK m \in Nat : Len(table) = m + 1 /\ m # 0
      <3>0. Len(table) \in Nat /\ Len(table) # 0
        BY <1>0
      <3>1. PICK k \in Nat : k = Len(table) /\ k # 0 /\ k # 1
        BY <3>0, <1>15
      <3>2. k - 1 \in Nat /\ k = (k - 1) + 1 /\ k - 1 # 0
        BY <3>1
      <3> QED
        BY <3>1, <3>2
    <2>3. PICK tb, tl : tb = table /\ tl = Tail(table)
      OBVIOUS
    <2>4. /\ tl \in Seq(TaskIds) /\ Len(tl) = m
          /\ \A i \in 1..m : tl[i] = tb[i + 1]
          /\ Len(tb) = m + 1 /\ tb[1] = t0 /\ DOMAIN tb = 1..(m + 1) /\ DOMAIN tl = 1..m
      BY <2>2, <2>3, <1>0
    <2>5. \A i, j \in 1..m : tl[i] = tl[j] => i = j
      <3> SUFFICES ASSUME NEW i \in 1..m, NEW j \in 1..m, tl[i] = tl[j]
                   PROVE  i = j
        OBVIOUS
      <3>1. i + 1 \in 1..(m + 1) /\ j + 1 \in 1..(m + 1) /\ tb[i + 1] = tb[j + 1]
        BY <2>4
      <3>2. i + 1 = j + 1
        BY <3>1, <2>3, <2>4, <1>8
      <3> QED
        BY <3>2
    <2>6. \A t : t \in ToSet(tl) <=> t \in ToSet(tb) /\ t # t0
      <3>1. ASSUME NEW i \in 1..m
            PROVE  tl[i] \in ToSet(tb) /\ tl[i] # t0
        <4>1. i + 1 \in 1..(m + 1) /\ 1 \in 1..(m + 1) /\ i + 1 # 1 /\ tl[i] = tb[i + 1]
          BY <2>4
        <4>2. tb[i + 1] # tb[1]
          BY <4>1, <2>3, <2>4, <1>8
        <4> QED
          BY <4>1, <4>2, <2>4 DEF ToSet
      <3>2. ASSUME NEW i \in 1..(m + 1), tb[i] # t0
            PROVE  tb[i] \in ToSet(tl)
        <4>1. i # 1
          BY <3>2, <2>4
        <4>2. PICK k \in 1..m : i = k + 1
          BY <4>1
        <4> QED
          BY <4>2, <2>4 DEF ToSet
      <3> QED
        BY <3>1, <3>2, <2>4 DEF ToSet
    <2>7. ASSUME NEW e \in seen' \ {e0}, NEW t \in TaskIds
          PROVE  t \in TasksOf(e)' <=> Recorded(e, t)'
      BY <1>0, <1>5, <1>7 DEF TablesInv
    <2>8. \A t \in TaskIds : t \in ToSet(Tasks[e0]) <=> Recorded(e0, t)' \/ t \in ToSet(tl)
      BY <2>3, <2>6, <1>0, <1>5, <1>8
    <2>9. \A t \in ToSet(tl) : ~Recorded(e0, t)'
      BY <2>3, <2>6, <1>5, <1>8
    <2>10. TablesInv'
      BY <2>1, <2>3, <2>4, <2>5, <2>7, <2>8, <2>9, <1>6, <1>8, <1>10, <1>11 DEF TablesInv
    <2> QED
      BY <2>1, <2>10, <1>12, <1>14
  <1> QED
    BY <1>13, <1>15

(* A step that reads no page of an event keeps all of this. *)
LEMMA QuietKeeps ==
  ASSUME Typed, CrawlInv, UNCHANGED <<seen, event, pageVars>>,
         pc' = pc \/ (pc \in {"api", "batch"} /\ ~CrawlsEvent')
  PROVE  CrawlInv'
  <1>1. UNCHANGED <<table, rows, kept, records, lost>>
    BY DEF pageVars
  <1>2. /\ \A page : Had(page)' <=> Had(page)
        /\ \A e, t : Recorded(e, t)' <=> Recorded(e, t)
        /\ \A e, t : t \in TasksOf(e)' <=> t \in TasksOf(e)
    BY <1>1 DEF Had, Recorded, TasksOf
  <1>3. CrawlsEvent' => pc' = pc
    OBVIOUS
  <1>4. pc' = "raised" => \A t : Recorded(event, t) => t \in TasksOf(event)
    <2>1. CASE pc' = pc
      BY <2>1 DEF CrawlInv, TablesInv
    <2>2. CASE pc \in {"api", "batch"}
      <3>1. event = NoEvent
        BY <2>2 DEF Typed, WindowTyped, CrawlsEvent
      <3>2. \A t : ~Recorded(event, t)
        BY <3>1, EventFacts DEF Recorded, CrawlInv, TablesInv, Typed
      <3> QED
        BY <3>2
    <2> QED
      BY <2>1, <2>2
  <1>5. TablesInv'
    BY <1>1, <1>2, <1>3, <1>4 DEF CrawlInv, TablesInv, CrawlsEvent
  <1>6. LostInv'
    <2>1. pc \in {"writeup", "raised"} => pc' = pc
      OBVIOUS
    <2> QED
      BY <1>1, <1>2, <2>1 DEF CrawlInv, LostInv
  <1>7. RecordsInv'
    BY RecordsElsewhere, <1>1, <1>2 DEF CrawlInv
  <1>8. KeptInv'
    BY <1>1, <1>2, <1>3 DEF CrawlInv, KeptInv, NumbersHad, Had, CrawlsEvent
  <1> QED
    BY <1>5, <1>6, <1>7, <1>8 DEF CrawlInv

LEMMA TakeEventTables ==
  ASSUME Typed, CrawlInv, YieldEvent \/ EventRaises
  PROVE  CrawlInv'
  <1>1. UNCHANGED <<table, rows, kept, records, lost>> /\ pc' \in {"tasks", "raised"}
    BY DEF YieldEvent, EventRaises, TakeEvent, pageVars
  <1>2. PICK e0 \in Events \ seen : event' = e0 /\ seen' = seen \cup {e0}
    BY EventFacts DEF YieldEvent, EventRaises, TakeEvent, Foremost, Typed
  <1>3. event \notin seen
    BY EventFacts DEF YieldEvent, EventRaises, TakeEvent, Typed, WindowTyped, CrawlsEvent
  <1>4. /\ \A page : Had(page)' <=> Had(page)
        /\ \A e, t : Recorded(e, t)' <=> Recorded(e, t)
        /\ \A e, t : t \in TasksOf(e)' <=> t \in TasksOf(e)
    BY <1>1 DEF Had, Recorded, TasksOf
  <1>5. Had(<<e0>>) /\ \A t : ~Recorded(e0, t)
    BY <1>2 DEF CrawlInv, TablesInv, LostInv, Recorded, Had
  <1>6. TablesInv'
    <2>1. \A e \in seen' \ {event'}, t \in TaskIds : t \in TasksOf(e)' <=> Recorded(e, t)'
      BY <1>2, <1>3, <1>4 DEF CrawlInv, TablesInv
    <2>2. \A i \in 1..Len(records) : records[i].event \in seen'
      BY <1>2 DEF CrawlInv, TablesInv
    <2> QED
      BY <2>1, <2>2, <1>1, <1>2, <1>4, <1>5 DEF CrawlInv, TablesInv
  <1>7. LostInv'
    <2>1. pc \notin {"writeup", "raised"}
      BY DEF YieldEvent, EventRaises, TakeEvent
    <2> QED
      BY <2>1, <1>1, <1>2, <1>4 DEF CrawlInv, LostInv
  <1>8. RecordsInv'
    BY RecordsElsewhere, <1>1, <1>4 DEF CrawlInv
  <1>9. KeptInv'
    BY <1>1 DEF KeptInv
  <1> QED
    BY <1>6, <1>7, <1>8, <1>9 DEF CrawlInv

LEMMA FetchTasksTables ==
  ASSUME Typed, CrawlInv, FetchTasks
  PROVE  CrawlInv'
  <1>1. UNCHANGED <<rows, kept, records, lost, seen>> /\ pc = "tasks"
    BY DEF FetchTasks, NextEvent, StayWithEvent, windowVars
  <1>2. PICK e0 : e0 = event
    OBVIOUS
  <1>3. e0 \in Events /\ e0 \in seen
    BY <1>1, <1>2, EventFacts DEF Typed, WindowTyped, CrawlsEvent
  <1>4. /\ \A page : Had(page)' <=> Had(page)
        /\ \A e, t : Recorded(e, t)' <=> Recorded(e, t)
        /\ \A e, t : t \in TasksOf(e)' <=> t \in TasksOf(e)
    BY <1>1 DEF Had, Recorded, TasksOf
  <1>5. Had(<<e0>>) /\ \A t : ~Recorded(e0, t)
    BY <1>1, <1>2 DEF CrawlInv, TablesInv
  <1>6. PICK q \in Linked(Tasks[e0]) : q = table'
    BY <1>2 DEF FetchTasks
  <1>7. /\ \A t \in TaskIds : t \in ToSet(Tasks[e0]) <=> t \in ToSet(q)
        /\ \A i, j \in 1..Len(q) : q[i] = q[j] => i = j
    <2>1. ToSet(q) = ToSet(Tasks[e0]) \ {NoLink} /\ \A i, j \in 1..Len(q) : q[i] = q[j] => i = j
      BY <1>3, TablesOf
    <2> QED
      BY <2>1 DEF TaskIds
  <1>8. LostInv'
    BY <1>1, <1>4 DEF CrawlInv, LostInv
  <1>9. RecordsInv'
    BY RecordsElsewhere, <1>1, <1>4 DEF CrawlInv
  <1>10. CASE q = <<>>
    <2>1. pc' \in {"batch", "done"} /\ event' = NoEvent
      BY <1>1, <1>6, <1>10, NextEventFacts DEF FetchTasks, Typed, CrawlsEvent
    <2>2. ToSet(q) = {}
      BY <1>10 DEF ToSet
    <2>3. \A t \in TaskIds : t \notin TasksOf(e0)
      BY <1>7, <2>2 DEF TasksOf
    <2>4. \A e \in seen, t \in TaskIds : t \in TasksOf(e) <=> Recorded(e, t)
      BY <1>2, <1>5, <2>3 DEF CrawlInv, TablesInv
    <2>5. TablesInv'
      BY <1>1, <1>4, <2>1, <2>4 DEF CrawlInv, TablesInv
    <2>6. KeptInv'
      BY <2>1 DEF KeptInv
    <2> QED
      BY <1>8, <1>9, <2>5, <2>6 DEF CrawlInv
  <1>11. CASE q # <<>>
    <2>1. pc' = "task" /\ event' = e0
      BY <1>2, <1>6, <1>11 DEF FetchTasks, StayWithEvent
    <2>2. TablesInv'
      BY <1>1, <1>2, <1>4, <1>5, <1>6, <1>7, <2>1 DEF CrawlInv, TablesInv
    <2>3. KeptInv'
      BY <2>1 DEF KeptInv
    <2> QED
      BY <1>8, <1>9, <2>2, <2>3 DEF CrawlInv
  <1> QED
    BY <1>10, <1>11

LEMMA TasksLostTables ==
  ASSUME Typed, CrawlInv, TasksLost
  PROVE  CrawlInv'
  <1>1. UNCHANGED <<table, rows, kept, records>> /\ pc = "tasks"
    BY DEF TasksLost
  <1>2. PICK e0 : e0 = event
    OBVIOUS
  <1>3. /\ e0 \in seen /\ UNCHANGED seen /\ lost' = lost \cup {<<e0>>}
        /\ pc' \in {"batch", "done"} /\ event' = NoEvent
    BY <1>1, <1>2, NextEventFacts DEF TasksLost, Lose, Typed, CrawlsEvent
  <1>4. /\ \A e : e # e0 => (Had(<<e>>)' <=> Had(<<e>>))
        /\ ~Had(<<e0>>)'
        /\ \A e, t : Had(<<e, t>>)' <=> Had(<<e, t>>)
        /\ \A e, t, w : Had(<<e, t, w>>)' <=> Had(<<e, t, w>>)
        /\ \A e, t : Recorded(e, t)' <=> Recorded(e, t)
    BY <1>1, <1>3, WaysDiffer DEF Had, Recorded
  <1>5. \A t : ~Recorded(e0, t)
    BY <1>1, <1>2 DEF CrawlInv, TablesInv
  <1>6. \A e \in seen, t \in TaskIds : t \in TasksOf(e)' <=> Recorded(e, t)'
    <2> SUFFICES ASSUME NEW e \in seen, NEW t \in TaskIds
                 PROVE  t \in TasksOf(e)' <=> Recorded(e, t)'
      OBVIOUS
    <2>1. CASE e = e0
      BY <2>1, <1>4, <1>5 DEF TasksOf
    <2>2. CASE e # e0
      <3>1. t \in TasksOf(e) <=> Recorded(e, t)
        BY <2>2, <1>2 DEF CrawlInv, TablesInv
      <3> QED
        BY <2>2, <3>1, <1>4 DEF TasksOf
    <2> QED
      BY <2>1, <2>2
  <1>7. TablesInv'
    BY <1>1, <1>3, <1>6 DEF CrawlInv, TablesInv
  <1>8. LostInv'
    <2>1. \A e : <<e>> \in lost' => <<e>> \in lost \/ e = e0
      BY <1>4 DEF Had
    <2>2. /\ \A e, t : <<e, t>> \in lost' => <<e, t>> \in lost
          /\ \A e, t, w : <<e, t, w>> \in lost' => <<e, t, w>> \in lost
      BY <1>4 DEF Had
    <2> QED
      BY <2>1, <2>2, <1>1, <1>3, <1>4 DEF CrawlInv, LostInv
  <1>9. RecordsInv'
    BY RecordsElsewhere, <1>1, <1>4 DEF CrawlInv
  <1>10. KeptInv'
    BY <1>3 DEF KeptInv
  <1> QED
    BY <1>7, <1>8, <1>9, <1>10 DEF CrawlInv
LEMMA FetchTaskTables ==
  ASSUME Typed, CrawlInv, FetchTask
  PROVE  CrawlInv'
  <1>1. UNCHANGED lost /\ pc = "task" /\ kept' = <<>>
    BY DEF FetchTask
  <1>2. PICK e0, t0 : e0 = event /\ t0 = Head(table)
    OBVIOUS
  <1>3. PICK q \in Linked(Writeups[t0]) : rows' = FirstRows(q)
    BY <1>2 DEF FetchTask
  <1>4. t0 \in TaskIds /\ t0 \in ToSet(table)
    <2>1. table \in Seq(TaskIds) /\ table # <<>>
      BY <1>1 DEF Typed, PagesTyped
    <2> QED
      BY <2>1, <1>2 DEF ToSet
  <1>5. ~Recorded(e0, t0) /\ Had(<<e0, t0>>)
    BY <1>1, <1>2, <1>4 DEF CrawlInv, TablesInv, LostInv, Had
  <1>6. CASE rows' = <<>>
    <2>1. PICK ws : ws = << >>
      OBVIOUS
    <2>2. ws \in Seq(Built) /\ Len(ws) <= MaxWriteups /\ Yield(ws)
      BY <1>6, <2>1, CrawlAssumption DEF FetchTask
    <2>3. WriteupsHad(ws, e0, t0)'
      <3>1. PICK wanted : wanted = FirstRows(q)
        OBVIOUS
      <3>2. {i \in DOMAIN wanted : Had(<<e0, t0, wanted[i]>>)'} = {}
        <4>1. wanted = << >>
          BY <1>3, <1>6, <3>1
        <4>2. DOMAIN << >> = {}
          OBVIOUS
        <4>3. DOMAIN wanted = {}
          BY <4>1, <4>2
        <4> QED
          BY <4>3
      <3>3. FromRows(ws, wanted, {i \in DOMAIN wanted : Had(<<e0, t0, wanted[i]>>)'})
        BY <2>1, <3>2, FromNoRows
      <3>4. Had(<<e0, t0>>)'
        BY <1>1, <1>5 DEF Had
      <3> QED
        BY <3>1, <3>3, <3>4 DEF WriteupsHad
    <2>4. TablesInv' /\ LostInv' /\ RecordsInv' /\ pc' # "writeup"
      BY <1>1, <1>2, <2>2, <2>3, YieldKeeps DEF CrawlInv
    <2> QED
      BY <2>4 DEF CrawlInv, KeptInv
  <1>7. CASE rows' # <<>>
    <2>1. pc' = "writeup" /\ UNCHANGED <<table, records, seen, event>>
      BY <1>7 DEF FetchTask, StayWithEvent, windowVars
    <2>2. /\ \A page : Had(page)' <=> Had(page)
          /\ \A e, t : Recorded(e, t)' <=> Recorded(e, t)
          /\ \A e, t : t \in TasksOf(e)' <=> t \in TasksOf(e)
      BY <1>1, <2>1 DEF Had, Recorded, TasksOf
    <2>3. TablesInv'
      BY <1>1, <2>1, <2>2 DEF CrawlInv, TablesInv
    <2>4. LostInv'
      BY <1>1, <2>1, <2>2 DEF CrawlInv, LostInv
    <2>5. RecordsInv'
      BY RecordsElsewhere, <2>1, <2>2 DEF CrawlInv
    <2>6. KeptInv'
      <3>1. PICK wanted : wanted = FirstRows(q)
        OBVIOUS
      <3>2. wanted \in Seq(WriteupIds)
        BY <1>4, <3>1, RowsOf
      <3>3. PICK S : S = {i \in 1..0 : Had(<<e0, t0, wanted[i]>>)'}
        OBVIOUS
      <3>4. FromRows(kept', wanted, S)
        <4>1. S = {}
          BY <3>3
        <4> QED
          BY <4>1, <1>1, FromNoRows
      <3>5. /\ Len(wanted) = 0 + Len(rows')
            /\ \A i \in 1..Len(rows') : rows'[i] = wanted[0 + i]
        BY <1>3, <3>1, <3>2
      <3>6. t0 = Head(table') /\ e0 = event'
        BY <1>2, <2>1
      <3>7. 0 \in Nat
        OBVIOUS
      <3> QED
        BY <2>1, <3>1, <3>3, <3>4, <3>5, <3>6, <3>7 DEF KeptInv, NumbersHad
    <2> QED
      BY <2>3, <2>4, <2>5, <2>6 DEF CrawlInv
  <1> QED
    BY <1>6, <1>7

LEMMA TaskLostTables ==
  ASSUME Typed, CrawlInv, TaskLost
  PROVE  CrawlInv'
  <1>1. PICK e0, t0 : e0 = event /\ t0 = Head(table)
    OBVIOUS
  <1>2. pc = "task" /\ lost' = lost \cup {<<e0, t0>>}
    BY <1>1 DEF TaskLost, Lose
  <1>3. PICK ws : ws = << >>
    OBVIOUS
  <1>4. ws \in Seq(Built) /\ Len(ws) <= MaxWriteups /\ Yield(ws)
    BY <1>3, CrawlAssumption DEF TaskLost
  <1>5. WriteupsHad(ws, e0, t0)'
    <2>1. ~Had(<<e0, t0>>)'
      BY <1>2 DEF Had
    <2> QED
      BY <2>1, <1>3 DEF WriteupsHad
  <1>6. TablesInv' /\ LostInv' /\ RecordsInv' /\ pc' # "writeup"
    BY <1>1, <1>2, <1>4, <1>5, YieldKeeps DEF CrawlInv
  <1> QED
    BY <1>6 DEF CrawlInv, KeptInv
(* A row is done with: its writeup is kept, or its page is lost. *)
LEMMA RowGoes ==
  ASSUME Typed, CrawlInv, FetchWriteup \/ WriteupLost,
         NEW e0, e0 = event, NEW t0, t0 = Head(table), NEW w0, w0 = Head(rows)
  PROVE  /\ pc = "writeup" /\ t0 \in TaskIds /\ ~Recorded(e0, t0) /\ Had(<<e0, t0>>)'
         /\ lost' \in {lost, lost \cup {<<e0, t0, w0>>}}
         /\ \E q \in Linked(Writeups[t0]), d \in Nat :
              /\ Len(FirstRows(q)) = d + Len(rows)
              /\ \A i \in 1..Len(rows) : rows[i] = FirstRows(q)[d + i]
              /\ FromRows(kept', FirstRows(q), NumbersHad(e0, t0, FirstRows(q), d + 1)')
  <1>1. /\ pc = "writeup" /\ table \in Seq(TaskIds) /\ table # <<>>
        /\ rows \in Seq(WriteupIds) /\ rows # <<>> /\ kept \in Seq(Built)
    BY DEF FetchWriteup, WriteupLost, Typed, PagesTyped
  <1>2. t0 \in TaskIds /\ t0 \in ToSet(table)
    BY <1>1 DEF ToSet
  <1>3. w0 = rows[1] /\ w0 \in ToSet(rows) /\ 1 \in 1..Len(rows) /\ w0 \in WriteupIds
    BY <1>1 DEF ToSet
  <1>4. ~Recorded(e0, t0)
    BY <1>1, <1>2 DEF CrawlInv, TablesInv
  <1>5. Had(<<e0, t0>>) /\ Had(<<e0, t0, w0>>)
    BY <1>3, <1>4 DEF CrawlInv, LostInv, Had
  <1>6. PICK q \in Linked(Writeups[t0]), d \in Nat :
          /\ Len(FirstRows(q)) = d + Len(rows)
          /\ \A i \in 1..Len(rows) : rows[i] = FirstRows(q)[d + i]
          /\ FromRows(kept, FirstRows(q), NumbersHad(e0, t0, FirstRows(q), d))
    BY <1>1 DEF CrawlInv, KeptInv
  <1>7. PICK wanted : wanted = FirstRows(q)
    OBVIOUS
  <1>8. /\ wanted \in Seq(WriteupIds)
        /\ \A i, j \in 1..Len(wanted) : wanted[i] = wanted[j] => i = j
    BY <1>2, <1>7, RowsOf
  <1>9. w0 = wanted[d + 1] /\ d + 1 \in 1..Len(wanted)
    BY <1>1, <1>3, <1>6, <1>7
  <1>10. \A i \in 1..d : wanted[i] # w0
    <2>1. \A i \in 1..d : i \in 1..Len(wanted) /\ i # d + 1
      BY <1>6, <1>9
    <2> QED
      BY <2>1, <1>8, <1>9
  <1>11. PICK S : S = {i \in 1..d : Had(<<e0, t0, wanted[i]>>)}
    OBVIOUS
  <1>12. S \in SUBSET (1..d) /\ FromRows(kept, wanted, S)
    BY <1>6, <1>7, <1>11 DEF NumbersHad
  <1>13. \A i : i \in 1..(d + 1) <=> i \in 1..d \/ i = d + 1
    OBVIOUS
  <1>14. CASE FetchWriteup
    <2>1. PICK b : b = BuildWriteup(w0)
      OBVIOUS
    <2>2. lost' = lost /\ kept' = Append(kept, b)
      BY <1>14, <2>1 DEF FetchWriteup, KeepRows
    <2>3. b \in Built
      BY <1>3, <2>1 DEF Built
    <2>4. FromRows(Append(kept, b), wanted, S \cup {d + 1})
      <3>1. BuildWriteup(wanted[d + 1]) = b
        BY <1>9, <2>1
      <3> QED
        BY <3>1, <2>3, <1>1, <1>12, FromOneMore
    <2>5. {i \in 1..(d + 1) : Had(<<e0, t0, wanted[i]>>)'} = S \cup {d + 1}
      <3>1. \A page : Had(page)' <=> Had(page)
        BY <2>2 DEF Had
      <3> QED
        BY <3>1, <1>5, <1>9, <1>11, <1>13
    <2>6. FromRows(kept', wanted, {i \in 1..(d + 1) : Had(<<e0, t0, wanted[i]>>)'})
      BY <2>2, <2>4, <2>5
    <2>7. Had(<<e0, t0>>)'
      BY <2>2, <1>5 DEF Had
    <2> QED
      BY <1>1, <1>2, <1>4, <1>6, <1>7, <2>2, <2>6, <2>7 DEF NumbersHad
  <1>15. CASE WriteupLost
    <2>1. lost' = lost \cup {<<e0, t0, w0>>} /\ kept' = kept
      BY <1>15 DEF WriteupLost, Lose, KeepRows
    <2>2. /\ \A w : w # w0 => (Had(<<e0, t0, w>>)' <=> Had(<<e0, t0, w>>))
          /\ ~Had(<<e0, t0, w0>>)'
          /\ Had(<<e0, t0>>)'
      BY <2>1, <1>5, WaysDiffer DEF Had
    <2>3. {i \in 1..(d + 1) : Had(<<e0, t0, wanted[i]>>)'} = S
      BY <2>2, <1>9, <1>10, <1>11, <1>13
    <2>4. FromRows(kept', wanted, {i \in 1..(d + 1) : Had(<<e0, t0, wanted[i]>>)'})
      BY <2>1, <2>3, <1>12
    <2> QED
      BY <1>1, <1>2, <1>4, <1>6, <1>7, <2>1, <2>2, <2>4 DEF NumbersHad
  <1> QED
    BY <1>14, <1>15

LEMMA WriteupTables ==
  ASSUME Typed, CrawlInv, FetchWriteup \/ WriteupLost
  PROVE  CrawlInv'
  <1>1. PICK e0, t0, w0 : e0 = event /\ t0 = Head(table) /\ w0 = Head(rows)
    OBVIOUS
  <1>2. /\ pc = "writeup" /\ t0 \in TaskIds /\ ~Recorded(e0, t0) /\ Had(<<e0, t0>>)'
        /\ lost' \in {lost, lost \cup {<<e0, t0, w0>>}}
    BY <1>1, RowGoes
  <1>3. PICK q \in Linked(Writeups[t0]), d \in Nat :
          /\ Len(FirstRows(q)) = d + Len(rows)
          /\ \A i \in 1..Len(rows) : rows[i] = FirstRows(q)[d + i]
          /\ FromRows(kept', FirstRows(q), NumbersHad(e0, t0, FirstRows(q), d + 1)')
    BY <1>1, RowGoes
  <1>4. PICK wanted : wanted = FirstRows(q)
    OBVIOUS
  <1>5. /\ wanted \in Seq(WriteupIds)
        /\ \A i, j \in 1..Len(wanted) : wanted[i] = wanted[j] => i = j
    BY <1>2, <1>4, RowsOf
  <1>6. FromRows(kept', wanted, {i \in 1..(d + 1) : Had(<<e0, t0, wanted[i]>>)'})
    BY <1>3, <1>4 DEF NumbersHad
  <1>7. /\ rows \in Seq(WriteupIds) /\ rows # <<>> /\ Len(rows) \in Nat
        /\ kept' \in Seq(Built) /\ Len(kept') <= MaxWriteups /\ rows' = Tail(rows)
    <2>1. rows \in Seq(WriteupIds) /\ rows # <<>> /\ Len(rows) \in Nat
      BY <1>2 DEF Typed, PagesTyped
    <2>2. rows' = Tail(rows)
      BY DEF FetchWriteup, WriteupLost, KeepRows
    <2>3. kept' \in Seq(Built) /\ Len(kept') <= MaxWriteups
      <3>1. Next
        BY DEF Next, Crawler
      <3> QED
        BY <3>1, NextPagesTyped DEF PagesTyped
    <2> QED
      BY <2>1, <2>2, <2>3
  <1>8. KeepRows(kept')
    BY DEF FetchWriteup, WriteupLost, KeepRows
  <1>9. CASE Len(rows) = 1
    <2>1. DOMAIN wanted = 1..(d + 1)
      BY <1>3, <1>4, <1>5, <1>9
    <2>2. FromRows(kept', wanted, {i \in DOMAIN wanted : Had(<<e0, t0, wanted[i]>>)'})
      BY <1>6, <2>1
    <2>3. PICK ws : ws = kept'
      OBVIOUS
    <2>4. WriteupsHad(ws, e0, t0)'
      BY <1>2, <1>4, <2>2, <2>3 DEF WriteupsHad
    <2>5. Yield(ws)
      BY <1>8, <1>9, <2>3 DEF KeepRows
    <2>6. pc \in {"task", "writeup"} /\ ws \in Seq(Built) /\ Len(ws) <= MaxWriteups
          /\ lost \subseteq lost' /\ lost' \subseteq lost \cup {<<e0, t0>>, <<e0, t0, w0>>}
      BY <1>2, <1>7, <2>3
    <2>7. TablesInv /\ LostInv /\ RecordsInv
      BY DEF CrawlInv
    <2>8. TablesInv' /\ LostInv' /\ RecordsInv' /\ pc' # "writeup"
      BY <1>1, <2>4, <2>5, <2>6, <2>7, YieldKeeps
    <2> QED
      BY <2>8 DEF CrawlInv, KeptInv
  <1>10. CASE Len(rows) # 1
    <2>1. UNCHANGED <<pc, table, records, seen, event>>
      BY <1>8, <1>10 DEF KeepRows, StayWithEvent, windowVars
    <2>2. /\ \A e : Had(<<e>>)' <=> Had(<<e>>)
          /\ \A e, t : Had(<<e, t>>)' <=> Had(<<e, t>>)
          /\ \A e, t, w : e # e0 \/ t # t0 \/ w # w0 =>
                (Had(<<e, t, w>>)' <=> Had(<<e, t, w>>))
          /\ \A e, t : Recorded(e, t)' <=> Recorded(e, t)
      BY <1>2, <2>1, WaysDiffer DEF Had, Recorded
    <2>3. \A e, t : t \in TasksOf(e)' <=> t \in TasksOf(e)
      BY <2>2 DEF TasksOf
    <2>4. TablesInv'
      BY <2>1, <2>2, <2>3 DEF CrawlInv, TablesInv
    <2>5. RecordsInv'
      BY RecordsElsewhere, <1>2, <2>1, <2>2 DEF CrawlInv
    <2>6. PICK k \in Nat : Len(rows) = k + 1
      <3>1. PICK l \in Nat : l = Len(rows) /\ l # 0
        BY <1>7
      <3>2. l - 1 \in Nat /\ l = (l - 1) + 1
        BY <3>1
      <3> QED
        BY <3>1, <3>2
    <2>7. PICK rs, tl : rs = rows /\ tl = Tail(rows)
      OBVIOUS
    <2>8. /\ tl \in Seq(WriteupIds) /\ Len(tl) = k /\ Len(rs) = k + 1
          /\ \A i \in 1..k : tl[i] = rs[i + 1]
          /\ DOMAIN tl = 1..k /\ DOMAIN rs = 1..(k + 1) /\ w0 = rs[1]
      BY <1>1, <1>7, <2>6, <2>7
    <2>9. Len(wanted) = d + (k + 1) /\ \A i \in 1..(k + 1) : rs[i] = wanted[d + i]
      BY <1>3, <1>4, <2>7, <2>8
    <2>10. /\ Len(wanted) = (d + 1) + k
           /\ \A i \in 1..k : tl[i] = wanted[(d + 1) + i]
      <3>1. Len(wanted) = (d + 1) + k
        BY <2>9
      <3>2. ASSUME NEW i \in 1..k
            PROVE  tl[i] = wanted[(d + 1) + i]
        <4>1. i + 1 \in 1..(k + 1) /\ d + (i + 1) = (d + 1) + i
          OBVIOUS
        <4> QED
          BY <4>1, <2>8, <2>9
      <3> QED
        BY <3>1, <3>2
    <2>11. w0 \notin ToSet(tl)
      <3> SUFFICES ASSUME NEW i \in 1..k, tl[i] = w0
                   PROVE  FALSE
        BY <2>8 DEF ToSet
      <3>1. 1 \in 1..(k + 1) /\ wanted[(d + 1) + i] = wanted[d + 1]
        BY <2>8, <2>9, <2>10
      <3>2. (d + 1) + i \in 1..Len(wanted) /\ d + 1 \in 1..Len(wanted) /\ (d + 1) + i # d + 1
        BY <2>9
      <3> QED
        BY <3>1, <3>2, <1>5
    <2>12. \A w : w \in ToSet(tl) => w \in ToSet(rs)
      <3>1. \A i \in 1..k : i + 1 \in 1..(k + 1)
        OBVIOUS
      <3> QED
        BY <3>1, <2>8 DEF ToSet
    <2>13. LostInv'
      <3>1. \A e \in Events : <<e>> \in lost' => e \in seen'
        BY <2>1, <2>2 DEF CrawlInv, LostInv, Had
      <3>2. \A e, t : <<e, t>> \in lost' => Recorded(e, t)'
        BY <2>2 DEF CrawlInv, LostInv, Had
      <3>3. ASSUME NEW e, NEW t, NEW w, <<e, t, w>> \in lost', ~Recorded(e, t)'
            PROVE  pc' = "writeup" /\ e = event' /\ t = Head(table') /\ w \notin ToSet(tl)
        <4>1. CASE e = e0 /\ t = t0 /\ w = w0
          BY <4>1, <1>1, <1>2, <2>1, <2>11
        <4>2. CASE e # e0 \/ t # t0 \/ w # w0
          <5>1. <<e, t, w>> \in lost
            BY <3>3, <4>2, <2>2 DEF Had
          <5>2. e = event /\ t = Head(table) /\ w \notin ToSet(rs)
            BY <3>3, <5>1, <2>2, <2>7 DEF CrawlInv, LostInv
          <5> QED
            BY <5>2, <1>2, <2>1, <2>12
        <4> QED
          BY <4>1, <4>2
      <3> QED
        BY <3>1, <3>2, <3>3, <1>7, <2>7 DEF LostInv
    <2>14. KeptInv'
      <3>1. t0 = Head(table') /\ e0 = event' /\ rows' = tl /\ d + 1 \in Nat
        BY <1>1, <1>7, <2>1, <2>7
      <3>2. /\ Len(wanted) = (d + 1) + Len(tl)
            /\ \A i \in 1..Len(tl) : tl[i] = wanted[(d + 1) + i]
        BY <2>8, <2>10
      <3> QED
        BY <3>1, <3>2, <1>4, <1>6 DEF KeptInv, NumbersHad
    <2> QED
      BY <2>4, <2>5, <2>13, <2>14 DEF CrawlInv
  <1> QED
    BY <1>9, <1>10

(* The rest of the table is left, with the records made so far. *)
LEMMA WriteupRaisesTables ==
  ASSUME Typed, CrawlInv, WriteupRaises
  PROVE  CrawlInv'
  <1>1. /\ pc = "writeup" /\ pc' = "raised"
        /\ UNCHANGED <<seen, event, table, rows, kept, records, lost>>
    BY DEF WriteupRaises, windowVars, pageVars
  <1>2. /\ \A page : Had(page)' <=> Had(page)
        /\ \A e, t : Recorded(e, t)' <=> Recorded(e, t)
        /\ \A e, t : t \in TasksOf(e)' <=> t \in TasksOf(e)
    BY <1>1 DEF Had, Recorded, TasksOf
  <1>3. \A t : Recorded(event, t) => t \in TasksOf(event)
    <2>1. \A t : Recorded(event, t) => t \in TaskIds
      <3>1. \A i \in 1..Len(records) : records[i] \in Record
        BY DEF Typed, PagesTyped
      <3>2. \A i \in 1..Len(records) : records[i].task \in TaskIds
        BY <3>1 DEF Record
      <3> QED
        BY <3>2 DEF Recorded
    <2>2. \A t \in TaskIds : Recorded(event, t) => t \in ToSet(Tasks[event])
      BY <1>1 DEF CrawlInv, TablesInv
    <2>3. Had(<<event>>) /\ \A t \in TaskIds : t # NoLink
      BY <1>1 DEF CrawlInv, TablesInv, TaskIds
    <2> QED
      BY <2>1, <2>2, <2>3 DEF TasksOf
  <1>4. TablesInv'
    BY <1>1, <1>2, <1>3 DEF CrawlInv, TablesInv
  <1>5. LostInv'
    BY <1>1, <1>2 DEF CrawlInv, LostInv
  <1>6. RecordsInv'
    BY RecordsElsewhere, <1>1, <1>2 DEF CrawlInv
  <1>7. KeptInv'
    BY <1>1 DEF KeptInv
  <1> QED
    BY <1>4, <1>5, <1>6, <1>7 DEF CrawlInv

LEMMA NextCrawlInv ==
  ASSUME Typed, CrawlInv, [Next]_vars
  PROVE  CrawlInv'
  <1>1. CASE FetchPage \/ NoMoreEvents \/ FetchRaises \/ PassOver \/ EndBatch
    BY <1>1, QuietKeeps
       DEF FetchPage, NoMoreEvents, FetchRaises, PassOver, EndBatch, windowVars, CrawlsEvent
  <1>2. CASE YieldEvent \/ EventRaises
    BY <1>2, TakeEventTables
  <1>3. CASE FetchTasks
    BY <1>3, FetchTasksTables
  <1>4. CASE TasksLost
    BY <1>4, TasksLostTables
  <1>5. CASE FetchTask
    BY <1>5, FetchTaskTables
  <1>6. CASE TaskLost
    BY <1>6, TaskLostTables
  <1>7. CASE FetchWriteup \/ WriteupLost
    BY <1>7, WriteupTables
  <1>8. CASE Over \/ UNCHANGED vars \/ \E e \in Events : Announce(e)
    BY <1>8, QuietKeeps DEF Over, vars, Announce, windowVars, pageVars
  <1>9. CASE WriteupRaises
    BY <1>9, WriteupRaisesTables
  <1> QED
    BY <1>1, <1>2, <1>3, <1>4, <1>5, <1>6, <1>7, <1>8, <1>9 DEF Next, Crawler

LEMMA NextRaisedInv ==
  ASSUME Typed, RaisedInv, [Next]_vars
  PROVE  RaisedInv'
  <1>1. CASE pc' # "raised"
    BY <1>1 DEF RaisedInv
  <1>2. CASE FetchRaises
    <2>1. event' = NoEvent
      BY <1>2 DEF FetchRaises, Typed, WindowTyped, CrawlsEvent
    <2> QED
      BY <2>1 DEF RaisedInv
  <1>3. CASE EventRaises
    BY <1>3 DEF EventRaises, TakeEvent, RaisedInv, RaisedOver
  <1>4. CASE WriteupRaises
    <2>1. /\ rows # <<>> /\ UrlOf(Head(rows)) \in Malformed
          /\ rows' = rows
      BY <1>4 DEF WriteupRaises, pageVars, Typed, PagesTyped
    <2> QED
      BY <2>1 DEF RaisedInv, RaisedOver
  <1>5. CASE Over \/ UNCHANGED vars \/ \E e \in Events : Announce(e)
    <2>1. UNCHANGED <<pc, event, rows>>
      BY <1>5 DEF Over, vars, Announce, pageVars
    <2> QED
      BY <2>1 DEF RaisedInv, RaisedOver
  <1>6. CASE \/ FetchPage \/ NoMoreEvents \/ PassOver \/ YieldEvent \/ EndBatch
    <2>1. pc' # "raised"
      BY <1>6 DEF FetchPage, NoMoreEvents, PassOver, YieldEvent, TakeEvent, EndBatch
    <2> QED
      BY <2>1, <1>1
  <1>7. CASE FetchTasks \/ TasksLost \/ FetchTask \/ TaskLost \/ FetchWriteup \/ WriteupLost
    <2>1. pc' # "raised"
      BY <1>7, CrawlStep, NextEventFacts DEF Typed
    <2> QED
      BY <2>1, <1>1
  <1> QED
    BY <1>2, <1>3, <1>4, <1>5, <1>6, <1>7 DEF Next, Crawler

(* Whatever pages are lost: when a crawl is over, every task that was found is one
   record unless the page of its event was lost, with the writeups whose pages
   were not; when it raised, that holds of the events before the one in hand, and
   it raised over the API, an event that cannot be built or a malformed link. *)
THEOREM OnlyLostMissing == Spec => []OnlyLostPagesMissing
  <1>1. Init => Typed /\ CrawlInv /\ RaisedInv
    <2> SUFFICES ASSUME Init
                 PROVE  CrawlInv /\ RaisedInv
      BY InitTyped
    <2>1. records = <<>> /\ Len(records) = 0 /\ seen = {} /\ lost = {} /\ pc = "api"
      BY DEF Init
    <2>2. 1..Len(records) = {}
      BY <2>1
    <2> QED
      BY <2>1, <2>2 DEF CrawlInv, TablesInv, LostInv, RecordsInv, KeptInv, RaisedInv, Recorded
  <1>2. Typed /\ CrawlInv /\ RaisedInv /\ [Next]_vars => (Typed /\ CrawlInv /\ RaisedInv)'
    BY NextTyped, NextCrawlInv, NextRaisedInv
  <1>3. Typed /\ CrawlInv /\ RaisedInv => OnlyLostPagesMissing
    <2> SUFFICES ASSUME Typed, CrawlInv, RaisedInv, pc \in {"done", "raised"}
                 PROVE  /\ \A e \in seen \ {event} : \A t \in TasksOf(e) :
                             \E r \in ToSet(records) : r.event = e /\ r.task = t
                        /\ \A i, j \in DOMAIN records :
                             records[i].event = records[j].event /\ records[i].task = records[j].task
                               => i = j
                        /\ \A r \in ToSet(records) :
                             /\ r.event \in seen /\ r.task \in TasksOf(r.event)
                             /\ WriteupsHad(r.writeups, r.event, r.task)
                        /\ event # NoEvent => pc = "raised" /\ RaisedOver(event)
      BY DEF OnlyLostPagesMissing
    <2>1. DOMAIN records = 1..Len(records)
      BY DEF Typed, PagesTyped
    <2>2. \A e, t : Recorded(e, t) <=> \E r \in ToSet(records) : r.event = e /\ r.task = t
      BY <2>1 DEF Recorded, ToSet
    <2>3. \A e \in seen \ {event} : \A t \in TasksOf(e) : t \in TaskIds
      <3>1. \A e \in Events : ToSet(Tasks[e]) \ {NoLink} \subseteq TaskIds
        BY DEF TaskIds
      <3>2. seen \subseteq Events
        BY EventFacts DEF Typed
      <3> QED
        BY <3>1, <3>2 DEF TasksOf
    <2>4. \A e \in seen \ {event}, t \in TaskIds : t \in TasksOf(e) <=> Recorded(e, t)
      BY DEF CrawlInv, TablesInv
    <2>5. ASSUME NEW r \in ToSet(records)
          PROVE  /\ r.event \in seen /\ r.task \in TasksOf(r.event)
                 /\ WriteupsHad(r.writeups, r.event, r.task)
      <3>1. PICK i \in 1..Len(records) : r = records[i]
        BY <2>1 DEF ToSet
      <3>2. r.event \in seen /\ r.task \in TaskIds /\ WriteupsHad(r.writeups, r.event, r.task)
        <4>1. records[i] \in Record
          BY <3>1 DEF Typed, PagesTyped
        <4>2. r.task \in TaskIds
          BY <4>1, <3>1 DEF Record
        <4> QED
          BY <4>2, <3>1 DEF CrawlInv, TablesInv, RecordsInv
      <3>3. Recorded(r.event, r.task)
        BY <3>1 DEF Recorded
      <3>4. event \in seen => pc = "raised"
        <4>1. event \in seen => event # NoEvent
          BY EventFacts DEF Typed
        <4> QED
          BY <4>1 DEF Typed, WindowTyped, CrawlsEvent
      <3>5. CASE r.event = event
        BY <3>2, <3>3, <3>4, <3>5 DEF CrawlInv, TablesInv
      <3>6. CASE r.event # event
        BY <2>4, <3>2, <3>3, <3>6
      <3> QED
        BY <3>2, <3>5, <3>6
    <2>6. event # NoEvent => pc = "raised" /\ RaisedOver(event)
      BY DEF RaisedInv, Typed, WindowTyped, CrawlsEvent
    <2> QED
      BY <2>1, <2>2, <2>3, <2>4, <2>5, <2>6 DEF CrawlInv, TablesInv
  <1> QED
    BY <1>1, <1>2, <1>3, PTL DEF Spec
=============================================================================
