------------------------ MODULE DiscoverShardsProofs ------------------------
(***************************************************************************)
(* Theorems about DiscoverShards for any repos, queries, dates, stars, cap, *)
(* page size, number of retries and number of updates.                     *)
(***************************************************************************)
EXTENDS DiscoverShards, FiniteSetTheorems, WellFoundedInduction, TLAPS

-----------------------------------------------------------------------------
(* The first n of the repos *)

(* Some repo of a set comes before all others. *)
LEMMA ForemostExists ==
  ASSUME NEW repos, repos # {}, repos \subseteq Repos, place \in Places
  PROVE  \E z \in repos : \A x \in repos : x # z => place[z] < place[x]
  <1>1. PICK R : IsWellFoundedOn(R, Nat) /\ \A a, b \in Nat : a < b => <<a, b>> \in R
    <2>1. \A a, b \in Nat : a < b => <<a, b>> \in OpToRel(<, Nat)
      BY DEF OpToRel
    <2> QED
      BY <2>1, NatLessThanWellFounded, Zenon
  <1>2. IsWellFoundedOn(R, Nat)
    BY <1>1
  <1> DEFINE S == {place[x] : x \in repos}
  <1>3. \A x \in Repos : place[x] \in Nat
    BY FS_CardinalityType, ShardsAssumption DEF Places
  <1>4. S \subseteq Nat /\ S # {}
    BY <1>3
  <1>5. \E n \in S : \A m \in S : <<m, n>> \notin R
    BY <1>2, <1>4, WFMin
  <1>6. PICK z \in repos : \A m \in S : <<m, place[z]>> \notin R
    BY <1>5
  <1>7. ASSUME NEW x \in repos, x # z
        PROVE  place[z] < place[x]
    <2>1. place[x] \in Nat /\ place[z] \in Nat /\ place[x] # place[z]
      BY <1>3, <1>7 DEF Places
    <2>2. ~(place[x] < place[z])
      BY <1>1, <1>6, <2>1
    <2> QED
      BY <2>1, <2>2
  <1> QED
    BY <1>7

LEMMA AheadFinite ==
  ASSUME NEW repos, IsFiniteSet(repos), NEW r
  PROVE  IsFiniteSet(Ahead(r, repos)) /\ Cardinality(Ahead(r, repos)) \in Nat
  BY FS_Subset, FS_CardinalityType DEF Ahead

LEMMA FirstFinite ==
  ASSUME NEW repos, IsFiniteSet(repos), NEW n
  PROVE  /\ First(n, repos) \subseteq repos
         /\ IsFiniteSet(First(n, repos))
         /\ Cardinality(First(n, repos)) \in Nat
  BY FS_Subset, FS_CardinalityType DEF First

(* Of fewer than n repos, all are among the first n. *)
LEMMA FirstIsAll ==
  ASSUME NEW repos, repos \subseteq Repos, IsFiniteSet(repos), place \in Places,
         NEW n \in Nat, Cardinality(repos) <= n
  PROVE  First(n, repos) = repos
  <1> SUFFICES ASSUME NEW r \in repos
               PROVE  Cardinality(Ahead(r, repos)) < n
    BY DEF First
  <1>1. place[r] \in Nat
    BY FS_CardinalityType, ShardsAssumption DEF Places
  <1>2. Ahead(r, repos) \subseteq repos /\ Ahead(r, repos) # repos
    BY <1>1 DEF Ahead
  <1>3. Cardinality(Ahead(r, repos)) # Cardinality(repos)
    BY <1>2, FS_Subset
  <1>4. Cardinality(Ahead(r, repos)) <= Cardinality(repos)
    BY <1>2, FS_Subset
  <1>5. Cardinality(Ahead(r, repos)) \in Nat /\ Cardinality(repos) \in Nat
    BY FS_CardinalityType, AheadFinite
  <1> QED
    BY <1>3, <1>4, <1>5

(* The first n + 1 are the first n and one more. *)
LEMMA FirstSuccessor ==
  ASSUME NEW repos, repos \subseteq Repos, IsFiniteSet(repos), place \in Places,
         NEW n \in Nat, n < Cardinality(repos), Cardinality(First(n, repos)) = n
  PROVE  Cardinality(First(n + 1, repos)) = n + 1
  <1> DEFINE A == First(n, repos)
             B == First(n + 1, repos)
  <1>0. /\ A \subseteq repos /\ IsFiniteSet(A)
        /\ \A r : IsFiniteSet(Ahead(r, repos)) /\ Cardinality(Ahead(r, repos)) \in Nat
        /\ \A r \in repos : place[r] \in Nat
        /\ \A r, x \in repos : place[r] = place[x] => r = x
    BY FirstFinite, AheadFinite, FS_CardinalityType, ShardsAssumption DEF Places
  <1>1. repos \ A # {}
    <2>1. A # repos
      OBVIOUS
    <2> QED
      BY <2>1, <1>0
  <1>2. PICK z \in repos \ A : \A x \in repos \ A : x # z => place[z] < place[x]
    BY <1>1, ForemostExists
  <1>3. Ahead(z, repos) = A
    <2>1. ASSUME NEW x \in Ahead(z, repos)
          PROVE  x \in A
      <3>1. x \in repos /\ place[x] < place[z]
        BY DEF Ahead
      <3> QED
        BY <1>2, <1>0, <3>1
    <2>2. ASSUME NEW x \in A, x \notin Ahead(z, repos)
          PROVE  FALSE
      <3>1. x \in repos /\ Cardinality(Ahead(x, repos)) < n
        BY DEF First
      <3>2. place[z] <= place[x]
        BY <2>2, <3>1, <1>0 DEF Ahead
      <3>3. Ahead(z, repos) \subseteq Ahead(x, repos)
        BY <3>2, <3>1, <1>0 DEF Ahead
      <3>4. Cardinality(Ahead(z, repos)) <= Cardinality(Ahead(x, repos))
        BY <3>3, <1>0, FS_Subset
      <3>5. Cardinality(Ahead(z, repos)) < n
        BY <3>1, <3>4, <1>0
      <3> QED
        BY <3>5, <1>2 DEF First
    <2> QED
      BY <2>1, <2>2
  <1>4. A \cup {z} \subseteq B
    <2>1. Cardinality(Ahead(z, repos)) = n
      BY <1>3
    <2>2. z \in B
      BY <2>1, <1>2 DEF First
    <2>3. \A x \in A : x \in B
      BY <1>0 DEF First
    <2> QED
      BY <2>2, <2>3
  <1>5. ASSUME NEW y \in B, y \notin A \cup {z}
        PROVE  FALSE
    <2>1. y \in repos /\ Cardinality(Ahead(y, repos)) < n + 1
      BY DEF First
    <2>2. place[z] < place[y]
      BY <1>2, <1>5, <2>1
    <2>3. A \cup {z} \subseteq Ahead(y, repos)
      <3>1. \A x \in Ahead(z, repos) : x \in repos /\ place[x] < place[z]
        BY DEF Ahead
      <3> QED
        BY <3>1, <1>3, <2>2, <1>0, <1>2, <2>1 DEF Ahead
    <2>4. Cardinality(A \cup {z}) = n + 1
      BY <1>0, <1>2, FS_AddElement
    <2>5. Cardinality(A \cup {z}) <= Cardinality(Ahead(y, repos))
      BY <2>3, <1>0, FS_Subset
    <2> QED
      BY <2>1, <2>4, <2>5, <1>0
  <1>6. B = A \cup {z}
    BY <1>4, <1>5
  <1> QED
    BY <1>6, <1>0, <1>2, FS_AddElement

(* Of n repos or more, the first n are n. *)
LEMMA FirstCount ==
  ASSUME NEW repos, repos \subseteq Repos, IsFiniteSet(repos), place \in Places,
         NEW n \in Nat, n <= Cardinality(repos)
  PROVE  Cardinality(First(n, repos)) = n
  <1> DEFINE Wrong == {k \in Nat : k <= Cardinality(repos) /\ Cardinality(First(k, repos)) # k}
  <1>0. Cardinality(repos) \in Nat
    BY FS_CardinalityType
  <1> SUFFICES ASSUME Wrong # {}
               PROVE  FALSE
    OBVIOUS
  <1>1. PICK R : IsWellFoundedOn(R, Nat) /\ \A a, b \in Nat : a < b => <<a, b>> \in R
    <2>1. \A a, b \in Nat : a < b => <<a, b>> \in OpToRel(<, Nat)
      BY DEF OpToRel
    <2> QED
      BY <2>1, NatLessThanWellFounded, Zenon
  <1>2. IsWellFoundedOn(R, Nat)
    BY <1>1
  <1>3. PICK k \in Wrong : \A m \in Wrong : <<m, k>> \notin R
    <2>1. Wrong \subseteq Nat
      OBVIOUS
    <2> HIDE DEF Wrong
    <2> QED
      BY <1>2, <2>1, WFMin
  <1>4. \A m \in Wrong : ~(m < k)
    BY <1>1, <1>3
  <1>5. k # 0
    <2>1. First(0, repos) = {}
      <3>1. \A r \in repos : Cardinality(Ahead(r, repos)) \in Nat
        BY AheadFinite
      <3>2. \A r \in repos : ~(Cardinality(Ahead(r, repos)) < 0)
        BY <3>1
      <3> QED
        BY <3>2 DEF First
    <2> QED
      BY <2>1, <1>3, FS_EmptySet
  <1>6. k - 1 \in Nat /\ k - 1 < Cardinality(repos) /\ k - 1 \notin Wrong /\ (k - 1) + 1 = k
    BY <1>0, <1>3, <1>4, <1>5
  <1>7. Cardinality(First(k - 1, repos)) = k - 1
    BY <1>6, <1>0
  <1>8. Cardinality(First((k - 1) + 1, repos)) = (k - 1) + 1
    BY <1>6, <1>7, FirstSuccessor
  <1> QED
    BY <1>3, <1>6, <1>8

-----------------------------------------------------------------------------
(* Arithmetic of pages and windows *)

LEMMA QuotientBounds ==
  ASSUME NEW a \in Nat, NEW b \in Nat \ {0}
  PROVE  /\ a \div b \in Nat
         /\ (a \div b) * b <= a
         /\ a < (a \div b) * b + b
  <1>1. a \div b \in Nat
    OBVIOUS
  <1>2. a = b * (a \div b) + (a % b) /\ 0 <= a % b /\ a % b < b
    OBVIOUS
  <1> QED
    BY <1>1, <1>2

(* search_repos' last page is the first, or a later one, and reaches the cap. *)
LEMMA PagesReachCap ==
  MaxPages \in Nat \ {0} /\ MaxPages * PageSize >= Cap
  <1>1. PICK a : a = Cap + PageSize - 1
    OBVIOUS
  <1>2. a \in Nat /\ Cap \in Nat \ {0} /\ PageSize \in Nat \ {0}
    BY <1>1, ShardsAssumption
  <1>3. PICK m : m = a \div PageSize
    OBVIOUS
  <1>4. m \in Nat /\ a < m * PageSize + PageSize
    BY <1>2, <1>3, QuotientBounds
  <1>5. m * PageSize \in Nat
    BY <1>2, <1>4
  <1>6. m * PageSize >= Cap
    BY <1>1, <1>2, <1>4, <1>5
  <1>7. m # 0
    BY <1>2, <1>4, <1>6
  <1>8. MaxPages = m
    BY <1>1, <1>3 DEF MaxPages
  <1> QED
    BY <1>4, <1>6, <1>7, <1>8

LEMMA PageBounds ==
  ASSUME NEW p \in Nat \ {0}
  PROVE  /\ (p - 1) * PageSize \in Nat
         /\ p * PageSize \in Nat
         /\ (p - 1) * PageSize < p * PageSize
         /\ (p + 1) - 1 = p
  <1>1. PICK d \in Nat : d = p - 1
    OBVIOUS
  <1>2. p = d + 1 /\ PageSize \in Nat \ {0}
    BY <1>1, ShardsAssumption
  <1>3. (d + 1) * PageSize = d * PageSize + PageSize
    BY <1>2
  <1>4. d * PageSize \in Nat
    BY <1>2
  <1>5. p * PageSize = d * PageSize + PageSize /\ (p - 1) * PageSize = d * PageSize
    BY <1>1, <1>2, <1>3
  <1> QED
    BY <1>2, <1>4, <1>5

(* The days and the stars of a window are ranges. *)
IsRange(S) == \E a, b \in Nat : a <= b /\ S = a..b

LEMMA RangeEnds ==
  ASSUME NEW S, IsRange(S)
  PROVE  /\ Low(S) \in S /\ High(S) \in S
         /\ Low(S) \in Nat /\ High(S) \in Nat /\ Low(S) <= High(S)
         /\ S = Low(S)..High(S)
         /\ Cardinality(S) = High(S) - Low(S) + 1
         /\ IsFiniteSet(S)
  <1>1. PICK a \in Nat, b \in Nat : a <= b /\ S = a..b
    BY DEF IsRange
  <1>2. Low(S) = a
    <2>1. a \in S /\ \A y \in S : a <= y
      BY <1>1
    <2>2. \A x \in S : (\A y \in S : x <= y) => x = a
      BY <1>1, <2>1
    <2> QED
      BY <2>1, <2>2 DEF Low
  <1>3. High(S) = b
    <2>1. b \in S /\ \A y \in S : y <= b
      BY <1>1
    <2>2. \A x \in S : (\A y \in S : y <= x) => x = b
      BY <1>1, <2>1
    <2> QED
      BY <2>1, <2>2 DEF High
  <1>4. Cardinality(a..b) = b - a + 1 /\ IsFiniteSet(a..b)
    <2>1. a \in Int /\ b \in Int /\ ~(a > b)
      BY <1>1
    <2> QED
      BY <2>1, FS_Interval
  <1>5. a \in S /\ b \in S
    BY <1>1
  <1>6. S = Low(S)..High(S)
    BY <1>1, <1>2, <1>3
  <1>7. Cardinality(S) = High(S) - Low(S) + 1 /\ IsFiniteSet(S)
    BY <1>1, <1>2, <1>3, <1>4
  <1>8. Low(S) <= High(S)
    BY <1>1, <1>2, <1>3
  <1> QED
    BY <1>2, <1>3, <1>5, <1>6, <1>7, <1>8

(* A range of two or more is cut in two ranges that make it up. *)
LEMMA RangeHalves ==
  ASSUME NEW S, IsRange(S), Cardinality(S) > 1
  PROVE  /\ IsRange(Low(S)..Mid(S)) /\ IsRange((Mid(S) + 1)..High(S))
         /\ S = (Low(S)..Mid(S)) \cup ((Mid(S) + 1)..High(S))
  <1>1. PICK a \in Nat, b \in Nat : a = Low(S) /\ b = High(S) /\ a <= b /\ S = a..b
                                    /\ Cardinality(S) = b - a + 1
    BY RangeEnds
  <1>2. a < b
    BY <1>1
  <1>3. PICK m : m = a + (b - a) \div 2
    OBVIOUS
  <1>4. m \in Nat /\ a <= m /\ m < b
    BY <1>2, <1>3
  <1>5. Mid(S) = m
    BY <1>1, <1>3 DEF Mid
  <1>6. IsRange(a..m) /\ IsRange((m + 1)..b)
    BY <1>4 DEF IsRange
  <1>7. a..b = (a..m) \cup ((m + 1)..b)
    BY <1>4
  <1> QED
    BY <1>1, <1>5, <1>6, <1>7

(* The windows on the stack are of ranges, and one of days is of all stars. *)
WindowOK(w) ==
    /\ IsRange(w.days)
    /\ IsRange(w.stars)
    /\ w.by = "dates" => w.stars = 0..TopStars

LEMMA AllDaysWindow ==
  Dates(1, LastDay) \in Window /\ WindowOK(Dates(1, LastDay))
  <1>1. LastDay \in Nat \ {0} /\ TopStars \in Nat
    BY ShardsAssumption
  <1>2. IsRange(1..LastDay) /\ IsRange(0..TopStars)
    BY <1>1 DEF IsRange
  <1> QED
    BY <1>2 DEF Dates, Window, WindowOK

(* Splitting gives windows, and whatever was in the window is in one of them. *)
LEMMA HalvesCover ==
  ASSUME NEW w \in Window, WindowOK(w), Splittable(w)
  PROVE  /\ Halves(w) \in Seq(Window)
         /\ Len(Halves(w)) = 2
         /\ WindowOK(Halves(w)[1]) /\ WindowOK(Halves(w)[2])
         /\ \A r \in Repos : In(r, w) => In(r, Halves(w)[1]) \/ In(r, Halves(w)[2])
  <1>0. /\ w.by \in {"dates", "stars"} /\ w.days \subseteq 1..LastDay
        /\ w.stars \subseteq 0..TopStars
        /\ \A r \in Repos : Stars[r] \in 0..TopStars
    BY ShardsAssumption DEF Window
  <1>1. CASE w.by = "dates"
    <2>1. /\ IsRange(Low(w.days)..Mid(w.days)) /\ IsRange((Mid(w.days) + 1)..High(w.days))
          /\ w.days = (Low(w.days)..Mid(w.days)) \cup ((Mid(w.days) + 1)..High(w.days))
      BY <1>1, RangeHalves DEF WindowOK, Splittable
    <2>2. PICK u, v : /\ u = Dates(Low(w.days), Mid(w.days))
                      /\ v = Dates(Mid(w.days) + 1, High(w.days))
      OBVIOUS
    <2>3. Halves(w) = <<u, v>>
      BY <1>1, <2>2 DEF Halves
    <2>4. /\ u.by = "dates" /\ u.days = Low(w.days)..Mid(w.days) /\ u.stars = 0..TopStars
          /\ v.by = "dates" /\ v.days = (Mid(w.days) + 1)..High(w.days) /\ v.stars = 0..TopStars
      BY <2>2 DEF Dates
    <2>5. u \in Window /\ v \in Window
      BY <1>0, <2>1, <2>2 DEF Dates, Window
    <2>6. WindowOK(u) /\ WindowOK(v)
      <3>1. IsRange(0..TopStars)
        BY <1>1 DEF WindowOK
      <3> QED
        BY <3>1, <2>1, <2>4 DEF WindowOK
    <2>7. ASSUME NEW r \in Repos, In(r, w)
          PROVE  In(r, u) \/ In(r, v)
      BY <2>7, <2>1, <2>4, <1>0 DEF In
    <2> QED
      BY <2>3, <2>5, <2>6, <2>7
  <1>2. CASE w.by = "stars"
    <2>1. /\ IsRange(Low(w.stars)..Mid(w.stars)) /\ IsRange((Mid(w.stars) + 1)..High(w.stars))
          /\ w.stars = (Low(w.stars)..Mid(w.stars)) \cup ((Mid(w.stars) + 1)..High(w.stars))
      BY <1>2, RangeHalves DEF WindowOK, Splittable
    <2>2. PICK u, v : /\ u = StarsOfDay(w, Low(w.stars), Mid(w.stars))
                      /\ v = StarsOfDay(w, Mid(w.stars) + 1, High(w.stars))
      OBVIOUS
    <2>3. Halves(w) = <<u, v>>
      BY <1>2, <2>2 DEF Halves
    <2>4. /\ u.by = "stars" /\ u.days = w.days /\ u.stars = Low(w.stars)..Mid(w.stars)
          /\ v.by = "stars" /\ v.days = w.days /\ v.stars = (Mid(w.stars) + 1)..High(w.stars)
      BY <2>2 DEF StarsOfDay
    <2>5. u \in Window /\ v \in Window
      BY <1>0, <2>1, <2>2 DEF StarsOfDay, Window
    <2>6. WindowOK(u) /\ WindowOK(v)
      BY <2>1, <2>4 DEF WindowOK
    <2>7. ASSUME NEW r \in Repos, In(r, w)
          PROVE  In(r, u) \/ In(r, v)
      BY <2>7, <2>1, <2>4 DEF In
    <2> QED
      BY <2>3, <2>5, <2>6, <2>7
  <1> QED
    BY <1>0, <1>1, <1>2

LEMMA StarsOfWholeDay ==
  ASSUME NEW w \in Window, WindowOK(w)
  PROVE  LET v == StarsOfDay(w, 0, TopStars)
         IN  v \in Window /\ WindowOK(v) /\ \A r \in Repos : In(r, w) => In(r, v)
  <1> DEFINE v == StarsOfDay(w, 0, TopStars)
  <1>1. v.by = "stars" /\ v.days = w.days /\ v.stars = 0..TopStars
    BY DEF StarsOfDay
  <1>2. v \in Window
    BY DEF StarsOfDay, Window
  <1>3. IsRange(0..TopStars)
    BY ShardsAssumption DEF IsRange
  <1>4. \A r \in Repos : Stars[r] \in 0..TopStars
    BY ShardsAssumption
  <1> QED
    BY <1>1, <1>2, <1>3, <1>4 DEF WindowOK, In

-----------------------------------------------------------------------------
(* Types *)

(* TypeOK, and which windows the stack may hold at which point. *)
Typed ==
    /\ TypeOK
    /\ \A i \in 1..Len(stack) : WindowOK(stack[i])
    /\ stack # <<>> => query # 0
    /\ pc = "idle" => stack = <<>>
    /\ pc = "page" => page # 0
    /\ pc = "returned" /\ stack = <<>> => query = Len(Queries)

LEMMA HitsFinite ==
  ASSUME NEW q \in 1..Len(Queries), NEW w
  PROVE  /\ Hits(q, w) \subseteq Repos
         /\ IsFiniteSet(Hits(q, w))
         /\ Cardinality(Hits(q, w)) \in Nat
  <1>1. Queries[q] \subseteq Repos /\ IsFiniteSet(Repos)
    BY ShardsAssumption
  <1>2. Hits(q, w) \subseteq Repos
    BY <1>1 DEF Hits
  <1> QED
    BY <1>1, <1>2, FS_Subset, FS_CardinalityType

LEMMA StackHead ==
  ASSUME Typed, pc \in {"count", "page"}
  PROVE  /\ stack # <<>> /\ query \in 1..Len(Queries)
         /\ Head(stack) = stack[1] /\ Head(stack) \in Window /\ WindowOK(Head(stack))
         /\ Tail(stack) \in Seq(Window)
         /\ \A i \in 1..Len(Tail(stack)) : WindowOK(Tail(stack)[i])
         /\ Total \in Nat
  <1>1. stack # <<>> /\ query \in 1..Len(Queries) /\ stack \in Seq(Window)
    <2>1. Len(Queries) \in Nat
      BY ShardsAssumption
    <2> QED
      BY <2>1 DEF Typed, TypeOK
  <1>2. Head(stack) = stack[1] /\ Head(stack) \in Window /\ WindowOK(Head(stack))
    BY <1>1 DEF Typed
  <1>3. Tail(stack) \in Seq(Window)
    BY <1>1
  <1>4. \A i \in 1..Len(Tail(stack)) : WindowOK(Tail(stack)[i])
    <2>1. Len(Tail(stack)) = Len(stack) - 1
      BY <1>1
    <2>2. \A i \in 1..Len(Tail(stack)) : Tail(stack)[i] = stack[i + 1] /\ i + 1 \in 1..Len(stack)
      BY <1>1, <2>1
    <2> QED
      BY <2>2 DEF Typed
  <1>5. Total \in Nat
    BY <1>1, HitsFinite DEF Total
  <1> QED
    BY <1>1, <1>2, <1>3, <1>4, <1>5

(* Windows that are to be searched next, in place of the one in hand. *)
LEMMA GoOnTyped ==
  ASSUME Typed, pc \in {"count", "page"}, query' = query, NEW windows \in Seq(Window),
         \A i \in 1..Len(windows) : WindowOK(windows[i]), GoOn(windows)
  PROVE  /\ pc' \in {"idle", "count"}
         /\ stack' \in Seq(Window)
         /\ pc' = "count" => stack' # <<>>
         /\ attempt' \in 0..MaxRetries - 1
         /\ \A i \in 1..Len(stack') : WindowOK(stack'[i])
         /\ query' \in 1..Len(Queries)
         /\ pc' = "idle" => stack' = <<>>
  BY StackHead, ShardsAssumption DEF GoOn

LEMMA ConcatWindows ==
  ASSUME NEW s \in Seq(Window), NEW t \in Seq(Window),
         \A i \in 1..Len(s) : WindowOK(s[i]), \A i \in 1..Len(t) : WindowOK(t[i])
  PROVE  s \o t \in Seq(Window) /\ \A i \in 1..Len(s \o t) : WindowOK((s \o t)[i])
  <1>1. s \o t \in Seq(Window) /\ Len(s \o t) = Len(s) + Len(t)
    OBVIOUS
  <1>2. ASSUME NEW i \in 1..Len(s \o t)
        PROVE  WindowOK((s \o t)[i])
    <2>1. CASE i <= Len(s)
      BY <2>1, <1>1
    <2>2. CASE i > Len(s)
      <3>1. (s \o t)[i] = t[i - Len(s)] /\ i - Len(s) \in 1..Len(t)
        BY <2>2, <1>1
      <3> QED
        BY <3>1
    <2> QED
      BY <2>1, <2>2, <1>1
  <1> QED
    BY <1>1, <1>2

(* A split gives windows. *)
LEMMA SplitTyped ==
  ASSUME Typed, CountSplits
  PROVE  \E windows \in Seq(Window) :
           /\ \A i \in 1..Len(windows) : WindowOK(windows[i])
           /\ GoOn(windows)
           /\ \E ws \in Seq(Window) :
                /\ windows = ws \o Tail(stack)
                /\ \A r \in Repos : In(r, Head(stack)) => \E j \in 1..Len(ws) : In(r, ws[j])
  <1>1. /\ Head(stack) \in Window /\ WindowOK(Head(stack))
        /\ Tail(stack) \in Seq(Window)
        /\ \A i \in 1..Len(Tail(stack)) : WindowOK(Tail(stack)[i])
    BY StackHead DEF CountSplits
  <1>2. ASSUME NEW ws \in Seq(Window), \A i \in 1..Len(ws) : WindowOK(ws[i]),
               GoOn(ws \o Tail(stack)),
               \A r \in Repos : In(r, Head(stack)) => \E j \in 1..Len(ws) : In(r, ws[j])
        PROVE  \E windows \in Seq(Window) :
                 /\ \A i \in 1..Len(windows) : WindowOK(windows[i])
                 /\ GoOn(windows)
                 /\ \E s \in Seq(Window) :
                      /\ windows = s \o Tail(stack)
                      /\ \A r \in Repos : In(r, Head(stack)) => \E j \in 1..Len(s) : In(r, s[j])
    BY <1>1, <1>2, ConcatWindows
  <1>3. PICK w : w = Head(stack)
    OBVIOUS
  <1>4. CASE Splittable(w) /\ GoOn(Halves(w) \o Tail(stack))
    <2>1. /\ Halves(w) \in Seq(Window)
          /\ Len(Halves(w)) = 2
          /\ WindowOK(Halves(w)[1]) /\ WindowOK(Halves(w)[2])
          /\ \A r \in Repos : In(r, w) => In(r, Halves(w)[1]) \/ In(r, Halves(w)[2])
      BY <1>1, <1>3, <1>4, HalvesCover
    <2>2. PICK h : h = Halves(w)
      OBVIOUS
    <2>3. \A i \in 1..Len(h) : WindowOK(h[i])
      <3>1. Len(h) = 2 /\ WindowOK(h[1]) /\ WindowOK(h[2])
        BY <2>1, <2>2
      <3>2. \A i \in 1..2 : i = 1 \/ i = 2
        OBVIOUS
      <3> QED
        BY <3>1, <3>2
    <2>4. \A r \in Repos : In(r, w) => \E j \in 1..Len(h) : In(r, h[j])
      <3>1. 1 \in 1..Len(h) /\ 2 \in 1..Len(h)
        BY <2>1, <2>2
      <3> QED
        BY <2>1, <2>2, <3>1
    <2>5. h \in Seq(Window) /\ GoOn(h \o Tail(stack))
      BY <2>1, <2>2, <1>4
    <2> QED
      BY <1>2, <1>3, <2>3, <2>4, <2>5
  <1>5. CASE GoOn(<<StarsOfDay(w, 0, TopStars)>> \o Tail(stack))
    <2>1. PICK v : v = StarsOfDay(w, 0, TopStars)
      OBVIOUS
    <2>2. v \in Window /\ WindowOK(v) /\ \A r \in Repos : In(r, w) => In(r, v)
      BY <1>1, <1>3, <2>1, StarsOfWholeDay
    <2>3. PICK h : h = <<v>>
      OBVIOUS
    <2>4. h \in Seq(Window) /\ Len(h) = 1 /\ h[1] = v
      BY <2>2, <2>3
    <2>5. \A i \in 1..Len(h) : WindowOK(h[i])
      BY <2>2, <2>4
    <2>6. \A r \in Repos : In(r, w) => \E j \in 1..Len(h) : In(r, h[j])
      <3>1. 1 \in 1..Len(h)
        BY <2>4
      <3> QED
        BY <2>2, <2>4, <3>1
    <2>7. GoOn(h \o Tail(stack))
      BY <1>5, <2>1, <2>3
    <2> QED
      BY <1>2, <1>3, <2>4, <2>5, <2>6, <2>7
  <1> QED
    BY <1>3, <1>4, <1>5 DEF CountSplits

(* A push moves a repo to the front and the ones it passes one place back. *)
LEMMA UpdateTyped ==
  ASSUME place \in Places, NEW r \in Repos, Update(r)
  PROVE  /\ place' \in Places
         /\ \A x, y \in Repos : y # r /\ place[x] < place[y] => place'[x] < place'[y]
  <1>1. PICK n : n = Cardinality(Repos)
    OBVIOUS
  <1>2. n \in Nat /\ place \in [Repos -> 1..n] /\ \A x, y \in Repos : place[x] = place[y] => x = y
    BY <1>1, FS_CardinalityType, ShardsAssumption DEF Places
  <1>3. /\ DOMAIN place' = Repos
        /\ place' \in [Repos -> 1..n]
        /\ \A x \in Repos : place'[x] = IF x = r THEN 1
                                        ELSE IF place[x] < place[r] THEN place[x] + 1 ELSE place[x]
    BY <1>2 DEF Update
  <1>4. \A x, y \in Repos : y # r /\ place[x] < place[y] => place'[x] < place'[y]
    <2> SUFFICES ASSUME NEW x \in Repos, NEW y \in Repos, y # r, place[x] < place[y]
                 PROVE  place'[x] < place'[y]
      OBVIOUS
    <2>1. place[x] \in 1..n /\ place[y] \in 1..n /\ place[r] \in 1..n /\ place[y] # place[r]
      BY <1>2
    <2> QED
      BY <2>1, <1>2, <1>3
  <1>5. ASSUME NEW x \in Repos, NEW y \in Repos, x # y
        PROVE  place'[x] # place'[y]
    <2>1. /\ place[x] \in 1..n /\ place[y] \in 1..n /\ place[r] \in 1..n
          /\ place[x] # place[y]
          /\ x # r => place[x] # place[r]
          /\ y # r => place[y] # place[r]
      BY <1>2, <1>5
    <2> QED
      BY <2>1, <1>2, <1>3, <1>5
  <1> QED
    BY <1>1, <1>3, <1>4, <1>5 DEF Places

LEMMA ReadPageTyped ==
  ASSUME Typed, ReadPage
  PROVE  /\ New(Items(Hits(query, Head(stack)), page)) \subseteq Repos \ Excluded
         /\ found' \subseteq Repos \ Excluded
         /\ found \subseteq found'
  <1>1. Hits(query, Head(stack)) \subseteq Repos
    BY StackHead, HitsFinite DEF ReadPage
  <1>2. PICK hits : hits = Hits(query, Head(stack))
    OBVIOUS
  <1>3. Items(hits, page) \subseteq hits
    BY DEF Items, First
  <1>4. PICK new : new = New(Items(hits, page))
    OBVIOUS
  <1>5. new \subseteq Repos \ Excluded
    BY <1>1, <1>2, <1>3, <1>4 DEF New
  <1>6. First(Room, new) \subseteq new
    BY DEF First
  <1>7. found' = found \cup First(Room, new)
    BY <1>2, <1>4 DEF ReadPage
  <1>8. found \subseteq Repos \ Excluded
    BY DEF Typed, TypeOK
  <1> QED
    BY <1>2, <1>4, <1>5, <1>6, <1>7, <1>8

LEMMA InitTyped ==
  ASSUME Init
  PROVE  Typed
  <1>1. Len(Queries) \in Nat /\ MaxRetries \in Nat \ {0} /\ MaxPages \in Nat \ {0}
    BY ShardsAssumption, PagesReachCap
  <1>2. TypeOK
    BY <1>1 DEF Init, TypeOK
  <1> QED
    BY <1>2 DEF Init, Typed

LEMMA NextTyped ==
  ASSUME Typed, [Next]_vars
  PROVE  Typed'
  <1> USE DEF githubVars
  <1>0. /\ Len(Queries) \in Nat /\ MaxRetries \in Nat \ {0} /\ MaxPages \in Nat \ {0}
        /\ attempt \in 0..MaxRetries - 1 /\ page \in 0..MaxPages
    BY ShardsAssumption, PagesReachCap DEF Typed, TypeOK
  <1>1. CASE StartQuery
    <2>1. Dates(1, LastDay) \in Window /\ WindowOK(Dates(1, LastDay))
      BY AllDaysWindow
    <2>2. stack' \in Seq(Window) /\ stack' # <<>> /\ \A i \in 1..Len(stack') : WindowOK(stack'[i])
      BY <2>1, <1>1 DEF StartQuery
    <2>3. query' \in 1..Len(Queries)
      BY <1>0, <1>1 DEF StartQuery, Typed, TypeOK
    <2> QED
      BY <1>0, <1>1, <2>2, <2>3 DEF StartQuery, Typed, TypeOK
  <1>2. CASE ReturnFound
    BY <1>2 DEF ReturnFound, Typed, TypeOK
  <1>3. CASE CountEmpty
    <2>1. pc \in {"count", "page"} /\ query' = query /\ GoOn(Tail(stack))
      BY <1>3 DEF CountEmpty
    <2> QED
      BY <1>3, <2>1, StackHead, GoOnTyped, <1>0 DEF CountEmpty, Typed, TypeOK
  <1>4. CASE CountFits
    <2>1. stack # <<>> /\ query # 0
      BY <1>4, StackHead, <1>0 DEF CountFits
    <2>2. page' \in 0..MaxPages /\ page' # 0 /\ attempt' \in 0..MaxRetries - 1
      BY <1>4, <1>0 DEF CountFits
    <2> QED
      BY <1>4, <2>1, <2>2 DEF CountFits, Typed, TypeOK
  <1>5. CASE CountSplits
    <2>1. PICK windows \in Seq(Window) :
            (\A i \in 1..Len(windows) : WindowOK(windows[i])) /\ GoOn(windows)
      BY <1>5, SplitTyped
    <2>2. pc \in {"count", "page"} /\ query' = query
      BY <1>5 DEF CountSplits
    <2> QED
      BY <1>5, <2>1, <2>2, GoOnTyped, <1>0 DEF CountSplits, Typed, TypeOK
  <1>6. CASE ReadPage
    <2>1. found' \subseteq Repos \ Excluded
      BY <1>6, ReadPageTyped
    <2>2. pc = "page" /\ query' = query /\ place' = place /\ moved' = moved
      BY <1>6 DEF ReadPage
    <2>3. stack # <<>> /\ query \in 1..Len(Queries)
      BY <2>2, StackHead
    <2>4. CASE pc' = "returned" /\ UNCHANGED <<stack, page, attempt>>
      BY <2>1, <2>2, <2>3, <2>4, <1>0 DEF Typed, TypeOK
    <2>5. CASE GoOn(Tail(stack)) /\ UNCHANGED page
      <3>1. /\ Tail(stack) \in Seq(Window)
            /\ \A i \in 1..Len(Tail(stack)) : WindowOK(Tail(stack)[i])
        BY <2>2, StackHead
      <3> QED
        BY <2>1, <2>2, <2>3, <2>5, <3>1, GoOnTyped, <1>0 DEF Typed, TypeOK
    <2>6. CASE /\ page' = page + 1 /\ attempt' = 0 /\ UNCHANGED <<pc, stack>>
               /\ ~LastPage(page, Total)
      <3>1. page # MaxPages
        BY <2>6 DEF LastPage
      <3>2. page' \in 0..MaxPages /\ page' # 0 /\ attempt' \in 0..MaxRetries - 1
        BY <2>6, <3>1, <1>0
      <3> QED
        BY <2>1, <2>2, <2>3, <2>6, <3>2 DEF Typed, TypeOK
    <2> QED
      BY <1>6, <2>4, <2>5, <2>6 DEF ReadPage
  <1>7. CASE RequestFails
    <2>1. attempt' \in 0..MaxRetries - 1
      BY <1>7, <1>0 DEF RequestFails
    <2> QED
      BY <1>7, <2>1 DEF RequestFails, Typed, TypeOK
  <1>8. CASE RequestGivenUp
    <2>1. pc \in {"count", "page"} /\ query' = query /\ GoOn(Tail(stack))
      BY <1>8 DEF RequestGivenUp
    <2> QED
      BY <1>8, <2>1, StackHead, GoOnTyped, <1>0 DEF RequestGivenUp, Typed, TypeOK
  <1>9. CASE RequestRefused
    BY <1>9 DEF RequestRefused, Typed, TypeOK
  <1>10. ASSUME NEW r \in Repos, Update(r)
         PROVE  Typed'
    <2>1. place' \in Places
      BY <1>10, UpdateTyped DEF Typed, TypeOK
    <2> QED
      BY <1>10, <2>1 DEF Update, Typed, TypeOK
  <1>11. CASE Over \/ UNCHANGED vars
    BY <1>11 DEF Over, vars, Typed, TypeOK
  <1> QED
    BY <1>1, <1>2, <1>3, <1>4, <1>5, <1>6, <1>7, <1>8, <1>9, <1>10, <1>11 DEF Next, Discoverer

(* Every variable of DiscoverShards keeps its type: the pages, the attempts and
   the windows stay within their bounds, no excluded repo is ever found, and the
   bisection produces nothing but windows. *)
THEOREM TypeCorrect == Spec => []TypeOK
  <1>1. Init => Typed
    BY InitTyped
  <1>2. Typed /\ [Next]_vars => Typed'
    BY NextTyped
  <1>3. Typed => TypeOK
    BY DEF Typed
  <1> QED
    BY <1>1, <1>2, <1>3, PTL DEF Spec

-----------------------------------------------------------------------------
(* max_repos *)

LEMMA NewFinite ==
  ASSUME Typed, ReadPage, NEW new, new = New(Items(Hits(query, Head(stack)), page))
  PROVE  /\ new \subseteq Repos \ Excluded /\ IsFiniteSet(new) /\ Cardinality(new) \in Nat
         /\ new \cap found = {}
  <1>1. new \subseteq Repos \ Excluded
    BY ReadPageTyped
  <1>2. IsFiniteSet(new) /\ Cardinality(new) \in Nat
    BY <1>1, ShardsAssumption, FS_Subset, FS_CardinalityType
  <1> QED
    BY <1>1, <1>2 DEF New

LEMMA CapKept ==
  ASSUME Typed, CapRespected, [Next]_vars
  PROVE  CapRespected'
  <1>0. /\ IsFiniteSet(found) /\ Cardinality(found) \in Nat /\ MaxRepos \in Nat
        /\ place \in Places
    BY ShardsAssumption, FS_Subset, FS_CardinalityType DEF Typed, TypeOK
  <1>1. CASE ReadPage
    <2>1. PICK new : new = New(Items(Hits(query, Head(stack)), page))
      OBVIOUS
    <2>2. PICK room : room = MaxRepos - Cardinality(found)
      OBVIOUS
    <2>3. room \in Nat
      BY <1>0, <2>2 DEF CapRespected
    <2>4. new \subseteq Repos /\ IsFiniteSet(new) /\ Cardinality(new) \in Nat /\ new \cap found = {}
      BY <1>1, <2>1, NewFinite
    <2>5. found' = found \cup First(room, new)
      BY <1>1, <2>1, <2>2 DEF ReadPage, Room
    <2>6. /\ First(room, new) \subseteq new /\ IsFiniteSet(First(room, new))
          /\ Cardinality(First(room, new)) \in Nat
      BY <2>4, FirstFinite
    <2>7. Cardinality(found') = Cardinality(found) + Cardinality(First(room, new))
      <3>1. found \cap First(room, new) = {}
        BY <2>4, <2>6
      <3>2. PICK few : few = First(room, new)
        OBVIOUS
      <3>3. Cardinality(found \cup few) = Cardinality(found) + Cardinality(few) - Cardinality({})
        BY <1>0, <2>6, <3>1, <3>2, FS_Union
      <3>4. found' = found \cup few /\ Cardinality(few) \in Nat /\ Cardinality({}) = 0
        BY <2>5, <2>6, <3>2, FS_EmptySet
      <3> QED
        BY <3>2, <3>3, <3>4, <1>0
    <2>8. CASE Cardinality(new) > room
      <3>1. Cardinality(First(room, new)) = room
        BY <2>3, <2>4, <2>8, <1>0, FirstCount
      <3>2. Cardinality(found') = MaxRepos
        BY <2>2, <2>7, <3>1, <1>0
      <3> QED
        BY <3>2, <1>0 DEF CapRespected
    <2>9. CASE ~(Cardinality(new) > room)
      <3>1. Cardinality(First(room, new)) <= room
        BY <2>4, <2>6, <2>9, <2>3, FS_Subset
      <3>2. Cardinality(found') <= MaxRepos
        BY <2>2, <2>7, <3>1, <2>6, <1>0
      <3>3. pc' # "returned"
        BY <1>1, <2>1, <2>2, <2>9 DEF ReadPage, Room, GoOn
      <3> QED
        BY <3>2, <3>3 DEF CapRespected
    <2> QED
      BY <2>8, <2>9
  <1>2. CASE ReturnFound
    <2>1. stack = <<>>
      BY <1>2 DEF ReturnFound, Typed
    <2> QED
      BY <1>2, <2>1 DEF ReturnFound, CapRespected, RanThrough
  <1>3. CASE StartQuery \/ CountEmpty \/ CountFits \/ CountSplits \/ RequestFails \/ RequestGivenUp
             \/ RequestRefused
    <2>1. found' = found /\ pc' # "returned"
      BY <1>3 DEF StartQuery, CountEmpty, CountFits, CountSplits, RequestFails, RequestGivenUp,
                  RequestRefused, GoOn
    <2> QED
      BY <2>1 DEF CapRespected
  <1>4. CASE (\E r \in Repos : Update(r)) \/ Over \/ UNCHANGED vars
    <2>1. UNCHANGED <<found, pc, stack>>
      BY <1>4 DEF Update, Over, vars
    <2> QED
      BY <2>1 DEF CapRespected, RanThrough
  <1> QED
    BY <1>1, <1>2, <1>3, <1>4 DEF Next, Discoverer

(* max_repos bounds the result wherever it is reached, in the middle of a page,
   of a leaf, or between queries; and a search that it cut short returns exactly
   that many. *)
THEOREM CapHolds == Spec => []CapRespected
  <1>1. Init => CapRespected
    BY FS_EmptySet, ShardsAssumption DEF Init, CapRespected
  <1>2. Typed /\ CapRespected /\ [Next]_vars => CapRespected'
    BY CapKept
  <1>3. Init => Typed
    BY InitTyped
  <1>4. Typed /\ [Next]_vars => Typed'
    BY NextTyped
  <1> QED
    BY <1>1, <1>2, <1>3, <1>4, PTL DEF Spec

-----------------------------------------------------------------------------
(* Nothing is lost silently *)

(* A repo that stays put, is wanted of a query, and is neither found nor in a
   search that was warned about. *)
Owed(q, r) ==
    /\ r \in Queries[q] \ (Excluded \cup moved \cup found)
    /\ ~LossLogged(r)

(* It is still to be found: by the query in hand, in a window on the stack. *)
SearchInv ==
    \A q \in 1..query, r \in Repos :
        Owed(q, r) => q = query /\ \E i \in 1..Len(stack) : In(r, stack[i])

(* In the leaf in hand, it is on the page to be read or a later one. *)
LeafInv ==
    pc = "page" =>
        LET hits == Hits(query, Head(stack)) IN
        /\ (page - 1) * PageSize < Least(Cardinality(hits), Cap)
        /\ Cardinality(hits) > Cap => [query |-> query, window |-> Head(stack)] \in warned
        /\ \A r \in hits : Owed(query, r) =>
               (page - 1) * PageSize <= Cardinality(Ahead(r, hits))

(* Once settled, a repo stays settled. *)
LEMMA OwedShrinks ==
  ASSUME found \subseteq found', moved \subseteq moved', warned \subseteq warned'
  PROVE  \A q, r : Owed(q, r)' => Owed(q, r)
  BY DEF Owed, LossLogged

(* The window in hand gives way to others that hold what is still owed of it. *)
LEMMA SearchGoesOn ==
  ASSUME Typed, SearchInv, pc \in {"count", "page"}, query' = query,
         \A q, r : Owed(q, r)' => Owed(q, r),
         NEW ws \in Seq(Window), GoOn(ws \o Tail(stack)),
         \A r \in Hits(query, Head(stack)) : Owed(query, r)' => \E j \in 1..Len(ws) : In(r, ws[j])
  PROVE  SearchInv'
  <1>1. /\ stack # <<>> /\ query \in 1..Len(Queries) /\ stack \in Seq(Window)
        /\ Head(stack) = stack[1] /\ Tail(stack) \in Seq(Window)
    BY StackHead DEF Typed, TypeOK
  <1>2. PICK s : s = ws \o Tail(stack)
    OBVIOUS
  <1>3. stack' = s /\ s \in Seq(Window) /\ Len(s) = Len(ws) + Len(Tail(stack))
    BY <1>1, <1>2 DEF GoOn
  <1>4. ASSUME NEW q \in 1..query, NEW r \in Repos, Owed(q, r)'
        PROVE  q = query /\ \E k \in 1..Len(s) : In(r, s[k])
    <2>1. Owed(q, r)
      BY <1>4
    <2>2. q = query /\ r \in Queries[query]
      BY <2>1 DEF SearchInv, Owed
    <2>3. PICK i \in 1..Len(stack) : In(r, stack[i])
      BY <2>1 DEF SearchInv
    <2>4. CASE i = 1
      <3>1. r \in Hits(query, Head(stack))
        BY <2>2, <2>3, <2>4, <1>1 DEF Hits
      <3>2. Owed(query, r)'
        BY <2>2, <1>4
      <3>3. PICK j \in 1..Len(ws) : In(r, ws[j])
        BY <3>1, <3>2
      <3>4. j \in 1..Len(s) /\ s[j] = ws[j]
        BY <1>1, <1>2, <1>3
      <3> QED
        BY <2>2, <3>3, <3>4
    <2>5. CASE i # 1
      <3>1. PICK t : t = Tail(stack)
        OBVIOUS
      <3>2. t \in Seq(Window) /\ Len(t) = Len(stack) - 1 /\ i - 1 \in 1..Len(t) /\ t[i - 1] = stack[i]
        BY <1>1, <2>5, <3>1
      <3>3. /\ Len(ws) + (i - 1) \in 1..Len(s)
            /\ s[Len(ws) + (i - 1)] = t[i - 1]
        BY <1>2, <1>3, <3>1, <3>2
      <3> QED
        BY <2>2, <2>3, <3>2, <3>3
    <2> QED
      BY <2>4, <2>5
  <1> QED
    BY <1>1, <1>3, <1>4 DEF SearchInv

(* Its window is done with: nothing is owed of it. *)
LEMMA SearchPops ==
  ASSUME Typed, SearchInv, pc \in {"count", "page"}, query' = query,
         \A q, r : Owed(q, r)' => Owed(q, r),
         GoOn(Tail(stack)),
         \A r \in Hits(query, Head(stack)) : ~Owed(query, r)'
  PROVE  SearchInv'
  <1>1. Tail(stack) \in Seq(Window)
    BY StackHead
  <1>2. PICK ws : ws = << >>
    OBVIOUS
  <1>3. ws \in Seq(Window) /\ ws \o Tail(stack) = Tail(stack)
    BY <1>1, <1>2
  <1>4. GoOn(ws \o Tail(stack))
    BY <1>3
  <1> QED
    BY <1>3, <1>4, SearchGoesOn

(* Pushes to others only put more repos ahead of one that stays. *)
LEMMA LeafKeptByUpdate ==
  ASSUME Typed, LeafInv, NEW x \in Repos, Update(x)
  PROVE  LeafInv'
  <1> SUFFICES ASSUME pc = "page"
               PROVE  LeafInv'
    BY DEF Update, LeafInv
  <1>1. PICK hits : hits = Hits(query, Head(stack))
    OBVIOUS
  <1>2. PICK n : n = (page - 1) * PageSize
    OBVIOUS
  <1>3. /\ n < Least(Cardinality(hits), Cap)
        /\ Cardinality(hits) > Cap => [query |-> query, window |-> Head(stack)] \in warned
        /\ \A r \in hits : Owed(query, r) => n <= Cardinality(Ahead(r, hits))
    BY <1>1, <1>2 DEF LeafInv
  <1>4. hits \subseteq Repos /\ IsFiniteSet(hits)
    BY <1>1, StackHead, HitsFinite
  <1>5. n \in Nat
    <2>1. page \in Nat \ {0}
      BY PagesReachCap DEF Typed, TypeOK
    <2> QED
      BY <1>2, <2>1, PageBounds
  <1>6. \A y, z \in Repos : z # x /\ place[y] < place[z] => place'[y] < place'[z]
    BY UpdateTyped DEF Typed, TypeOK
  <1>7. ASSUME NEW r \in hits, Owed(query, r)'
        PROVE  n <= Cardinality(Ahead(r, hits)')
    <2>1. r # x /\ Owed(query, r)
      BY <1>7 DEF Owed, Update, LossLogged
    <2>2. Ahead(r, hits) \subseteq Ahead(r, hits)'
      BY <1>4, <1>6, <2>1 DEF Ahead
    <2>3. Ahead(r, hits)' \subseteq hits
      BY DEF Ahead
    <2>4. PICK a, b : a = Ahead(r, hits) /\ b = Ahead(r, hits)'
      OBVIOUS
    <2>5. IsFiniteSet(b)
      BY <1>4, <2>3, <2>4, FS_Subset
    <2>6. Cardinality(a) <= Cardinality(b) /\ IsFiniteSet(a)
      BY <2>2, <2>4, <2>5, FS_Subset
    <2>7. n <= Cardinality(a)
      BY <1>3, <2>1, <2>4
    <2>8. Cardinality(a) \in Nat /\ Cardinality(b) \in Nat
      BY <2>5, <2>6, FS_CardinalityType
    <2> QED
      BY <2>4, <2>6, <2>7, <2>8, <1>5
  <1>8. UNCHANGED <<query, stack, page, warned>>
    BY DEF Update
  <1>9. Hits(query, Head(stack))' = hits
    BY <1>1, <1>8 DEF Hits
  <1>10. /\ (page' - 1) * PageSize = n
         /\ Cardinality(hits) > Cap => [query |-> query', window |-> Head(stack')] \in warned'
         /\ \A r \in hits : Owed(query, r)' => n <= Cardinality(Ahead(r, hits)')
    BY <1>2, <1>3, <1>7, <1>8
  <1> QED
    BY <1>3, <1>8, <1>9, <1>10 DEF LeafInv

(* A page read leaves nothing owed of the leaf but what comes on the pages
   after it; and nothing at all if it was the last. *)
LEMMA PageSettles ==
  ASSUME Typed, LeafInv, ReadPage, pc' # "returned",
         NEW hits, hits = Hits(query, Head(stack))
  PROVE  /\ \A q, r : Owed(q, r)' => Owed(q, r)
         /\ \A r \in hits : Owed(query, r)' =>
                /\ Cardinality(hits) <= Cap
                /\ page * PageSize <= Cardinality(Ahead(r, hits))
                /\ page * PageSize < Cardinality(hits)
         /\ Items(hits, page) # {}
         /\ page * PageSize \in Nat
         /\ Total = Cardinality(hits)
  <1>0. /\ pc = "page" /\ page \in Nat \ {0} /\ Cap \in Nat \ {0} /\ place \in Places
        /\ hits \subseteq Repos /\ IsFiniteSet(hits) /\ Cardinality(hits) \in Nat
    BY StackHead, HitsFinite, PagesReachCap, ShardsAssumption DEF Typed, TypeOK, ReadPage
  <1>1. \A q, r : Owed(q, r)' => Owed(q, r)
    <2>1. found \subseteq found' /\ moved' = moved /\ warned' = warned
      BY DEF ReadPage, githubVars
    <2> QED
      BY <2>1, OwedShrinks
  <1>2. PICK n, m : n = (page - 1) * PageSize /\ m = page * PageSize
    OBVIOUS
  <1>3. n \in Nat /\ m \in Nat /\ n < m
    BY <1>0, <1>2, PageBounds
  <1>4. /\ n < Least(Cardinality(hits), Cap)
        /\ Cardinality(hits) > Cap => [query |-> query, window |-> Head(stack)] \in warned
        /\ \A r \in hits : Owed(query, r) => n <= Cardinality(Ahead(r, hits))
    BY <1>0, <1>2 DEF LeafInv
  <1>5. PICK items : items = Items(hits, page)
    OBVIOUS
  <1>6. items = First(Least(m, Cap), hits) \ First(n, hits)
    BY <1>2, <1>5 DEF Items
  <1>7. items # {}
    <2>1. PICK k : k = Least(Least(m, Cap), Cardinality(hits))
      OBVIOUS
    <2>2. k \in Nat /\ n < k /\ k <= Least(m, Cap) /\ k <= Cardinality(hits) /\ Least(m, Cap) \in Nat
      BY <2>1, <1>0, <1>3, <1>4 DEF Least
    <2>3. Cardinality(First(k, hits)) = k /\ Cardinality(First(n, hits)) = n
      BY <2>2, <1>0, <1>3, FirstCount
    <2>4. First(k, hits) \subseteq First(Least(m, Cap), hits)
      <3>1. \A r : Cardinality(Ahead(r, hits)) \in Nat
        BY <1>0, AheadFinite
      <3> QED
        BY <2>2, <3>1 DEF First
    <2>5. First(Least(m, Cap), hits) = First(n, hits) => FALSE
      <3> SUFFICES ASSUME First(Least(m, Cap), hits) = First(n, hits)
                   PROVE  FALSE
        OBVIOUS
      <3>1. First(k, hits) \subseteq First(n, hits) /\ IsFiniteSet(First(n, hits))
        BY <2>4, <1>0, FirstFinite
      <3>2. Cardinality(First(k, hits)) <= Cardinality(First(n, hits))
        BY <3>1, FS_Subset
      <3> QED
        BY <3>2, <2>2, <2>3, <1>3
    <2>6. First(n, hits) \subseteq First(Least(m, Cap), hits)
      <3>1. \A r : Cardinality(Ahead(r, hits)) \in Nat
        BY <1>0, AheadFinite
      <3>2. n <= Least(m, Cap)
        BY <2>2, <1>3
      <3> QED
        BY <2>2, <3>1, <3>2, <1>3 DEF First
    <2> QED
      BY <1>6, <2>5, <2>6
  <1>8. ASSUME NEW r \in hits, Owed(query, r)'
        PROVE  /\ Cardinality(hits) <= Cap
               /\ m <= Cardinality(Ahead(r, hits))
               /\ m < Cardinality(hits)
    <2>1. Owed(query, r)
      <3>1. query' = query
        BY DEF ReadPage
      <3> QED
        BY <1>1, <1>8, <3>1
    <2>2. In(r, Head(stack)) /\ r \in Queries[query]
      BY DEF Hits
    <2>3. Cardinality(hits) <= Cap
      <3>1. [query |-> query, window |-> Head(stack)] \notin warned
        BY <2>1, <2>2 DEF Owed, LossLogged
      <3> QED
        BY <3>1, <1>0, <1>4
    <2>4. PICK c : c = Cardinality(Ahead(r, hits))
      OBVIOUS
    <2>5. c \in Nat /\ n <= c /\ c < Cardinality(hits)
      <3>1. Ahead(r, hits) \subseteq hits /\ r \notin Ahead(r, hits)
        <4>1. place[r] \in Nat
          BY <1>0, FS_CardinalityType, ShardsAssumption DEF Places
        <4> QED
          BY <4>1 DEF Ahead
      <3>2. c \in Nat /\ c <= Cardinality(hits) /\ c # Cardinality(hits)
        BY <3>1, <2>4, <1>0, FS_Subset, FS_CardinalityType
      <3> QED
        BY <3>2, <2>1, <2>4, <1>0, <1>4
    <2>6. r \notin items
      <3> SUFFICES ASSUME r \in items
                   PROVE  FALSE
        OBVIOUS
      <3>1. PICK new : new = New(items)
        OBVIOUS
      <3>2. r \in new
        BY <3>1, <2>1 DEF New, Owed
      <3>3. r \notin found'
        BY <1>8 DEF Owed
      <3>4. r \notin First(Room, new)
        BY <3>1, <3>3, <1>5 DEF ReadPage
      <3>5. new \subseteq Repos /\ IsFiniteSet(new) /\ Cardinality(new) \in Nat
        BY <3>1, <1>5, NewFinite
      <3>6. ~(Cardinality(new) > Room)
        BY <3>1, <1>5 DEF ReadPage
      <3>7. CASE Room \in Nat
        <4>1. PICK room \in Nat : room = Room
          BY <3>7
        <4>2. First(room, new) = new
          BY <3>5, <3>6, <4>1, <1>0, FirstIsAll
        <4> QED
          BY <3>2, <3>4, <4>1, <4>2
      <3>8. CASE Room \notin Nat
        <4>1. Room \in Int
          BY FS_Subset, FS_CardinalityType, ShardsAssumption DEF Room, Typed, TypeOK
        <4>2. Cardinality(new) > Room
          BY <3>5, <3>8, <4>1
        <4> QED
          BY <3>6, <4>2
      <3> QED
        BY <3>7, <3>8
    <2>7. r \notin First(n, hits)
      BY <2>4, <2>5, <1>3 DEF First
    <2>8. r \notin First(Least(m, Cap), hits)
      BY <2>6, <2>7, <1>6
    <2>9. ~(c < Least(m, Cap))
      BY <2>4, <2>8 DEF First
    <2> QED
      BY <2>3, <2>4, <2>5, <2>9, <1>0, <1>3 DEF Least
  <1> QED
    BY <1>1, <1>2, <1>3, <1>5, <1>7, <1>8 DEF Total

(* SearchInv and LeafInv are kept together. *)
LEMMA NothingForgotten ==
  ASSUME Typed, SearchInv, LeafInv, [Next]_vars
  PROVE  SearchInv' /\ LeafInv'
  <1> USE DEF githubVars
  <1>0. /\ Len(Queries) \in Nat /\ Cap \in Nat \ {0} /\ PageSize \in Nat \ {0}
        /\ query \in 0..Len(Queries)
    BY ShardsAssumption DEF Typed, TypeOK
  <1>1. CASE StartQuery
    <2>1. /\ pc = "idle" /\ stack = <<>> /\ query' = query + 1 /\ stack' = <<Dates(1, LastDay)>>
          /\ pc' = "count" /\ UNCHANGED <<found, moved, warned>>
      BY <1>1 DEF StartQuery, Typed
    <2>2. \A q, r : Owed(q, r)' => Owed(q, r)
      BY <2>1, OwedShrinks
    <2>3. \A r \in Repos : In(r, Dates(1, LastDay))
      BY ShardsAssumption DEF In, Dates
    <2>4. ASSUME NEW q \in 1..query', NEW r \in Repos, Owed(q, r)'
          PROVE  q = query' /\ \E i \in 1..Len(stack') : In(r, stack'[i])
      <3>1. q = query'
        <4>1. Owed(q, r)
          BY <2>2, <2>4
        <4>2. q \notin 1..query
          BY <4>1, <2>1 DEF SearchInv
        <4> QED
          BY <4>2, <2>1, <1>0
      <3>2. 1 \in 1..Len(stack') /\ stack'[1] = Dates(1, LastDay)
        BY <2>1
      <3> QED
        BY <3>1, <3>2, <2>3
    <2>5. SearchInv'
      BY <2>4 DEF SearchInv
    <2> QED
      BY <2>1, <2>5 DEF LeafInv
  <1>2. CASE ReturnFound \/ RequestFails \/ RequestRefused \/ Over \/ UNCHANGED vars
    <2>1. /\ UNCHANGED <<query, stack, page, found, place, moved, warned>>
          /\ pc' = "page" => pc = "page"
      BY <1>2 DEF ReturnFound, RequestFails, RequestRefused, Over, vars
    <2>2. \A q, r : Owed(q, r)' <=> Owed(q, r)
      BY <2>1 DEF Owed, LossLogged
    <2>3. SearchInv'
      BY <2>1, <2>2 DEF SearchInv
    <2>4. \A hits, r : Ahead(r, hits)' = Ahead(r, hits)
      BY <2>1 DEF Ahead
    <2>5. Hits(query, Head(stack))' = Hits(query, Head(stack))
      BY <2>1 DEF Hits
    <2>6. LeafInv'
      <3> SUFFICES ASSUME pc' = "page"
                   PROVE  LeafInv'
        BY DEF LeafInv
      <3>1. PICK hits : hits = Hits(query, Head(stack))
        OBVIOUS
      <3>2. /\ (page - 1) * PageSize < Least(Cardinality(hits), Cap)
            /\ Cardinality(hits) > Cap => [query |-> query, window |-> Head(stack)] \in warned
            /\ \A r \in hits : Owed(query, r) =>
                   (page - 1) * PageSize <= Cardinality(Ahead(r, hits))
        BY <2>1, <3>1 DEF LeafInv
      <3>3. \A r \in hits : Owed(query, r)' => Owed(query, r)
        BY <2>1, <2>2
      <3>4. /\ (page' - 1) * PageSize < Least(Cardinality(hits), Cap)
            /\ Cardinality(hits) > Cap => [query |-> query', window |-> Head(stack')] \in warned'
            /\ \A r \in hits : Owed(query, r)' =>
                   (page' - 1) * PageSize <= Cardinality(Ahead(r, hits)')
        BY <3>2, <3>3, <2>1, <2>4
      <3> QED
        BY <3>1, <3>4, <2>5 DEF LeafInv
    <2> QED
      BY <2>3, <2>6
  <1>3. CASE CountEmpty
    <2>1. /\ pc \in {"count", "page"} /\ query' = query /\ GoOn(Tail(stack)) /\ Total = 0
          /\ UNCHANGED <<found, moved, warned>>
      BY <1>3 DEF CountEmpty
    <2>2. \A q, r : Owed(q, r)' => Owed(q, r)
      BY <2>1, OwedShrinks
    <2>3. Hits(query, Head(stack)) = {}
      <3>1. IsFiniteSet(Hits(query, Head(stack)))
        BY <2>1, StackHead, HitsFinite
      <3> QED
        BY <2>1, <3>1, FS_EmptySet DEF Total
    <2>4. SearchInv'
      BY <2>1, <2>2, <2>3, SearchPops
    <2> QED
      BY <2>1, <2>4 DEF LeafInv, GoOn
  <1>4. CASE CountFits
    <2>1. /\ pc = "count" /\ UNCHANGED <<query, stack, found, place, moved>> /\ page' = 1
          /\ warned \subseteq warned' /\ Total > 0
          /\ Total > Cap => [query |-> query, window |-> Head(stack)] \in warned'
      BY <1>4 DEF CountFits, Warn
    <2>2. \A q, r : Owed(q, r)' => Owed(q, r)
      BY <2>1, OwedShrinks
    <2>3. SearchInv'
      BY <2>1, <2>2 DEF SearchInv
    <2>4. PICK hits : hits = Hits(query, Head(stack))
      OBVIOUS
    <2>5. IsFiniteSet(hits) /\ Cardinality(hits) \in Nat /\ Total = Cardinality(hits)
      BY <2>1, <2>4, StackHead, HitsFinite DEF Total
    <2>6. (page' - 1) * PageSize = 0
      BY <2>1, <1>0
    <2>7. 0 < Least(Cardinality(hits), Cap)
      BY <2>1, <2>5, <1>0 DEF Least
    <2>8. \A r \in hits : 0 <= Cardinality(Ahead(r, hits)')
      <3>1. \A r \in hits : Ahead(r, hits)' \subseteq hits
        BY DEF Ahead
      <3>2. \A b \in SUBSET hits : Cardinality(b) \in Nat
        BY <2>5, FS_Subset, FS_CardinalityType
      <3>3. \A r \in hits : Cardinality(Ahead(r, hits)') \in Nat
        BY <3>1, <3>2
      <3> QED
        BY <3>3
    <2>9. Hits(query, Head(stack))' = hits
      BY <2>1, <2>4 DEF Hits
    <2>10. LeafInv'
      BY <2>1, <2>5, <2>6, <2>7, <2>8, <2>9 DEF LeafInv
    <2> QED
      BY <2>3, <2>10
  <1>5. CASE CountSplits
    <2>1. /\ pc \in {"count", "page"} /\ query' = query /\ UNCHANGED <<found, moved, warned>>
      BY <1>5 DEF CountSplits
    <2>2. PICK ws \in Seq(Window) :
            /\ GoOn(ws \o Tail(stack))
            /\ \A r \in Repos : In(r, Head(stack)) => \E j \in 1..Len(ws) : In(r, ws[j])
      BY <1>5, SplitTyped
    <2>3. \A q, r : Owed(q, r)' => Owed(q, r)
      BY <2>1, OwedShrinks
    <2>4. \A r \in Hits(query, Head(stack)) : \E j \in 1..Len(ws) : In(r, ws[j])
      <3>1. \A r \in Hits(query, Head(stack)) : r \in Repos /\ In(r, Head(stack))
        BY <2>1, StackHead, HitsFinite DEF Hits
      <3> QED
        BY <2>2, <3>1
    <2>5. SearchInv'
      BY <2>1, <2>2, <2>3, <2>4, SearchGoesOn
    <2>6. pc' # "page"
      BY <2>2 DEF GoOn
    <2> QED
      BY <2>5, <2>6 DEF LeafInv
  <1>6. CASE ReadPage /\ pc' = "returned"
    <2>1. UNCHANGED <<query, stack, moved, warned>> /\ found \subseteq found'
      BY <1>6 DEF ReadPage, GoOn
    <2>2. \A q, r : Owed(q, r)' => Owed(q, r)
      BY <2>1, OwedShrinks
    <2> QED
      BY <1>6, <2>1, <2>2 DEF SearchInv, LeafInv
  <1>7. CASE ReadPage /\ pc' # "returned"
    <2>1. PICK hits : hits = Hits(query, Head(stack))
      OBVIOUS
    <2>2. /\ pc = "page" /\ page \in Nat \ {0} /\ Cardinality(hits) \in Nat
          /\ UNCHANGED <<query, place, moved, warned>>
      BY <1>7, <2>1, StackHead, HitsFinite, PagesReachCap DEF Typed, TypeOK, ReadPage
    <2>3. PICK m : m = page * PageSize
      OBVIOUS
    <2>4. /\ \A q, r : Owed(q, r)' => Owed(q, r)
          /\ \A r \in hits : Owed(query, r)' =>
                 /\ Cardinality(hits) <= Cap
                 /\ m <= Cardinality(Ahead(r, hits))
                 /\ m < Cardinality(hits)
          /\ Items(hits, page) # {}
          /\ m \in Nat
          /\ Total = Cardinality(hits)
      BY <1>7, <2>1, <2>3, PageSettles
    <2>5. CASE GoOn(Tail(stack)) /\ LastPage(page, Total)
      <3>1. m >= Least(Cardinality(hits), Cap)
        <4>1. CASE page = MaxPages
          BY <4>1, <2>2, <2>3, <2>4, <1>0, PagesReachCap DEF Least
        <4>2. CASE page # MaxPages
          BY <4>2, <2>3, <2>4, <2>5 DEF LastPage
        <4> QED
          BY <4>1, <4>2
      <3>2. ASSUME NEW r \in Hits(query, Head(stack)), Owed(query, r)'
            PROVE  FALSE
        <4>1. Cardinality(hits) <= Cap /\ m < Cardinality(hits)
          BY <2>1, <2>4, <3>2
        <4> QED
          BY <4>1, <3>1, <2>2, <2>4, <1>0 DEF Least
      <3>3. SearchInv'
        BY <2>2, <2>4, <2>5, <3>2, SearchPops
      <3> QED
        BY <2>5, <3>3 DEF LeafInv, GoOn
    <2>6. CASE page' = page + 1 /\ UNCHANGED <<pc, stack>> /\ ~LastPage(page, Total)
      <3>1. SearchInv'
        BY <2>2, <2>4, <2>6 DEF SearchInv
      <3>2. (page' - 1) * PageSize = m
        BY <2>2, <2>3, <2>6
      <3>3. m < Least(Cardinality(hits), Cap)
        BY <2>2, <2>3, <2>4, <2>6, <1>0 DEF LastPage, Least
      <3>4. Cardinality(hits) > Cap => [query |-> query, window |-> Head(stack)] \in warned
        BY <2>1, <2>2 DEF LeafInv
      <3>5. Hits(query, Head(stack))' = hits
        BY <2>1, <2>2, <2>6 DEF Hits
      <3>6. \A r \in hits : Ahead(r, hits)' = Ahead(r, hits)
        BY <2>2 DEF Ahead
      <3>7. \A r \in hits : Owed(query, r)' => m <= Cardinality(Ahead(r, hits)')
        BY <2>4, <3>6
      <3>8. LeafInv'
        BY <2>2, <2>6, <3>2, <3>3, <3>4, <3>5, <3>7 DEF LeafInv
      <3> QED
        BY <3>1, <3>8
    <2> QED
      BY <1>7, <2>1, <2>4, <2>5, <2>6 DEF ReadPage
  <1>8. CASE RequestGivenUp
    <2>1. /\ pc \in {"count", "page"} /\ query' = query /\ GoOn(Tail(stack))
          /\ UNCHANGED <<found, moved>>
          /\ warned' = warned \cup {[query |-> query, window |-> Head(stack)]}
      BY <1>8 DEF RequestGivenUp, Warn
    <2>2. \A q, r : Owed(q, r)' => Owed(q, r)
      BY <2>1, OwedShrinks
    <2>3. \A r \in Hits(query, Head(stack)) : ~Owed(query, r)'
      <3>1. PICK l : l = [query |-> query, window |-> Head(stack)]
        OBVIOUS
      <3>2. l \in warned' /\ l.query = query /\ l.window = Head(stack)
        BY <2>1, <3>1
      <3> QED
        BY <3>2 DEF Hits, Owed, LossLogged
    <2>4. SearchInv'
      BY <2>1, <2>2, <2>3, SearchPops
    <2> QED
      BY <2>1, <2>4 DEF LeafInv, GoOn
  <1>9. ASSUME NEW x \in Repos, Update(x)
        PROVE  SearchInv' /\ LeafInv'
    <2>1. UNCHANGED <<query, stack, found, warned>> /\ moved \subseteq moved'
      BY <1>9 DEF Update
    <2>2. \A q, r : Owed(q, r)' => Owed(q, r)
      BY <2>1, OwedShrinks
    <2>3. SearchInv'
      BY <2>1, <2>2 DEF SearchInv
    <2> QED
      BY <2>3, <1>9, LeafKeptByUpdate
  <1> QED
    BY <1>1, <1>2, <1>3, <1>4, <1>5, <1>6, <1>7, <1>8, <1>9 DEF Next, Discoverer

LEMMA AllSettled ==
  ASSUME Typed, SearchInv
  PROVE  StillReposFound
  <1> SUFFICES ASSUME RanThrough, NEW r \in Wanted \ (found \cup moved), ~LossLogged(r)
               PROVE  FALSE
    BY DEF StillReposFound
  <1>1. query = Len(Queries) /\ stack = <<>>
    BY DEF RanThrough, Typed
  <1>2. PICK q \in 1..Len(Queries) : r \in Queries[q]
    BY DEF Wanted, ToSet
  <1>3. r \notin Excluded /\ r \in Repos
    <2>1. Queries[q] \subseteq Repos
      BY ShardsAssumption
    <2>2. r \notin Excluded
      BY DEF Wanted
    <2> QED
      BY <1>2, <2>1, <2>2
  <1>4. Owed(q, r)
    BY <1>2, <1>3 DEF Owed
  <1>5. \E i \in 1..Len(stack) : In(r, stack[i])
    BY <1>1, <1>2, <1>3, <1>4 DEF SearchInv
  <1> QED
    BY <1>1, <1>5

(* Bisection, paging and retries lose nothing silently: whatever the queries, the
   cap and the pages, however often requests fail and whatever is pushed to
   meanwhile, discover_all, unless max_repos cut it short, has found every repo
   its queries match that nobody pushed to, or has logged a warning about the
   very search that would have found it. *)
THEOREM NothingLostSilently == Spec => []StillReposFound
  <1>1. Init => SearchInv /\ LeafInv
    BY DEF Init, SearchInv, LeafInv
  <1>2. Typed /\ SearchInv /\ LeafInv /\ [Next]_vars => SearchInv' /\ LeafInv'
    BY NothingForgotten
  <1>3. Init => Typed
    BY InitTyped
  <1>4. Typed /\ [Next]_vars => Typed'
    BY NextTyped
  <1>5. Typed /\ SearchInv => StillReposFound
    BY AllSettled
  <1> QED
    BY <1>1, <1>2, <1>3, <1>4, <1>5, PTL DEF Spec
=============================================================================
