----------------------------- MODULE IngestProofs -----------------------------
(***************************************************************************)
(* Theorems about Ingest for any finds, any number of runs, and any crashes *)
(* and failures during them.                                               *)
(***************************************************************************)
EXTENDS Ingest, SequenceTheorems, FiniteSetTheorems, TLAPS

-----------------------------------------------------------------------------
(* Finite sets in order *)

Orders(R, S) ==
    /\ \A x \in S : <<x, x>> \notin R
    /\ \A x, y, z \in S : <<x, y>> \in R /\ <<y, z>> \in R => <<x, z>> \in R
    /\ \A x, y \in S : x = y \/ <<x, y>> \in R \/ <<y, x>> \in R

Below(R, S, x) == {y \in S : <<y, x>> \in R}

LEMMA BelowFacts ==
  ASSUME NEW S, IsFiniteSet(S), NEW R, Orders(R, S)
  PROVE  /\ \A x \in S : Cardinality(Below(R, S, x)) \in 0..(Cardinality(S) - 1)
         /\ \A x, y \in S : Cardinality(Below(R, S, x)) = Cardinality(Below(R, S, y)) => x = y
  <1>1. ASSUME NEW x \in S
        PROVE  Cardinality(Below(R, S, x)) \in 0..(Cardinality(S) - 1)
    <2>1. Below(R, S, x) \in SUBSET (S \ {x})
      BY DEF Below, Orders
    <2>2. IsFiniteSet(S \ {x}) /\ Cardinality(S \ {x}) = Cardinality(S) - 1
      BY FS_RemoveElement
    <2>3. /\ Cardinality(Below(R, S, x)) <= Cardinality(S) - 1
          /\ IsFiniteSet(Below(R, S, x))
      BY <2>1, <2>2, FS_Subset
    <2>4. Cardinality(Below(R, S, x)) \in Nat /\ Cardinality(S) \in Nat
      BY <2>3, FS_CardinalityType
    <2> QED
      BY <2>3, <2>4
  <1>2. ASSUME NEW x \in S, NEW y \in S, <<x, y>> \in R
        PROVE  Cardinality(Below(R, S, x)) # Cardinality(Below(R, S, y))
    <2>1. /\ Below(R, S, x) \in SUBSET Below(R, S, y) /\ x \in Below(R, S, y)
          /\ x \notin Below(R, S, x)
      BY <1>2 DEF Below, Orders
    <2>2. Below(R, S, y) \in SUBSET S
      BY DEF Below
    <2>3. IsFiniteSet(Below(R, S, y))
      BY <2>2, FS_Subset
    <2> QED
      BY <2>1, <2>3, FS_Subset
  <1> QED
    BY <1>1, <1>2 DEF Orders

(* InOrder lists every member once, the first of them first. *)
LEMMA InOrderFacts ==
  ASSUME NEW S, IsFiniteSet(S), NEW R, Orders(R, S)
  PROVE  /\ Cardinality(S) \in Nat
         /\ InOrder(S, R) \in [1..Cardinality(S) -> S]
         /\ \A x \in S : \E n \in 1..Cardinality(S) : InOrder(S, R)[n] = x
         /\ \A m, n \in 1..Cardinality(S) : InOrder(S, R)[m] = InOrder(S, R)[n] => m = n
         /\ S # {} =>
              /\ 1 \in 1..Cardinality(S)
              /\ InOrder(S, R)[1] \in S
              /\ \A y \in S : <<y, InOrder(S, R)[1]>> \notin R
  <1>1. PICK c : c = Cardinality(S)
    OBVIOUS
  <1>2. c \in Nat
    BY <1>1, FS_CardinalityType
  <1>3. PICK f : f = [x \in S |-> Cardinality(Below(R, S, x)) + 1]
    OBVIOUS
  <1>4. /\ \A x \in S : f[x] = Cardinality(Below(R, S, x)) + 1
        /\ \A x \in S : Cardinality(Below(R, S, x)) \in 0..(c - 1)
        /\ \A x, y \in S : Cardinality(Below(R, S, x)) = Cardinality(Below(R, S, y)) => x = y
    BY <1>1, <1>3, BelowFacts
  <1>5. f \in [S -> 1..c] /\ \A x, y \in S : f[x] = f[y] => x = y
    <2>1. \A x \in S : f[x] \in 1..c
      BY <1>2, <1>4
    <2>2. \A x, y \in S : f[x] = f[y] => x = y
      BY <1>2, <1>4
    <2> QED
      BY <2>1, <2>2, <1>3
  <1>6. \A n \in 1..c : \E x \in S : f[x] = n
    <2>1. f \in Injection(S, 1..c)
      BY <1>5 DEF Injection, IsInjective
    <2>2. IsFiniteSet(1..c) /\ Cardinality(1..c) = c
      <3>1. 1 \in Int /\ c \in Int
        BY <1>2
      <3>2. IsFiniteSet(1..c) /\ Cardinality(1..c) = IF 1 > c THEN 0 ELSE c - 1 + 1
        BY <3>1, FS_Interval
      <3> QED
        BY <3>2, <1>2
    <2>3. f \in Surjection(S, 1..c)
      BY <2>1, <2>2, <1>1, FS_Injection
    <2> QED
      BY <2>3 DEF Surjection
  <1>7. PICK g : g = InOrder(S, R)
    OBVIOUS
  <1>8. /\ g \in [1..c -> S]
        /\ \A n \in 1..c : g[n] \in S /\ f[g[n]] = n
    <2>1. g = [n \in 1..c |-> CHOOSE x \in S : Cardinality(Below(R, S, x)) = n - 1]
      BY <1>1, <1>7 DEF InOrder, Below
    <2>2. ASSUME NEW n \in 1..c
          PROVE  g[n] \in S /\ f[g[n]] = n
      <3>0. PICK x \in S : f[x] = n
        BY <1>6
      <3>1. Cardinality(Below(R, S, x)) = n - 1
        BY <3>0, <1>2, <1>4
      <3>2. g[n] \in S /\ Cardinality(Below(R, S, g[n])) = n - 1
        BY <2>1, <3>1
      <3> QED
        BY <3>2, <1>2, <1>4
    <2>3. \A n \in 1..c : (CHOOSE x \in S : Cardinality(Below(R, S, x)) = n - 1) \in S
      BY <2>1, <2>2
    <2>4. g \in [1..c -> S]
      BY <2>1, <2>3
    <2> QED
      BY <2>2, <2>4
  <1>9. \A x \in S : \E n \in 1..c : g[n] = x
    BY <1>5, <1>8
  <1>10. \A m, n \in 1..c : g[m] = g[n] => m = n
    BY <1>8
  <1>11. ASSUME S # {}
         PROVE  1 \in 1..c /\ g[1] \in S /\ \A y \in S : <<y, g[1]>> \notin R
    <2>1. 1 \in 1..c
      BY <1>11, <1>2, <1>4
    <2>2. g[1] \in S /\ f[g[1]] = 1
      BY <2>1, <1>8
    <2>3. Cardinality(Below(R, S, g[1])) = 0 /\ IsFiniteSet(Below(R, S, g[1]))
      <3>1. Below(R, S, g[1]) \in SUBSET S
        BY DEF Below
      <3> QED
        BY <3>1, <2>2, <1>4, FS_Subset
    <2>4. Below(R, S, g[1]) = {}
      BY <2>3, FS_EmptySet
    <2> QED
      BY <2>1, <2>2, <2>4 DEF Below
  <1> QED
    BY <1>1, <1>2, <1>7, <1>8, <1>9, <1>10, <1>11

-----------------------------------------------------------------------------
(* Records *)

Copies == {"writeups"} \X ToSet(HardCopyStem) \X (LinkExts \cup {"md"})
Manifest(tree) == {<<f, tree[f]>> : f \in DOMAIN tree}

Links == UNION {ToSet(c.writeups) : c \in Challenges}
Writeup == [url    : {w.url : w \in Links},
            inline : {w.inline : w \in Links},
            copy   : Copies \cup {NoFile}]
Entries == (UNION {Manifest(c.tree) : c \in Challenges}) \cup (Copies \X {w.url : w \in Links})
Record == [id       : {IdOf(c) : c \in Challenges},
           at       : Places,
           rank     : Nat,
           tree     : {c.tree : c \in Challenges},
           files    : SUBSET Entries,
           sources  : SUBSET {c.name : c \in Challenges},
           writeups : Seq(Writeup)]

(* Nothing is kept of its writeups yet. *)
Fresh(r) ==
    /\ r.files = Manifest(r.tree)
    /\ \A n \in 1..Len(r.writeups) : r.writeups[n].copy = NoFile

LEMMA NormalizedFacts ==
  ASSUME NEW c \in Challenges
  PROVE  /\ Normalized(c) \in Record
         /\ Fresh(Normalized(c))
         /\ Normalized(c).sources = {c.name}
         /\ Urls(Normalized(c).writeups) = Urls(c.writeups)
         /\ Len(Normalized(c).writeups) = Len(c.writeups)
  <1>1. c.rank \in Nat /\ c.writeups \in Seq(ToSet(c.writeups))
    BY IngestAssumption
  <1>2. PICK ws : ws = c.writeups
    OBVIOUS
  <1>3. PICK n \in Nat : n = Len(ws) /\ DOMAIN ws = 1..n
    BY <1>1, <1>2
  <1>4. PICK vs : vs = [i \in 1..n |-> [url |-> ws[i].url, inline |-> ws[i].inline, copy |-> NoFile]]
    OBVIOUS
  <1>5. vs \in Seq(Writeup)
    <2>1. \A i \in 1..n : ws[i] \in Links
      BY <1>2, <1>3 DEF Links, ToSet
    <2>2. \A i \in 1..n : vs[i] \in Writeup
      BY <1>4, <2>1 DEF Writeup
    <2> QED
      BY <1>3, <1>4, <2>2
  <1>6. /\ DOMAIN vs = 1..n /\ Len(vs) = n
        /\ \A i \in 1..n : vs[i].copy = NoFile /\ vs[i].url = ws[i].url
    BY <1>3, <1>4, <1>5
  <1>7. PICK r : r = Normalized(c)
    OBVIOUS
  <1>8. r = [id |-> IdOf(c), at |-> PlaceOf(c), rank |-> c.rank, tree |-> c.tree,
             files |-> Manifest(c.tree), sources |-> {c.name}, writeups |-> vs]
    BY <1>2, <1>3, <1>4, <1>7 DEF Normalized, Manifest
  <1>9. r \in Record
    <2>1. PlaceOf(c) \in Places
      BY DEF Places
    <2>2. Manifest(c.tree) \in SUBSET Entries
      BY DEF Entries
    <2> QED
      BY <1>1, <1>5, <1>8, <2>1, <2>2 DEF Record
  <1>10. Urls(vs) = Urls(ws)
    BY <1>3, <1>6 DEF Urls, ToSet
  <1> QED
    BY <1>2, <1>3, <1>6, <1>7, <1>8, <1>9, <1>10 DEF Fresh

(* The places in one sequence of several. *)
LEMMA RowFacts ==
  ASSUME NEW i, NEW k \in Nat
  PROVE  IsFiniteSet({i} \X (1..k)) /\ Cardinality({i} \X (1..k)) = k
  <1>1. PICK a : a = {i}
    OBVIOUS
  <1>2. IsFiniteSet(a) /\ Cardinality(a) = 1
    BY <1>1, FS_Singleton
  <1>3. PICK b : b = 1..k
    OBVIOUS
  <1>4. IsFiniteSet(b) /\ Cardinality(b) = k
    <2>1. 1 \in Int /\ k \in Int
      OBVIOUS
    <2>2. IsFiniteSet(1..k) /\ Cardinality(1..k) = IF 1 > k THEN 0 ELSE k - 1 + 1
      BY <2>1, FS_Interval
    <2> QED
      BY <2>2, <1>3
  <1>5. IsFiniteSet(a \X b) /\ Cardinality(a \X b) = Cardinality(a) * Cardinality(b)
    BY <1>2, <1>4, FS_Product
  <1>6. Cardinality(a) * Cardinality(b) = k
    BY <1>2, <1>4
  <1> QED
    BY <1>1, <1>3, <1>5, <1>6

LEMMA OfferedFinite ==
  ASSUME NEW n \in Nat, NEW s, DOMAIN s = 1..n,
         \A i \in 1..n : \E k \in Nat : DOMAIN s[i] = 1..k
  PROVE  IsFiniteSet(Offered(s))
  <1>1. PICK f : f = [i \in 1..n |-> {i} \X (DOMAIN s[i])]
    OBVIOUS
  <1>2. PICK T : T = {{i} \X (DOMAIN s[i]) : i \in 1..n}
    OBVIOUS
  <1>3. f \in Surjection(1..n, T)
    BY <1>1, <1>2 DEF Surjection
  <1>4. IsFiniteSet(1..n)
    <2>1. 1 \in Int /\ n \in Int
      OBVIOUS
    <2> QED
      BY <2>1, FS_Interval
  <1>5. IsFiniteSet(T)
    BY <1>3, <1>4, FS_Surjection
  <1>6. \A t \in T : IsFiniteSet(t)
    <2> SUFFICES ASSUME NEW i \in 1..n
                 PROVE  IsFiniteSet({i} \X (DOMAIN s[i]))
      BY <1>2
    <2>1. PICK k \in Nat : DOMAIN s[i] = 1..k
      OBVIOUS
    <2>2. IsFiniteSet(1..k)
      <3>1. 1 \in Int /\ k \in Int
        BY <2>1
      <3> QED
        BY <3>1, FS_Interval
    <2>3. IsFiniteSet({i})
      BY FS_Singleton
    <2> QED
      BY <2>1, <2>2, <2>3, FS_Product
  <1> QED
    BY <1>2, <1>5, <1>6, FS_UNION DEF Offered

LEMMA CanonicalFacts ==
  ASSUME NEW records \in Seq(Record), NEW members \in SUBSET (DOMAIN records), members # {}
  PROVE  Canonical(records, members) \in members
  <1>1. PICK n \in Nat : DOMAIN records = 1..n
    OBVIOUS
  <1>2. IsFiniteSet(members)
    <2>1. 1 \in Int /\ n \in Int
      BY <1>1
    <2>2. IsFiniteSet(1..n)
      BY <2>1, FS_Interval
    <2> QED
      BY <1>1, <2>2, FS_Subset
  <1>3. \A i \in members : records[i].rank \in Nat /\ i \in Nat
    <2> SUFFICES ASSUME NEW i \in members
                 PROVE  records[i].rank \in Nat /\ i \in Nat
      OBVIOUS
    <2>1. records[i] \in Record /\ i \in Nat
      BY <1>1
    <2> QED
      BY <2>1 DEF Record
  <1>4. PICK rank : rank = [i \in members |-> records[i].rank]
    OBVIOUS
  <1>5. \A i, j \in members :
          <<i, j>> \in Authority(records) <=> rank[i] > rank[j] \/ (rank[i] = rank[j] /\ i < j)
    BY <1>4 DEF Authority
  <1>6. \A i \in members : rank[i] \in Nat /\ i \in Nat
    BY <1>3, <1>4
  <1>7. Orders(Authority(records), members)
    <2>1. PICK R : R = Authority(records)
      OBVIOUS
    <2>2. \A i, j \in members : <<i, j>> \in R <=> rank[i] > rank[j] \/ (rank[i] = rank[j] /\ i < j)
      BY <2>1, <1>5
    <2>3. \A i \in members : <<i, i>> \notin R
      BY <2>2, <1>6
    <2>4. ASSUME NEW i \in members, NEW j \in members
          PROVE  i = j \/ <<i, j>> \in R \/ <<j, i>> \in R
      <3>1. rank[i] \in Nat /\ rank[j] \in Nat /\ i \in Nat /\ j \in Nat
        BY <1>6
      <3>2. /\ <<i, j>> \in R <=> rank[i] > rank[j] \/ (rank[i] = rank[j] /\ i < j)
            /\ <<j, i>> \in R <=> rank[j] > rank[i] \/ (rank[j] = rank[i] /\ j < i)
        BY <2>2
      <3> QED
        BY <3>1, <3>2
    <2>5. ASSUME NEW i \in members, NEW j \in members, NEW k \in members,
                 <<i, j>> \in R, <<j, k>> \in R
          PROVE  <<i, k>> \in R
      <3>1. /\ rank[i] > rank[j] \/ (rank[i] = rank[j] /\ i < j)
            /\ rank[j] > rank[k] \/ (rank[j] = rank[k] /\ j < k)
        BY <2>2, <2>5
      <3>2. rank[i] > rank[k] \/ (rank[i] = rank[k] /\ i < k)
        BY <3>1, <1>6
      <3> QED
        BY <3>2, <2>2
    <2> QED
      BY <2>1, <2>3, <2>4, <2>5 DEF Orders
  <1> QED
    BY <1>2, <1>7, InOrderFacts DEF Canonical
LEMMA ReadingOrders ==
  ASSUME NEW positions \in SUBSET (Nat \X Nat), NEW S \in SUBSET positions
  PROVE  Orders(Reading(positions), S)
  <1>1. \A p, q \in S :
          <<p, q>> \in Reading(positions) <=> p[1] < q[1] \/ (p[1] = q[1] /\ p[2] < q[2])
    BY DEF Reading
  <1>2. \A p \in S : p[1] \in Nat /\ p[2] \in Nat /\ p = <<p[1], p[2]>>
    OBVIOUS
  <1> QED
    BY <1>1, <1>2 DEF Orders

(* The writeups of the other members, as far as the canonical one lacks them. *)
LEMMA LackingFacts ==
  ASSUME NEW records \in Seq(Record), NEW members \in SUBSET (DOMAIN records), members # {}
  PROVE  /\ IsFiniteSet(Lacking(records, members))
         /\ Orders(Reading(Lacking(records, members)), Lacking(records, members))
         /\ \A p \in Lacking(records, members) :
              /\ p[1] \in members \ {Canonical(records, members)}
              /\ p[1] \in DOMAIN records /\ p[2] \in DOMAIN records[p[1]].writeups
              /\ p = <<p[1], p[2]>>
         /\ \A i \in members \ {Canonical(records, members)} : \A k \in DOMAIN records[i].writeups :
              \/ records[i].writeups[k].url \in Urls(records[Canonical(records, members)].writeups)
              \/ \E p \in Lacking(records, members) : At(records, p).url = records[i].writeups[k].url
  <1>1. PICK n \in Nat : DOMAIN records = 1..n
    OBVIOUS
  <1>2. PICK c : c = Canonical(records, members)
    OBVIOUS
  <1>3. PICK s : s = [i \in DOMAIN records |-> records[i].writeups]
    OBVIOUS
  <1>4. PICK os : os = Others(records, members)
    OBVIOUS
  <1>5. PICK lack : lack = Lacking(records, members)
    OBVIOUS
  <1>6. \A i \in 1..n : s[i] = records[i].writeups /\ s[i] \in Seq(Writeup)
    <2> SUFFICES ASSUME NEW i \in 1..n
                 PROVE  s[i] = records[i].writeups /\ s[i] \in Seq(Writeup)
      OBVIOUS
    <2>1. records[i] \in Record /\ s[i] = records[i].writeups
      BY <1>1, <1>3
    <2> QED
      BY <2>1 DEF Record
  <1>7. \A i \in 1..n : \E k \in Nat : DOMAIN s[i] = 1..k
    BY <1>6
  <1>8. DOMAIN s = 1..n /\ IsFiniteSet(Offered(s))
    BY <1>1, <1>3, <1>7, OfferedFinite
  <1>9. /\ os \in SUBSET Offered(s)
        /\ \A p : p \in os <=> p \in Offered(s) /\ p[1] \in members \ {c}
    BY <1>2, <1>3, <1>4 DEF Others
  <1>10. /\ \A p \in Offered(s) : p[1] \in 1..n /\ p[2] \in DOMAIN s[p[1]] /\ p = <<p[1], p[2]>>
         /\ \A i \in 1..n : \A k \in DOMAIN s[i] : <<i, k>> \in Offered(s)
    BY <1>8 DEF Offered
  <1>11. Offered(s) \in SUBSET (Nat \X Nat)
    <2> SUFFICES ASSUME NEW p \in Offered(s)
                 PROVE  p \in Nat \X Nat
      OBVIOUS
    <2>1. p[1] \in 1..n /\ p[2] \in DOMAIN s[p[1]] /\ p = <<p[1], p[2]>>
      BY <1>10
    <2>2. PICK k \in Nat : DOMAIN s[p[1]] = 1..k
      BY <2>1, <1>7
    <2>3. p[1] \in Nat /\ p[2] \in Nat
      BY <2>1, <2>2
    <2> QED
      BY <2>1, <2>3
  <1>12. /\ lack \in SUBSET os
         /\ \A p \in os :
              \/ p \in lack
              \/ At(records, p).url \in Urls(records[c].writeups)
              \/ \E q \in os : <<q, p>> \in Reading(os) /\ At(records, q).url = At(records, p).url
    BY <1>2, <1>4, <1>5 DEF Lacking
  <1>13. os \in SUBSET (Nat \X Nat) /\ lack \in SUBSET (Nat \X Nat)
    BY <1>9, <1>11, <1>12
  <1>14. IsFiniteSet(lack) /\ IsFiniteSet(os)
    <2>1. lack \in SUBSET Offered(s)
      BY <1>9, <1>12
    <2> QED
      BY <2>1, <1>8, <1>9, FS_Subset
  <1>15. Orders(Reading(lack), lack)
    <2>1. lack \in SUBSET lack
      OBVIOUS
    <2> QED
      BY <2>1, <1>13, ReadingOrders
  <1>16. ASSUME NEW p \in lack
         PROVE  /\ p[1] \in members \ {c} /\ p[1] \in DOMAIN records
                /\ p[2] \in DOMAIN records[p[1]].writeups /\ p = <<p[1], p[2]>>
    <2>1. p \in os /\ p \in Offered(s)
      BY <1>9, <1>12
    <2> QED
      BY <2>1, <1>1, <1>3, <1>9, <1>10
  <1>17. ASSUME NEW i \in members \ {c}, NEW k \in DOMAIN records[i].writeups
         PROVE  \/ records[i].writeups[k].url \in Urls(records[c].writeups)
                \/ \E p \in lack : At(records, p).url = records[i].writeups[k].url
    <2>1. PICK u : u = records[i].writeups[k].url
      OBVIOUS
    <2>2. PICK p : p = <<i, k>>
      OBVIOUS
    <2>3. p[1] = i /\ p[2] = k /\ At(records, p).url = u
      BY <2>1, <2>2 DEF At
    <2>4. p \in os
      BY <2>2, <2>3, <1>1, <1>3, <1>9, <1>10
    <2>5. PICK same : same = {q \in os : At(records, q).url = u}
      OBVIOUS
    <2>6. same \in SUBSET os /\ p \in same
      BY <2>3, <2>4, <2>5
    <2>7. IsFiniteSet(same) /\ Orders(Reading(os), same)
      BY <2>6, <1>13, <1>14, FS_Subset, ReadingOrders
    <2>8. PICK q \in same : \A y \in same : <<y, q>> \notin Reading(os)
      BY <2>6, <2>7, InOrderFacts
    <2>9. q \in os /\ At(records, q).url = u
      BY <2>5
    <2>10. ~ \E y \in os : <<y, q>> \in Reading(os) /\ At(records, y).url = At(records, q).url
      BY <2>5, <2>8, <2>9
    <2> QED
      BY <2>1, <2>9, <2>10, <1>12
  <1> QED
    BY <1>2, <1>5, <1>14, <1>15, <1>16, <1>17
Positions(records) == Offered([i \in DOMAIN records |-> records[i].writeups])

(* The merged record is the canonical one, with all sources and all writeups. *)
LEMMA MergedFacts ==
  ASSUME NEW records \in Seq(Record), NEW members \in SUBSET (DOMAIN records), members # {},
         \A i \in DOMAIN records : Fresh(records[i])
  PROVE  /\ Merged(records, members) \in Record
         /\ Fresh(Merged(records, members))
         /\ Merged(records, members).sources = UNION {records[i].sources : i \in members}
         /\ \E i \in members : Merged(records, members).files = records[i].files
         /\ \A i \in members :
              Urls(records[i].writeups) \subseteq Urls(Merged(records, members).writeups)
         /\ Len(Merged(records, members).writeups) <= Cardinality(Positions(records))
  <1>1. PICK c : c = Canonical(records, members)
    OBVIOUS
  <1>2. c \in members /\ c \in DOMAIN records
    BY <1>1, CanonicalFacts
  <1>3. PICK base : base = records[c]
    OBVIOUS
  <1>4. base \in Record /\ Fresh(base)
    BY <1>2, <1>3
  <1>5. base.writeups \in Seq(Writeup)
    BY <1>4 DEF Record
  <1>6. PICK lack : lack = Lacking(records, members)
    OBVIOUS
  <1>7. /\ IsFiniteSet(lack) /\ Orders(Reading(lack), lack)
        /\ \A p \in lack : /\ p[1] \in members \ {c} /\ p[1] \in DOMAIN records
                           /\ p[2] \in DOMAIN records[p[1]].writeups /\ p = <<p[1], p[2]>>
        /\ \A i \in members \ {c} : \A k \in DOMAIN records[i].writeups :
              \/ records[i].writeups[k].url \in Urls(base.writeups)
              \/ \E p \in lack : At(records, p).url = records[i].writeups[k].url
    BY <1>1, <1>3, <1>6, LackingFacts
  <1>8. PICK order : order = InOrder(lack, Reading(lack))
    OBVIOUS
  <1>9. PICK m : m = Cardinality(lack)
    OBVIOUS
  <1>10. /\ m \in Nat /\ order \in [1..m -> lack]
         /\ \A p \in lack : \E k \in 1..m : order[k] = p
    BY <1>7, <1>8, <1>9, InOrderFacts
  <1>11. PICK more : more = [k \in 1..m |-> At(records, order[k])]
    OBVIOUS
  <1>12. \A p \in lack : At(records, p) \in Writeup /\ At(records, p).copy = NoFile
    <2> SUFFICES ASSUME NEW p \in lack
                 PROVE  At(records, p) \in Writeup /\ At(records, p).copy = NoFile
      OBVIOUS
    <2>1. PICK r, k : r = records[p[1]] /\ k = p[2]
      OBVIOUS
    <2>2. r \in Record /\ Fresh(r) /\ k \in DOMAIN r.writeups /\ At(records, p) = r.writeups[k]
      BY <2>1, <1>7 DEF At
    <2>3. r.writeups \in Seq(Writeup)
      BY <2>2 DEF Record
    <2>4. r.writeups[k] \in Writeup /\ k \in 1..Len(r.writeups)
      BY <2>2, <2>3
    <2> QED
      BY <2>2, <2>4 DEF Fresh
  <1>13. more \in Seq(Writeup) /\ Len(more) = m /\ \A k \in 1..m : more[k] = At(records, order[k])
    <2>1. \A k \in 1..m : At(records, order[k]) \in Writeup
      BY <1>10, <1>12
    <2> QED
      BY <2>1, <1>10, <1>11
  <1>14. PICK ws : ws = base.writeups \o more
    OBVIOUS
  <1>15. PICK n \in Nat : n = Len(base.writeups)
    BY <1>5
  <1>16. /\ ws \in Seq(Writeup) /\ Len(ws) = n + m
         /\ \A k \in 1..(n + m) : ws[k] = IF k <= n THEN base.writeups[k] ELSE more[k - n]
    <2>1. PICK b : b = base.writeups
      OBVIOUS
    <2>2. b \in Seq(Writeup) /\ more \in Seq(Writeup) /\ Len(b) = n /\ Len(more) = m /\ ws = b \o more
      BY <2>1, <1>5, <1>13, <1>14, <1>15
    <2>3. /\ ws \in Seq(Writeup) /\ Len(ws) = Len(b) + Len(more)
          /\ \A k \in 1..(Len(b) + Len(more)) :
               ws[k] = IF k <= Len(b) THEN b[k] ELSE more[k - Len(b)]
      BY <2>2, ConcatProperties
    <2> QED
      BY <2>1, <2>2, <2>3
  <1>17. PICK srcs : srcs = UNION {records[i].sources : i \in members}
    OBVIOUS
  <1>18. srcs \in SUBSET {d.name : d \in Challenges}
    <2> SUFFICES ASSUME NEW i \in members
                 PROVE  records[i].sources \in SUBSET {d.name : d \in Challenges}
      BY <1>17
    <2>1. records[i] \in Record
      OBVIOUS
    <2> QED
      BY <2>1 DEF Record
  <1>19. PICK r : r = Merged(records, members)
    OBVIOUS
  <1>20. r = [base EXCEPT !.sources = srcs, !.writeups = ws]
    <2>1. DOMAIN order = 1..m
      BY <1>10
    <2> QED
      BY <2>1, <1>1, <1>3, <1>6, <1>8, <1>11, <1>14, <1>17, <1>19 DEF Merged
  <1>21. /\ r \in Record /\ r.sources = srcs /\ r.writeups = ws
         /\ r.files = base.files /\ r.tree = base.tree
    BY <1>4, <1>16, <1>18, <1>20 DEF Record
  <1>22. Fresh(r)
    <2>1. ASSUME NEW k \in 1..(n + m)
          PROVE  ws[k].copy = NoFile
      <3>1. CASE k <= n
        <4>1. k \in 1..n /\ ws[k] = base.writeups[k]
          BY <3>1, <1>15, <1>16
        <4> QED
          BY <4>1, <1>4, <1>15 DEF Fresh
      <3>2. CASE k > n
        <4>1. m \in Nat /\ n \in Nat
          BY <1>10, <1>15
        <4>2. k - n \in 1..m /\ ~(k <= n)
          BY <3>2, <4>1
        <4>3. ws[k] = more[k - n]
          BY <4>2, <1>16
        <4> QED
          BY <4>2, <4>3, <1>10, <1>12, <1>13
      <3> QED
        BY <3>1, <3>2, <1>10, <1>15
    <2> QED
      BY <2>1, <1>4, <1>16, <1>21 DEF Fresh
  <1>23. Urls(base.writeups) \subseteq Urls(ws)
    <2> SUFFICES ASSUME NEW k \in 1..n
                 PROVE  \E l \in 1..(n + m) : ws[l] = base.writeups[k]
      <3>1. PICK bs : bs = base.writeups
        OBVIOUS
      <3>2. DOMAIN bs = 1..n /\ DOMAIN ws = 1..(n + m)
        BY <1>5, <1>15, <1>16, <3>1
      <3> QED
        BY <3>1, <3>2 DEF Urls, ToSet
    <2>1. k \in 1..(n + m) /\ k <= n
      BY <1>10, <1>15
    <2> QED
      BY <2>1, <1>16
  <1>24. \A p \in lack : At(records, p).url \in Urls(ws)
    <2> SUFFICES ASSUME NEW p \in lack
                 PROVE  \E l \in 1..(n + m) : ws[l] = At(records, p)
      BY <1>16 DEF Urls, ToSet
    <2>1. PICK k \in 1..m : order[k] = p
      BY <1>10
    <2>2. n + k \in 1..(n + m) /\ ~(n + k <= n) /\ (n + k) - n = k
      BY <1>10, <1>15
    <2>3. ws[n + k] = more[k]
      BY <2>2, <1>16
    <2> QED
      BY <2>1, <2>2, <2>3, <1>13
  <1>25. ASSUME NEW i \in members
         PROVE  Urls(records[i].writeups) \subseteq Urls(ws)
    <2>1. CASE i = c
      BY <2>1, <1>3, <1>23
    <2>2. CASE i # c
      <3> SUFFICES ASSUME NEW k \in DOMAIN records[i].writeups
                   PROVE  records[i].writeups[k].url \in Urls(ws)
        BY DEF Urls, ToSet
      <3> QED
        BY <2>2, <1>7, <1>23, <1>24
    <2> QED
      BY <2>1, <2>2
  <1>26. Len(ws) <= Cardinality(Positions(records))
    <2>1. PICK own : own = {c} \X (1..n)
      OBVIOUS
    <2>2. IsFiniteSet(own) /\ Cardinality(own) = n
      <3>1. n \in Nat
        BY <1>15
      <3> QED
        BY <2>1, <3>1, RowFacts
    <2>3. own \cap lack = {}
      <3> SUFFICES ASSUME NEW p \in lack, p \in own
                   PROVE  FALSE
        OBVIOUS
      <3>1. p[1] = c
        BY <2>1
      <3> QED
        BY <3>1, <1>7
    <2>4. IsFiniteSet(own \cup lack)
          /\ Cardinality(own \cup lack) = Cardinality(own) + Cardinality(lack) - Cardinality(own \cap lack)
      BY <1>7, <2>2, FS_Union
    <2>5. Cardinality(own \cup lack) = n + m
      <3>1. Cardinality(own \cap lack) = 0
        BY <2>3, FS_EmptySet
      <3> QED
        BY <3>1, <2>2, <2>4, <1>9, <1>10, <1>15
    <2>6. PICK all : all = Positions(records)
      OBVIOUS
    <2>7. IsFiniteSet(all) /\ own \cup lack \in SUBSET all
      <3>1. PICK l \in Nat : DOMAIN records = 1..l
        OBVIOUS
      <3>2. PICK s : s = [i \in DOMAIN records |-> records[i].writeups]
        OBVIOUS
      <3>3. ASSUME NEW i \in 1..l
            PROVE  s[i] = records[i].writeups /\ \E k \in Nat : DOMAIN s[i] = 1..k
        <4>1. records[i] \in Record /\ s[i] = records[i].writeups
          BY <3>1, <3>2
        <4>2. s[i] \in Seq(Writeup)
          BY <4>1 DEF Record
        <4> QED
          BY <4>1, <4>2
      <3>4. DOMAIN s = 1..l /\ IsFiniteSet(Offered(s)) /\ all = Offered(s)
        BY <2>6, <3>1, <3>2, <3>3, OfferedFinite DEF Positions
      <3>5. \A i \in 1..l : \A k \in DOMAIN s[i] : <<i, k>> \in all
        BY <3>4 DEF Offered
      <3>6. lack \in SUBSET all
        BY <3>1, <3>3, <3>5, <1>7
      <3>7. own \in SUBSET all
        <4>1. c \in 1..l /\ DOMAIN s[c] = 1..n
          BY <1>2, <1>3, <1>5, <1>15, <3>1, <3>3
        <4>2. \A k \in 1..n : <<c, k>> \in all
          BY <4>1, <3>5
        <4> QED
          BY <4>2, <2>1
      <3> QED
        BY <3>4, <3>6, <3>7
    <2>8. Cardinality(own \cup lack) <= Cardinality(all)
      BY <2>7, FS_Subset
    <2> QED
      BY <2>5, <2>6, <2>8, <1>16
  <1> QED
    BY <1>2, <1>3, <1>17, <1>19, <1>21, <1>22, <1>25, <1>26
(* What a record must have of a challenge that was found. *)
Carries(r, c) ==
    /\ c.name \in r.sources
    /\ SourceFiles(Normalized(c)) \subseteq r.files
    /\ Urls(c.writeups) \subseteq Urls(r.writeups)

(* Records fit to be materialized, each challenge of f in exactly one of them. *)
Complete(records, f) ==
    \A i \in 1..Len(f) : \E k \in 1..Len(records) :
        /\ Carries(records[k], f[i])
        /\ \A l \in 1..Len(records) : f[i].name \in records[l].sources => l = k

LEMMA FoundRecords ==
  ASSUME NEW f \in Finds, NEW records, records = [i \in 1..Len(f) |-> Normalized(f[i])]
  PROVE  /\ Len(f) \in Nat /\ DOMAIN records = 1..Len(f) /\ Len(records) = Len(f)
         /\ records \in Seq(Record)
         /\ \A i \in 1..Len(f) :
              /\ f[i] \in Challenges /\ records[i] = Normalized(f[i]) /\ Fresh(records[i])
              /\ records[i].sources = {f[i].name}
              /\ Urls(records[i].writeups) = Urls(f[i].writeups)
              /\ Len(records[i].writeups) <= Len(HardCopyStem)
         /\ \A i, j \in 1..Len(f) : f[i].name = f[j].name => i = j
         /\ Cardinality(Positions(records)) <= Len(HardCopyStem)
         /\ Cardinality(Positions(records)) \in Nat /\ Len(HardCopyStem) \in Nat
  <1>1. /\ f \in Seq(ToSet(f))
        /\ \A i, j \in DOMAIN f : f[i].name = f[j].name => i = j
        /\ Cardinality(Offered([i \in DOMAIN f |-> f[i].writeups])) <= Len(HardCopyStem)
        /\ Len(HardCopyStem) \in Nat
    BY IngestAssumption
  <1>2. PICK n \in Nat : n = Len(f) /\ DOMAIN f = 1..n
    BY <1>1
  <1>3. \A i \in 1..n : f[i] \in Challenges
    BY <1>2 DEF Challenges, ToSet
  <1>4. DOMAIN records = 1..n /\ \A i \in 1..n : records[i] = Normalized(f[i])
    BY <1>2
  <1>5. \A i \in 1..n : /\ records[i] \in Record /\ Fresh(records[i])
                        /\ records[i].sources = {f[i].name}
                        /\ Urls(records[i].writeups) = Urls(f[i].writeups)
                        /\ Len(records[i].writeups) = Len(f[i].writeups)
    BY <1>3, <1>4, NormalizedFacts
  <1>6. records \in Seq(Record) /\ Len(records) = n
    BY <1>2, <1>4, <1>5
  <1>7. PICK s, t : /\ s = [i \in DOMAIN f |-> f[i].writeups]
                    /\ t = [i \in DOMAIN records |-> records[i].writeups]
    OBVIOUS
  <1>8. \A i \in 1..n : DOMAIN t[i] = DOMAIN s[i] /\ DOMAIN t[i] = 1..Len(records[i].writeups)
                        /\ Len(records[i].writeups) \in Nat
    <2> SUFFICES ASSUME NEW i \in 1..n
                 PROVE  DOMAIN t[i] = DOMAIN s[i] /\ DOMAIN t[i] = 1..Len(records[i].writeups)
                        /\ Len(records[i].writeups) \in Nat
      OBVIOUS
    <2>1. PICK a, b : a = f[i].writeups /\ b = records[i].writeups
      OBVIOUS
    <2>2. s[i] = a /\ t[i] = b /\ Len(a) = Len(b)
      BY <1>2, <1>4, <1>5, <1>7, <2>1
    <2>3. a \in Seq(ToSet(a))
      BY <1>3, <2>1, IngestAssumption
    <2>4. records[i] \in Record
      BY <1>5
    <2>5. b \in Seq(Writeup)
      BY <2>1, <2>4 DEF Record
    <2>6. DOMAIN a = 1..Len(a) /\ DOMAIN b = 1..Len(b) /\ Len(b) \in Nat
      BY <2>3, <2>5
    <2> QED
      BY <2>1, <2>2, <2>6
  <1>9. Offered(s) = Offered(t) /\ DOMAIN t = 1..n
    <2>1. DOMAIN s = 1..n /\ DOMAIN t = 1..n
      BY <1>2, <1>4, <1>7
    <2>2. \A p : p \in Offered(s) => p \in Offered(t)
      BY <2>1, <1>8 DEF Offered
    <2>3. \A p : p \in Offered(t) => p \in Offered(s)
      BY <2>1, <1>8 DEF Offered
    <2> QED
      BY <2>1, <2>2, <2>3
  <1>10. PICK all : all = Positions(records)
    OBVIOUS
  <1>11. all = Offered(t)
    BY <1>7, <1>10 DEF Positions
  <1>12. IsFiniteSet(all) /\ Cardinality(all) \in Nat
    <2>1. \A i \in 1..n : \E k \in Nat : DOMAIN t[i] = 1..k
      BY <1>8
    <2>2. IsFiniteSet(all)
      BY <2>1, <1>9, <1>11, OfferedFinite
    <2> QED
      BY <2>2, FS_CardinalityType
  <1>13. Cardinality(all) <= Len(HardCopyStem)
    BY <1>1, <1>7, <1>9, <1>11
  <1>14. ASSUME NEW i \in 1..n
         PROVE  Len(records[i].writeups) <= Len(HardCopyStem)
    <2>1. PICK k \in Nat : k = Len(records[i].writeups) /\ DOMAIN t[i] = 1..k
      BY <1>8
    <2>2. PICK own : own = {i} \X (1..k)
      OBVIOUS
    <2>3. own \in SUBSET all
      BY <1>9, <1>11, <2>1, <2>2 DEF Offered
    <2>6. Cardinality(own) = k
      BY <2>1, <2>2, RowFacts
    <2>7. Cardinality(own) <= Cardinality(all)
      BY <2>3, <1>12, FS_Subset
    <2> QED
      BY <2>1, <2>6, <2>7, <1>1, <1>12, <1>13
  <1> QED
    BY <1>1, <1>2, <1>3, <1>4, <1>5, <1>6, <1>10, <1>12, <1>13, <1>14
(* Deduplicated or not, the records of what was found are fit and complete. *)
LEMMA PlainComplete ==
  ASSUME NEW f \in Finds, NEW records, records = [i \in 1..Len(f) |-> Normalized(f[i])]
  PROVE  Complete(records, f)
  <1> SUFFICES ASSUME NEW i \in 1..Len(f)
               PROVE  /\ Carries(records[i], f[i])
                      /\ \A l \in 1..Len(f) : f[i].name \in records[l].sources => l = i
    BY FoundRecords DEF Complete
  <1>1. /\ records[i] = Normalized(f[i]) /\ Fresh(records[i])
        /\ records[i].sources = {f[i].name}
        /\ Urls(records[i].writeups) = Urls(f[i].writeups)
    BY FoundRecords
  <1>2. Carries(records[i], f[i])
    BY <1>1 DEF Carries, SourceFiles
  <1>3. \A l \in 1..Len(f) : records[l].sources = {f[l].name}
    BY FoundRecords
  <1>4. \A l \in 1..Len(f) : f[i].name = f[l].name => i = l
    BY FoundRecords
  <1> QED
    BY <1>2, <1>3, <1>4

LEMMA DedupComplete ==
  ASSUME NEW f \in Finds, NEW records, records = [i \in 1..Len(f) |-> Normalized(f[i])],
         NEW d, d = Deduplicated(records)
  PROVE  /\ d \in Seq(Record) /\ Complete(d, f)
         /\ \A k \in 1..Len(d) : Fresh(d[k]) /\ Len(d[k].writeups) <= Len(HardCopyStem)
  <1>1. PICK n \in Nat : n = Len(f)
    BY FoundRecords
  <1>2. /\ DOMAIN records = 1..n /\ records \in Seq(Record)
        /\ \A i \in 1..n : /\ records[i] = Normalized(f[i]) /\ Fresh(records[i])
                           /\ records[i].sources = {f[i].name}
                           /\ Urls(records[i].writeups) = Urls(f[i].writeups)
        /\ \A i, j \in 1..n : f[i].name = f[j].name => i = j
        /\ Cardinality(Positions(records)) <= Len(HardCopyStem)
        /\ Cardinality(Positions(records)) \in Nat /\ Len(HardCopyStem) \in Nat
    BY <1>1, FoundRecords
  <1>3. /\ \A i \in 1..n : Cluster(records, i) \in SUBSET (1..n) /\ i \in Cluster(records, i)
        /\ \A i, j \in 1..n : j \in Cluster(records, i) => Cluster(records, j) = Cluster(records, i)
        /\ \A i, j \in 1..n :
             j \in Cluster(records, i) <=> ClusterKey(records[j]) = ClusterKey(records[i])
    BY <1>2 DEF Cluster
  <1>4. PICK firsts : firsts = {i \in 1..n : \A j \in Cluster(records, i) : i <= j}
    OBVIOUS
  <1>5. PICK before : before = {o \in firsts \X firsts : o[1] < o[2]}
    OBVIOUS
  <1>6. firsts \in SUBSET (1..n) /\ IsFiniteSet(firsts) /\ Orders(before, firsts)
    <2>1. firsts \in SUBSET (1..n)
      BY <1>4
    <2>2. IsFiniteSet(1..n)
      <3>1. 1 \in Int /\ n \in Int
        BY <1>1
      <3> QED
        BY <3>1, FS_Interval
    <2>3. \A i, j \in firsts : <<i, j>> \in before <=> i < j
      BY <1>5
    <2>4. \A i \in firsts : i \in Nat
      BY <2>1
    <2>5. Orders(before, firsts)
      BY <2>3, <2>4 DEF Orders
    <2> QED
      BY <2>1, <2>2, <2>5, FS_Subset
  <1>7. PICK order : order = InOrder(firsts, before)
    OBVIOUS
  <1>8. PICK m : m = Cardinality(firsts)
    OBVIOUS
  <1>9. /\ m \in Nat /\ order \in [1..m -> firsts]
        /\ \A i \in firsts : \E k \in 1..m : order[k] = i
        /\ \A k, l \in 1..m : order[k] = order[l] => k = l
    BY <1>6, <1>7, <1>8, InOrderFacts
  <1>10. d = [k \in 1..m |-> Merged(records, Cluster(records, order[k]))]
    <2>1. firsts = {i \in DOMAIN records : \A j \in Cluster(records, i) : i <= j}
      BY <1>2, <1>4
    <2>2. DOMAIN order = 1..m
      BY <1>9
    <2> QED
      BY <2>1, <2>2, <1>5, <1>7 DEF Deduplicated
  <1>11. ASSUME NEW k \in 1..m
         PROVE  /\ d[k] \in Record /\ Fresh(d[k]) /\ Len(d[k].writeups) <= Len(HardCopyStem)
                /\ d[k].sources = {f[i].name : i \in Cluster(records, order[k])}
                /\ \E i \in Cluster(records, order[k]) : d[k].files = records[i].files
                /\ \A i \in Cluster(records, order[k]) :
                     Urls(f[i].writeups) \subseteq Urls(d[k].writeups)
    <2>1. PICK members : members = Cluster(records, order[k])
      OBVIOUS
    <2>2. PICK r : r = Merged(records, members)
      OBVIOUS
    <2>3. order[k] \in 1..n
      BY <1>6, <1>9
    <2>4. members \in SUBSET (1..n) /\ members # {}
      BY <2>1, <2>3, <1>3
    <2>5. /\ r \in Record /\ Fresh(r)
          /\ r.sources = UNION {records[i].sources : i \in members}
          /\ \E i \in members : r.files = records[i].files
          /\ \A i \in members : Urls(records[i].writeups) \subseteq Urls(r.writeups)
          /\ Len(r.writeups) <= Cardinality(Positions(records))
      <3>1. members \in SUBSET (DOMAIN records) /\ \A i \in DOMAIN records : Fresh(records[i])
        BY <2>4, <1>2
      <3>2. records \in Seq(Record) /\ members # {}
        BY <2>4, <1>2
      <3>3. /\ Merged(records, members) \in Record
            /\ Fresh(Merged(records, members))
            /\ Merged(records, members).sources = UNION {records[i].sources : i \in members}
        BY <3>1, <3>2, MergedFacts
      <3>4. \E i \in members : Merged(records, members).files = records[i].files
        BY <3>1, <3>2, MergedFacts
      <3>5. /\ \A i \in members :
                 Urls(records[i].writeups) \subseteq Urls(Merged(records, members).writeups)
            /\ Len(Merged(records, members).writeups) <= Cardinality(Positions(records))
        BY <3>1, <3>2, MergedFacts
      <3> QED
        BY <2>2, <3>3, <3>4, <3>5
    <2>6. r.sources = {f[i].name : i \in members}
      <3>1. \A i \in members : records[i].sources = {f[i].name}
        BY <2>4, <1>2
      <3>2. \A x : x \in UNION {records[i].sources : i \in members} <=> \E i \in members : x = f[i].name
        BY <3>1
      <3> QED
        BY <3>2, <2>5
    <2>7. \A i \in members : Urls(f[i].writeups) \subseteq Urls(r.writeups)
      BY <2>4, <2>5, <1>2
    <2>8. Len(r.writeups) <= Len(HardCopyStem)
      <3>1. r.writeups \in Seq(Writeup)
        BY <2>5 DEF Record
      <3>2. Len(r.writeups) \in Nat
        BY <3>1
      <3> QED
        BY <3>2, <2>5, <1>2
    <2>9. d[k] = r /\ Cluster(records, order[k]) = members
      BY <2>1, <2>2, <1>10
    <2>10. \E i \in members : r.files = records[i].files
      BY <2>5
    <2>11. r \in Record /\ Fresh(r)
      BY <2>5
    <2> QED
      BY <2>6, <2>7, <2>8, <2>9, <2>10, <2>11
  <1>12. d \in Seq(Record) /\ Len(d) = m
    BY <1>9, <1>10, <1>11
  <1>13. ASSUME NEW i \in 1..n
         PROVE  \E k \in 1..m : /\ Carries(d[k], f[i])
                                /\ \A l \in 1..m : f[i].name \in d[l].sources => l = k
    <2>1. PICK first \in firsts : first \in 1..n /\ Cluster(records, first) = Cluster(records, i)
      <3>1. PICK S : S = Cluster(records, i)
        OBVIOUS
      <3>2. S \in SUBSET (1..n) /\ i \in S
        BY <3>1, <1>3
      <3>3. PICK R : R = {o \in S \X S : o[1] < o[2]}
        OBVIOUS
      <3>4. IsFiniteSet(S) /\ Orders(R, S) /\ \A a, b \in S : <<a, b>> \in R <=> a < b
        <4>1. IsFiniteSet(1..n)
          <5>1. 1 \in Int /\ n \in Int
            BY <1>1
          <5> QED
            BY <5>1, FS_Interval
        <4>2. \A a, b \in S : <<a, b>> \in R <=> a < b
          BY <3>3
        <4>3. \A a \in S : a \in Nat
          BY <3>2
        <4>4. Orders(R, S)
          BY <4>2, <4>3 DEF Orders
        <4> QED
          BY <4>1, <4>2, <4>4, <3>2, FS_Subset
      <3>5. PICK a \in S : \A y \in S : <<y, a>> \notin R
        <4>1. S # {}
          BY <3>2
        <4>2. PICK a : a = InOrder(S, R)[1]
          OBVIOUS
        <4>3. a \in S /\ \A y \in S : <<y, a>> \notin R
          BY <4>1, <4>2, <3>4, InOrderFacts
        <4> QED
          BY <4>3
      <3>6. a \in 1..n /\ Cluster(records, a) = S
        BY <3>1, <3>2, <1>3
      <3>7. \A y \in S : a <= y
        <4>1. \A y \in S : ~(y < a)
          BY <3>4, <3>5
        <4>2. \A y \in S : y \in Nat
          BY <3>2
        <4> QED
          BY <4>1, <4>2
      <3>8. a \in firsts
        BY <3>6, <3>7, <1>4
      <3> QED
        BY <3>1, <3>6, <3>8
    <2>2. PICK k \in 1..m : order[k] = first
      BY <1>9
    <2>3. i \in Cluster(records, order[k])
      BY <2>1, <2>2, <1>3
    <2>4. f[i].name \in d[k].sources /\ Urls(f[i].writeups) \subseteq Urls(d[k].writeups)
      <3>1. d[k].sources = {f[j].name : j \in Cluster(records, order[k])}
        BY <1>11
      <3>2. f[i].name \in d[k].sources
        BY <2>3, <3>1
      <3>3. \A j \in Cluster(records, order[k]) : Urls(f[j].writeups) \subseteq Urls(d[k].writeups)
        BY <1>11
      <3> QED
        BY <2>3, <3>2, <3>3
    <2>5. SourceFiles(Normalized(f[i])) \subseteq d[k].files
      <3>1. PICK j \in Cluster(records, order[k]) : d[k].files = records[j].files
        BY <1>11
      <3>2. j \in 1..n /\ ClusterKey(records[j]) = ClusterKey(records[i])
        BY <3>1, <2>1, <2>2, <1>3
      <3>3. SourceFiles(records[i]) \subseteq records[j].files
        <4>1. CASE SourceFiles(records[i]) = {}
          BY <4>1
        <4>2. CASE SourceFiles(records[i]) # {}
          <5>1. ClusterKey(records[i]) = <<"fp", SourceFiles(records[i])>>
            BY <4>2 DEF ClusterKey
          <5>2. SourceFiles(records[j]) # {}
            <6> SUFFICES ASSUME SourceFiles(records[j]) = {}
                         PROVE  FALSE
              OBVIOUS
            <6>1. ClusterKey(records[j]) = <<"nofp", {records[j].id}>>
              BY DEF ClusterKey
            <6>2. \A x, y : <<"fp", x>> # <<"nofp", y>>
              OBVIOUS
            <6> QED
              BY <6>1, <6>2, <5>1, <3>2
          <5>4. ClusterKey(records[j]) = <<"fp", SourceFiles(records[j])>>
            BY <5>2 DEF ClusterKey
          <5>3. SourceFiles(records[j]) = SourceFiles(records[i])
            <6>1. \A x, y : <<"fp", x>> = <<"fp", y>> => x = y
              OBVIOUS
            <6> QED
              BY <6>1, <5>1, <5>4, <3>2
          <5> QED
            BY <5>3 DEF SourceFiles
        <4> QED
          BY <4>1, <4>2
      <3> QED
        BY <3>1, <3>3, <1>2
    <2>6. ASSUME NEW l \in 1..m, f[i].name \in d[l].sources
          PROVE  l = k
      <3>1. PICK j \in Cluster(records, order[l]) : f[j].name = f[i].name
        BY <2>6, <1>11
      <3>2. order[l] \in firsts /\ order[l] \in 1..n
        BY <1>6, <1>9
      <3>3. j \in 1..n
        BY <3>1, <3>2, <1>3
      <3>4. j = i
        BY <3>1, <3>3, <1>2
      <3>5. Cluster(records, order[l]) = Cluster(records, first)
        BY <3>1, <3>2, <3>4, <2>1, <1>3
      <3>6. order[l] \in Cluster(records, first) /\ first \in Cluster(records, order[l])
        BY <3>2, <3>5, <2>1, <1>3
      <3>7. order[l] <= first /\ first <= order[l]
        BY <3>2, <3>6, <1>4
      <3>8. order[l] = first
        BY <3>2, <3>7, <2>1
      <3> QED
        BY <3>8, <2>2, <1>9
    <2> QED
      BY <2>4, <2>5, <2>6 DEF Carries
  <1>14. Complete(d, f)
    <2>1. Len(f) = n /\ Len(d) = m
      BY <1>1, <1>12
    <2>2. ASSUME NEW i \in 1..Len(f)
          PROVE  \E k \in 1..Len(d) :
                   /\ Carries(d[k], f[i])
                   /\ \A l \in 1..Len(d) : f[i].name \in d[l].sources => l = k
      <3>1. i \in 1..n
        BY <2>1
      <3>2. PICK k \in 1..m : /\ Carries(d[k], f[i])
                             /\ \A l \in 1..m : f[i].name \in d[l].sources => l = k
        BY <3>1, <1>13
      <3>3. k \in 1..Len(d) /\ \A l \in 1..Len(d) : f[i].name \in d[l].sources => l = k
        BY <2>1, <3>2
      <3> QED
        BY <3>2, <3>3
    <2> QED
      BY <2>2 DEF Complete
  <1>15. \A k \in 1..Len(d) : Fresh(d[k]) /\ Len(d[k].writeups) <= Len(HardCopyStem)
    BY <1>11, <1>12
  <1> QED
    BY <1>12, <1>14, <1>15

-----------------------------------------------------------------------------
(* Type correctness *)

(* Its writeups have names for their hard copies, which are entries of its files. *)
Fit(r) ==
    /\ Len(r.writeups) <= Len(HardCopyStem)
    /\ \A n \in 1..Len(r.writeups) :
         r.writeups[n].copy # NoFile => <<r.writeups[n].copy, r.writeups[n].url>> \in r.files

Fits(records) == \A i \in 1..Len(records) : Fit(records[i])

Shape ==
    /\ pc \in {"idle", "open", "copy", "writeups", "catalog", "write", "done"}
    /\ todo \in Seq(Record)
    /\ ready \in Seq(Record)
    /\ catalog \in Seq(Record)
    /\ pc \in {"open", "copy", "writeups"} => todo # <<>>
    /\ pc \in {"catalog", "write", "done"} => todo = <<>>
    /\ pc \in {"idle", "done"} => ready = <<>>
    /\ pc \in {"copy", "writeups"} => next \in 1..(Len(todo[1].writeups) + 1)
    /\ DOMAIN corpus = Places
    /\ kept \in SUBSET Copies
    /\ found \in Finds \cup {<<>>}
    /\ Fits(todo)
    /\ Fits(ready)
    /\ Fits(catalog)

(* The record s is r with a hard copy of its n-th writeup. *)
Gains(r, s, n, copy) ==
    /\ s.at = r.at
    /\ s.tree = r.tree
    /\ s.sources = r.sources
    /\ s.files = r.files \cup {<<copy, r.writeups[n].url>>}
    /\ DOMAIN s.writeups = DOMAIN r.writeups
    /\ Len(s.writeups) = Len(r.writeups)
    /\ \A k \in DOMAIN r.writeups : s.writeups[k].url = r.writeups[k].url
    /\ s.writeups[n].copy = copy
    /\ \A k \in DOMAIN r.writeups \ {n} : s.writeups[k] = r.writeups[k]

LEMMA GainsFacts ==
  ASSUME NEW r \in Record, NEW n \in DOMAIN r.writeups, NEW copy \in Copies, NEW s,
         s = Listing(r, n, copy)
  PROVE  s \in Record /\ Gains(r, s, n, copy)
  <1>1. PICK ws : ws = r.writeups
    OBVIOUS
  <1>2. ws \in Seq(Writeup)
    BY <1>1 DEF Record
  <1>3. PICK m \in Nat : DOMAIN ws = 1..m /\ Len(ws) = m
    BY <1>2
  <1>4. \A k \in 1..m : ws[k] \in Writeup
    BY <1>2, <1>3
  <1>5. n \in 1..m
    BY <1>1, <1>3
  <1>6. PICK w : w = [ws[n] EXCEPT !.copy = copy]
    OBVIOUS
  <1>7. w \in Writeup /\ w.copy = copy /\ w.url = ws[n].url
    BY <1>4, <1>5, <1>6 DEF Writeup
  <1>8. PICK vs : vs = [ws EXCEPT ![n] = w]
    OBVIOUS
  <1>9. /\ DOMAIN vs = 1..m /\ vs[n] = w
        /\ \A k \in (1..m) \ {n} : vs[k] = ws[k]
    BY <1>3, <1>5, <1>8
  <1>10. vs \in Seq(Writeup) /\ Len(vs) = m
    <2>1. \A k \in 1..m : vs[k] \in Writeup
      BY <1>4, <1>7, <1>9
    <2>2. vs = [k \in 1..m |-> vs[k]]
      BY <1>3, <1>8
    <2> QED
      BY <2>1, <2>2, <1>9
  <1>11. PICK e : e = <<copy, r.writeups[n].url>>
    OBVIOUS
  <1>12. e \in Entries
    <2>1. ws[n].url \in {x.url : x \in Links}
      BY <1>4, <1>5 DEF Writeup
    <2> QED
      BY <2>1, <1>1, <1>11 DEF Entries
  <1>13. s = [r EXCEPT !.writeups = vs, !.files = r.files \cup {e}]
    <2>1. vs = [r.writeups EXCEPT ![n] = [r.writeups[n] EXCEPT !.copy = copy]]
      BY <1>1, <1>6, <1>8
    <2>2. r.files \cup {e} = r.files \cup {<<copy, r.writeups[n].url>>}
      BY <1>11
    <2> QED
      BY <2>1, <2>2 DEF Listing
  <1>14. s \in Record
    <2>1. PICK files : files = r.files \cup {e}
      OBVIOUS
    <2>2. files \in SUBSET Entries
      BY <2>1, <1>12 DEF Record
    <2>3. s = [r EXCEPT !.writeups = vs, !.files = files]
      BY <1>13, <2>1
    <2> QED
      BY <1>10, <2>2, <2>3 DEF Record
  <1>15. /\ s.at = r.at /\ s.tree = r.tree /\ s.sources = r.sources
         /\ s.writeups = vs /\ s.files = r.files \cup {e}
    BY <1>13 DEF Record
  <1>16. \A k \in 1..m : vs[k].url = ws[k].url
    BY <1>7, <1>9
  <1> QED
    BY <1>1, <1>3, <1>7, <1>9, <1>10, <1>11, <1>14, <1>15, <1>16 DEF Gains

LEMMA WriteupStep ==
  ASSUME Shape, MaterializeWriteup
  PROVE  /\ pc = "writeups" /\ pc' = "writeups"
         /\ todo # <<>> /\ todo[1] \in Record
         /\ next \in 1..Len(todo[1].writeups)
         /\ next' = next + 1
         /\ UNCHANGED <<pc, ready, uncopied, catalog, found, skipped, runs, faults>>
         /\ \/ UNCHANGED <<corpus, kept, todo>>
            \/ \E s \in Record, copy \in Copies :
                 /\ copy[1] = "writeups" /\ copy[2] = HardCopyStem[next]
                 /\ Gains(todo[1], s, next, copy)
                 /\ kept' = kept \cup {copy}
                 /\ todo' = [todo EXCEPT ![1] = s]
                 /\ corpus' = [corpus EXCEPT ![todo[1].at] =
                                 With(corpus[todo[1].at], copy, todo[1].writeups[next].url)]
  <1>1. pc = "writeups" /\ todo # <<>> /\ todo \in Seq(Record)
    BY DEF Shape, MaterializeWriteup
  <1>2. PICK r : r = todo[1]
    OBVIOUS
  <1>3. r \in Record /\ Len(todo) \in Nat /\ 1 \in DOMAIN todo /\ Len(todo) >= 1
    BY <1>1, <1>2
  <1>4. r.writeups \in Seq(Writeup)
    BY <1>3 DEF Record
  <1>5. PICK n \in Nat : n = next /\ n \in 1..Len(r.writeups)
    <2>1. next \in 1..(Len(r.writeups) + 1) /\ next <= Len(r.writeups)
      BY <1>1, <1>2 DEF Shape, MaterializeWriteup
    <2>2. Len(r.writeups) \in Nat
      BY <1>4
    <2> QED
      BY <2>1, <2>2
  <1>6. HardCopyStem[n] \in ToSet(HardCopyStem)
    <2>1. Len(r.writeups) <= Len(HardCopyStem)
      BY <1>2, <1>3 DEF Shape, Fits, Fit
    <2>2. HardCopyStem \in Seq(STRING) /\ Len(r.writeups) \in Nat
      BY IngestAssumption, <1>4
    <2>3. n \in DOMAIN HardCopyStem
      BY <2>1, <2>2, <1>5
    <2> QED
      BY <2>3 DEF ToSet
  <1>7. ASSUME NEW ext \in LinkExts \cup {"md"}, Keep(ext)
        PROVE  \E s \in Record, copy \in Copies :
                 /\ copy[1] = "writeups" /\ copy[2] = HardCopyStem[n]
                 /\ Gains(r, s, n, copy)
                 /\ kept' = kept \cup {copy}
                 /\ todo' = [todo EXCEPT ![1] = s]
                 /\ corpus' = [corpus EXCEPT ![r.at] =
                                 With(corpus[r.at], copy, r.writeups[n].url)]
    <2>1. PICK copy : copy = <<"writeups", HardCopyStem[n], ext>>
      OBVIOUS
    <2>2. copy \in Copies /\ copy[1] = "writeups" /\ copy[2] = HardCopyStem[n]
      BY <2>1, <1>6 DEF Copies
    <2>3. PICK s : s = Listing(r, n, copy)
      OBVIOUS
    <2>4. n \in DOMAIN r.writeups
      BY <1>4, <1>5
    <2>5. s \in Record /\ Gains(r, s, n, copy)
      BY <1>3, <2>2, <2>3, <2>4, GainsFacts
    <2>6. todo' = [todo EXCEPT ![1] = s]
      <3>1. todo' = [todo EXCEPT ![1] = Listing(todo[1], next, copy)]
        BY <1>7, <1>5, <2>1 DEF Keep
      <3> QED
        BY <3>1, <1>2, <1>5, <2>3
    <2>7. /\ kept' = kept \cup {copy}
          /\ corpus' = [corpus EXCEPT ![r.at] = With(corpus[r.at], copy, r.writeups[n].url)]
      BY <1>7, <1>2, <1>5, <2>1 DEF Keep, Kept, writeup, here
    <2> QED
      BY <2>2, <2>5, <2>6, <2>7
  <1>8. \/ UNCHANGED <<corpus, kept, todo>>
        \/ \E ext \in LinkExts \cup {"md"} : Keep(ext)
    BY DEF MaterializeWriteup, KeepInline, FetchLink, LoseLink
  <1>9. /\ next' = next + 1
        /\ UNCHANGED <<pc, ready, uncopied, catalog, found, skipped, runs, faults>>
    BY DEF MaterializeWriteup
  <1> QED
    BY <1>1, <1>2, <1>3, <1>5, <1>7, <1>8, <1>9

LEMMA DiscoverStep ==
  ASSUME Shape, Discover
  PROVE  /\ todo' \in Seq(Record)
         /\ found' \in Finds
         /\ Complete(todo', found')
         /\ \A k \in 1..Len(todo') : Fresh(todo'[k]) /\ Len(todo'[k].writeups) <= Len(HardCopyStem)
         /\ ready' = <<>>
         /\ pc' = IF todo' = <<>> THEN "catalog" ELSE "open"
         /\ UNCHANGED <<inHand, corpus, catalog, skipped, faults>>
  <1>1. PICK f \in Finds :
          /\ found' = f
          /\ LET records == [i \in 1..Len(f) |-> Normalized(f[i])]
             IN  todo' \in {Deduplicated(records), records}
    BY DEF Discover
  <1>2. PICK records : records = [i \in 1..Len(f) |-> Normalized(f[i])]
    OBVIOUS
  <1>3. PICK d : d = Deduplicated(records)
    OBVIOUS
  <1>4. PICK t : t = todo'
    OBVIOUS
  <1>5. t = d \/ t = records
    BY <1>1, <1>2, <1>3, <1>4
  <1>6. /\ t \in Seq(Record)
        /\ Complete(t, f)
        /\ \A k \in 1..Len(t) : Fresh(t[k]) /\ Len(t[k].writeups) <= Len(HardCopyStem)
    <2>1. CASE t = d
      BY <2>1, <1>2, <1>3, DedupComplete
    <2>2. CASE t = records
      <3>1. /\ records \in Seq(Record) /\ Len(records) = Len(f)
            /\ \A k \in 1..Len(f) : Fresh(records[k]) /\ Len(records[k].writeups) <= Len(HardCopyStem)
        BY <1>2, FoundRecords
      <3>2. Complete(records, f)
        BY <1>2, PlainComplete
      <3> QED
        BY <2>2, <3>1, <3>2
    <2> QED
      BY <1>5, <2>1, <2>2
  <1>7. found' \in Finds /\ Complete(todo', found')
    BY <1>1, <1>4, <1>6
  <1>8. /\ ready' = <<>>
        /\ pc' = IF todo' = <<>> THEN "catalog" ELSE "open"
        /\ UNCHANGED <<inHand, corpus, catalog, skipped, faults>>
    BY DEF Discover
  <1> QED
    BY <1>4, <1>6, <1>7, <1>8

LEMMA AppendFacts ==
  ASSUME NEW s \in Seq(Record), NEW r \in Record, NEW t, t = Append(s, r)
  PROVE  /\ t \in Seq(Record) /\ Len(t) = Len(s) + 1 /\ Len(s) \in Nat
         /\ \A i \in 1..Len(s) : t[i] = s[i]
         /\ t[Len(s) + 1] = r
         /\ \A i \in 1..Len(t) : i \in 1..Len(s) \/ i = Len(s) + 1
  <1>1. t \in Seq(Record) /\ Len(t) = Len(s) + 1 /\ Len(s) \in Nat
    OBVIOUS
  <1>2. \A i \in 1..Len(s) : t[i] = s[i]
    OBVIOUS
  <1>3. t[Len(s) + 1] = r
    OBVIOUS
  <1> QED
    BY <1>1, <1>2, <1>3

LEMMA TailFacts ==
  ASSUME NEW s \in Seq(Record), s # <<>>, NEW t, t = Tail(s)
  PROVE  /\ t \in Seq(Record) /\ Len(t) = Len(s) - 1 /\ Len(s) \in Nat /\ Len(s) >= 1
         /\ \A i \in 1..Len(t) : i + 1 \in 1..Len(s) /\ t[i] = s[i + 1]
         /\ s[1] \in Record /\ Head(s) = s[1]
  <1>1. Len(s) \in Nat /\ Len(s) >= 1
    OBVIOUS
  <1>2. t \in Seq(Record) /\ Len(t) = Len(s) - 1
    OBVIOUS
  <1>3. \A i \in 1..Len(t) : t[i] = s[i + 1]
    OBVIOUS
  <1>4. s[1] \in Record /\ Head(s) = s[1]
    OBVIOUS
  <1> QED
    BY <1>1, <1>2, <1>3, <1>4

LEMMA PruneStep ==
  ASSUME Shape, Prune
  PROVE  /\ pc = "writeups" /\ todo # <<>> /\ todo[1] \in Record
         /\ next \in Nat /\ next = Len(todo[1].writeups) + 1
         /\ corpus' = [corpus EXCEPT ![todo[1].at] =
                         [f \in DOMAIN corpus[todo[1].at] \ Stale(corpus[todo[1].at]) |->
                            corpus[todo[1].at][f]]]
         /\ ready' = Append(ready, todo[1])
         /\ todo' = Tail(todo)
         /\ pc' \in {"catalog", "open"}
         /\ pc' = "catalog" <=> todo' = <<>>
         /\ UNCHANGED <<inHand, catalog, found, skipped, runs, faults>>
  <1>1. pc = "writeups" /\ todo # <<>> /\ todo \in Seq(Record)
    BY DEF Shape, Prune
  <1>2. todo[1] \in Record
    BY <1>1
  <1>3. Len(todo[1].writeups) \in Nat
    BY <1>2 DEF Record
  <1>4. next \in 1..(Len(todo[1].writeups) + 1) /\ next > Len(todo[1].writeups)
    BY <1>1 DEF Shape, Prune
  <1>5. next \in Nat /\ next = Len(todo[1].writeups) + 1
    BY <1>3, <1>4
  <1>6. /\ corpus' = [corpus EXCEPT ![todo[1].at] =
                        [f \in DOMAIN corpus[todo[1].at] \ Stale(corpus[todo[1].at]) |->
                           corpus[todo[1].at][f]]]
        /\ ready' = Append(ready, todo[1])
        /\ todo' = Tail(todo)
        /\ pc' = IF todo' = <<>> THEN "catalog" ELSE "open"
        /\ UNCHANGED <<inHand, catalog, found, skipped, runs, faults>>
    BY DEF Prune, here
  <1>7. pc' \in {"catalog", "open"} /\ (pc' = "catalog" <=> todo' = <<>>)
    BY <1>6
  <1> QED
    BY <1>1, <1>2, <1>5, <1>6, <1>7

LEMMA ShapeInit == Init => Shape
  <1> SUFFICES ASSUME Init
               PROVE  Shape
    OBVIOUS
  <1>1. <<>> \in Seq(Record) /\ Len(<<>>) = 0
    OBVIOUS
  <1> QED
    BY <1>1 DEF Init, Shape, Fits

LEMMA ShapeStep == Shape /\ [Next]_vars => Shape'
  <1> SUFFICES ASSUME Shape, [Next]_vars
               PROVE  Shape'
    OBVIOUS
  <1>0. <<>> \in Seq(Record) /\ Len(<<>>) = 0 /\ Fits(<<>>)
    BY DEF Fits
  <1>1. CASE Discover
    <2>1. /\ todo' \in Seq(Record) /\ found' \in Finds
          /\ \A k \in 1..Len(todo') : Len(todo'[k].writeups) <= Len(HardCopyStem)
          /\ ready' = <<>>
          /\ pc' = IF todo' = <<>> THEN "catalog" ELSE "open"
          /\ UNCHANGED <<inHand, corpus, catalog, skipped, faults>>
      BY <1>1, DiscoverStep
    <2>2. Fits(todo')
      <3>1. \A k \in 1..Len(todo') : Fresh(todo'[k])
        BY <1>1, DiscoverStep
      <3> QED
        BY <3>1, <2>1 DEF Fits, Fit, Fresh
    <2> QED
      BY <1>0, <2>1, <2>2 DEF Shape, inHand, Fits
  <1>2. CASE OpenChallenge
    <2>1. Len(todo[1].writeups) \in Nat
      <3>1. todo # <<>> /\ todo \in Seq(Record)
        BY <1>2 DEF OpenChallenge, Shape
      <3>2. todo[1] \in Record
        BY <3>1
      <3> QED
        BY <3>2 DEF Record
    <2>2. /\ next' = 1 /\ pc' = "copy" /\ kept' = {} /\ pc = "open"
          /\ DOMAIN corpus' = DOMAIN corpus
          /\ UNCHANGED <<todo, ready, catalog, found>>
      BY <1>2 DEF OpenChallenge, FirstWriteup
    <2>3. next' \in 1..(Len(todo'[1].writeups) + 1)
      BY <2>1, <2>2
    <2> QED
      BY <2>2, <2>3 DEF Shape, Fits
  <1>3. CASE Copying
    <2>1. /\ DOMAIN corpus' = DOMAIN corpus
          /\ UNCHANGED <<pc, todo, ready, catalog, found, next, kept>>
      BY <1>3 DEF Copying, CopySource, SkipSource
    <2> QED
      BY <2>1 DEF Shape, Fits
  <1>4. CASE SourcesCopied
    BY <1>4 DEF SourcesCopied, Shape, Fits, inHand
  <1>5. CASE MaterializeWriteup
    <2>1. /\ pc = "writeups" /\ pc' = "writeups"
          /\ todo # <<>> /\ todo[1] \in Record
          /\ next \in 1..Len(todo[1].writeups)
          /\ next' = next + 1
          /\ UNCHANGED <<pc, ready, catalog, found>>
      BY <1>5, WriteupStep
    <2>2. Len(todo[1].writeups) \in Nat
      BY <2>1 DEF Record
    <2>3. next' \in 1..(Len(todo[1].writeups) + 1)
      BY <2>1, <2>2
    <2>4. CASE UNCHANGED <<corpus, kept, todo>>
      BY <2>1, <2>3, <2>4 DEF Shape, Fits
    <2>5. CASE \E s \in Record, copy \in Copies :
                 /\ copy[1] = "writeups" /\ copy[2] = HardCopyStem[next]
                 /\ Gains(todo[1], s, next, copy)
                 /\ kept' = kept \cup {copy}
                 /\ todo' = [todo EXCEPT ![1] = s]
                 /\ corpus' = [corpus EXCEPT ![todo[1].at] =
                                 With(corpus[todo[1].at], copy, todo[1].writeups[next].url)]
      <3>1. PICK s \in Record, copy \in Copies :
                 /\ Gains(todo[1], s, next, copy)
                 /\ kept' = kept \cup {copy}
                 /\ todo' = [todo EXCEPT ![1] = s]
                 /\ DOMAIN corpus' = DOMAIN corpus
        BY <2>5
      <3>2. Len(s.writeups) = Len(todo[1].writeups)
        BY <3>1 DEF Gains
      <3>3. todo \in Seq(Record) /\ Fits(todo)
        BY DEF Shape
      <3>12. Fit(s)
        <4>1. PICK r, n : r = todo[1] /\ n = next
          OBVIOUS
        <4>2. /\ n \in 1..Len(r.writeups) /\ r.writeups \in Seq(Writeup) /\ Fit(r)
              /\ Gains(r, s, n, copy)
          <5>1. 1 \in 1..Len(todo)
            BY <3>3, <2>1
          <5> QED
            BY <5>1, <4>1, <2>1, <3>1, <3>3 DEF Record, Fits
        <4>3. DOMAIN r.writeups = 1..Len(r.writeups)
          BY <4>2
        <4>4. ASSUME NEW k \in 1..Len(r.writeups), s.writeups[k].copy # NoFile
              PROVE  <<s.writeups[k].copy, s.writeups[k].url>> \in s.files
          <5>1. CASE k = n
            BY <5>1, <4>2, <4>3 DEF Gains
          <5>2. CASE k # n
            <6>1. s.writeups[k] = r.writeups[k] /\ r.files \subseteq s.files
              BY <5>2, <4>2, <4>3 DEF Gains
            <6> QED
              BY <6>1, <4>2, <4>4 DEF Fit
          <5> QED
            BY <5>1, <5>2
        <4> QED
          BY <4>2, <4>4 DEF Fit, Gains
      <3>4. PICK t : t = [todo EXCEPT ![1] = s]
        OBVIOUS
      <3>5. t \in Seq(Record) /\ Len(t) = Len(todo) /\ t # <<>> /\ t[1] = s
        BY <3>3, <3>4, <2>1
      <3>6. \A i \in 1..Len(todo) : t[i] = IF i = 1 THEN s ELSE todo[i]
        BY <3>3, <3>4
      <3>7. Fits(t)
        BY <3>12, <3>3, <3>5, <3>6 DEF Fits
      <3>8. kept' \in SUBSET Copies
        BY <3>1 DEF Shape
      <3>9. todo' = t
        BY <3>1, <3>4
      <3>10. todo' \in Seq(Record) /\ todo' # <<>> /\ Fits(todo)'
        BY <3>5, <3>7, <3>9 DEF Fits
      <3>11. next' \in 1..(Len(todo'[1].writeups) + 1)
        BY <2>3, <3>2, <3>5, <3>9
      <3> QED
        BY <2>1, <3>1, <3>8, <3>10, <3>11 DEF Shape, Fits
    <2> QED
      BY <1>5, <2>4, <2>5, WriteupStep
  <1>6. CASE Prune
    <2>1. /\ pc = "writeups" /\ todo # <<>> /\ todo[1] \in Record
          /\ DOMAIN corpus' = DOMAIN corpus
          /\ ready' = Append(ready, todo[1])
          /\ todo' = Tail(todo)
          /\ pc' \in {"catalog", "open"}
          /\ pc' = "catalog" <=> todo' = <<>>
          /\ UNCHANGED <<inHand, catalog, found>>
      BY <1>6, PruneStep
    <2>2. todo \in Seq(Record) /\ ready \in Seq(Record) /\ Fits(todo) /\ Fits(ready)
      BY DEF Shape
    <2>3. PICK t : t = Tail(todo)
      OBVIOUS
    <2>4. PICK r : r = Append(ready, todo[1])
      OBVIOUS
    <2>5. /\ t \in Seq(Record) /\ Len(t) = Len(todo) - 1 /\ Len(todo) \in Nat /\ Len(todo) >= 1
          /\ \A i \in 1..Len(t) : i + 1 \in 1..Len(todo) /\ t[i] = todo[i + 1]
      BY <2>1, <2>2, <2>3, TailFacts
    <2>6. /\ r \in Seq(Record) /\ Len(r) = Len(ready) + 1 /\ Len(ready) \in Nat
          /\ \A i \in 1..Len(ready) : r[i] = ready[i]
          /\ r[Len(ready) + 1] = todo[1]
          /\ \A i \in 1..Len(r) : i \in 1..Len(ready) \/ i = Len(ready) + 1
      BY <2>1, <2>2, <2>4, AppendFacts
    <2>7. Fits(t)
      BY <2>2, <2>5 DEF Fits
    <2>8. Fits(r)
      <3>1. Fit(todo[1])
        BY <2>2, <2>5 DEF Fits
      <3> QED
        BY <3>1, <2>2, <2>6 DEF Fits
    <2>9. todo' = t /\ ready' = r
      BY <2>1, <2>3, <2>4
    <2> QED
      BY <2>1, <2>5, <2>6, <2>7, <2>8, <2>9 DEF Shape, Fits, inHand
  <1>7. CASE EmptyShard
    BY <1>0, <1>7 DEF EmptyShard, Shape, Fits, inHand
  <1>8. CASE WriteRecord
    <2>1. /\ pc = "write" /\ ready # <<>>
          /\ catalog' = Append(catalog, Head(ready))
          /\ ready' = Tail(ready)
          /\ UNCHANGED <<pc, todo, inHand, corpus, found>>
      BY <1>8 DEF WriteRecord
    <2>2. catalog \in Seq(Record) /\ ready \in Seq(Record) /\ Fits(catalog) /\ Fits(ready)
      BY DEF Shape
    <2>3. PICK t : t = Tail(ready)
      OBVIOUS
    <2>4. PICK c : c = Append(catalog, Head(ready))
      OBVIOUS
    <2>5. /\ t \in Seq(Record) /\ Len(t) = Len(ready) - 1 /\ Len(ready) \in Nat /\ Len(ready) >= 1
          /\ \A i \in 1..Len(t) : i + 1 \in 1..Len(ready) /\ t[i] = ready[i + 1]
          /\ ready[1] \in Record /\ Head(ready) = ready[1]
      BY <2>1, <2>2, <2>3, TailFacts
    <2>6. /\ c \in Seq(Record) /\ Len(c) = Len(catalog) + 1 /\ Len(catalog) \in Nat
          /\ \A i \in 1..Len(catalog) : c[i] = catalog[i]
          /\ c[Len(catalog) + 1] = ready[1]
          /\ \A i \in 1..Len(c) : i \in 1..Len(catalog) \/ i = Len(catalog) + 1
      BY <2>2, <2>4, <2>5, AppendFacts
    <2>7. Fits(t)
      BY <2>2, <2>5 DEF Fits
    <2>8. Fits(c)
      <3>1. Fit(ready[1])
        BY <2>2, <2>5 DEF Fits
      <3> QED
        BY <3>1, <2>2, <2>6 DEF Fits
    <2>9. ready' = t /\ catalog' = c
      BY <2>1, <2>3, <2>4
    <2> QED
      BY <2>1, <2>5, <2>6, <2>7, <2>8, <2>9 DEF Shape, Fits, inHand
  <1>9. CASE CloseShard
    BY <1>9 DEF CloseShard, Shape, Fits, inHand
  <1>10. CASE Crash
    BY <1>0, <1>10 DEF Crash, Shape, Fits, inHand
  <1>11. CASE Over
    BY <1>11 DEF Over, vars, Shape, Fits
  <1>12. CASE UNCHANGED vars
    BY <1>12 DEF vars, Shape, Fits
  <1> QED
    BY <1>1, <1>2, <1>3, <1>4, <1>5, <1>6, <1>7, <1>8, <1>9, <1>10, <1>11, <1>12 DEF Next

(* The type invariant of Ingest, and that the index of the writeup to come is
   one of the record in hand: no counter leaks into the next challenge, whatever
   crashed before. *)
THEOREM TypeCorrect == Spec => []TypeOK
  <1>1. Shape => TypeOK
    <2> SUFFICES ASSUME Shape
                 PROVE  TypeOK
      OBVIOUS
    <2>1. \A f \in kept : f[1] = "writeups"
      <3>1. kept \in SUBSET Copies
        BY DEF Shape
      <3> QED
        BY <3>1 DEF Copies
    <2>2. ASSUME NEW s \in Seq(Record), Fits(s), NEW r \in ToSet(s)
          PROVE  r.at \in Places /\ Len(r.writeups) <= Len(HardCopyStem)
      <3>1. PICK i \in 1..Len(s) : r = s[i]
        BY <2>2 DEF ToSet
      <3>2. r \in Record /\ Len(r.writeups) <= Len(HardCopyStem)
        BY <2>2, <3>1 DEF Fits, Fit
      <3> QED
        BY <3>2 DEF Record
    <2>3. /\ \A r \in ToSet(todo) : r.at \in Places /\ Len(r.writeups) <= Len(HardCopyStem)
          /\ \A r \in ToSet(ready) : r.at \in Places /\ Len(r.writeups) <= Len(HardCopyStem)
          /\ \A r \in ToSet(catalog) : r.at \in Places /\ Len(r.writeups) <= Len(HardCopyStem)
      <3>1. /\ todo \in Seq(Record) /\ ready \in Seq(Record) /\ catalog \in Seq(Record)
            /\ Fits(todo) /\ Fits(ready) /\ Fits(catalog)
        BY DEF Shape
      <3> QED
        BY <3>1, <2>2
    <2>4. /\ pc \in {"idle", "open", "copy", "writeups", "catalog", "write", "done"}
          /\ pc \in {"open", "copy", "writeups"} => todo # <<>>
          /\ pc \in {"catalog", "write"} => todo = <<>>
          /\ pc \in {"copy", "writeups"} => next \in 1..(Len(todo[1].writeups) + 1)
          /\ DOMAIN corpus = Places
      BY DEF Shape
    <2> QED
      BY <2>1, <2>3, <2>4 DEF TypeOK
  <1> QED
    BY <1>1, ShapeInit, ShapeStep, PTL DEF Spec

-----------------------------------------------------------------------------
(* What a run makes of what it found *)

Written == IF pc \in {"write", "done"} THEN catalog ELSE <<>>
All == (Written \o ready) \o todo

LEMMA ConcatFacts ==
  ASSUME NEW s \in Seq(Record), NEW t \in Seq(Record), NEW u, u = s \o t
  PROVE  /\ u \in Seq(Record) /\ Len(u) = Len(s) + Len(t)
         /\ Len(s) \in Nat /\ Len(t) \in Nat
         /\ \A i \in 1..Len(s) : u[i] = s[i]
         /\ \A i \in 1..Len(t) : Len(s) + i \in 1..Len(u) /\ u[Len(s) + i] = t[i]
         /\ \A k \in 1..Len(u) :
              k \in 1..Len(s) \/ (k - Len(s) \in 1..Len(t) /\ u[k] = t[k - Len(s)])
  <1>1. /\ u \in Seq(Record) /\ Len(u) = Len(s) + Len(t)
        /\ Len(s) \in Nat /\ Len(t) \in Nat
    OBVIOUS
  <1>2. \A k \in 1..Len(u) : u[k] = IF k <= Len(s) THEN s[k] ELSE t[k - Len(s)]
    OBVIOUS
  <1>3. \A i \in 1..Len(s) : u[i] = s[i]
    BY <1>1, <1>2
  <1>4. \A i \in 1..Len(t) : Len(s) + i \in 1..Len(u) /\ u[Len(s) + i] = t[i]
    <2> SUFFICES ASSUME NEW i \in 1..Len(t)
                 PROVE  Len(s) + i \in 1..Len(u) /\ u[Len(s) + i] = t[i]
      OBVIOUS
    <2>1. PICK k \in Nat : k = Len(s) + i
      BY <1>1
    <2>2. k \in 1..Len(u) /\ ~(k <= Len(s)) /\ k - Len(s) = i
      BY <2>1, <1>1
    <2> QED
      BY <2>1, <2>2, <1>2
  <1>5. \A k \in 1..Len(u) :
          k \in 1..Len(s) \/ (k - Len(s) \in 1..Len(t) /\ u[k] = t[k - Len(s)])
    BY <1>1, <1>2
  <1> QED
    BY <1>1, <1>3, <1>4, <1>5

(* Two sequences with the same elements at the same places are equal. *)
LEMMA SameSequence ==
  ASSUME NEW s \in Seq(Record), NEW t \in Seq(Record), Len(s) = Len(t),
         \A i \in 1..Len(s) : s[i] = t[i]
  PROVE  s = t
  OBVIOUS

(* The first element moves from one sequence to the other. *)
LEMMA MoveHead ==
  ASSUME NEW s \in Seq(Record), NEW t \in Seq(Record), t # <<>>
  PROVE  Append(s, t[1]) \o Tail(t) = s \o t
  <1>1. PICK tl : tl = Tail(t)
    OBVIOUS
  <1>2. PICK a : a = Append(s, t[1])
    OBVIOUS
  <1>3. /\ tl \in Seq(Record) /\ Len(tl) = Len(t) - 1 /\ Len(t) \in Nat /\ Len(t) >= 1
        /\ \A i \in 1..Len(tl) : i + 1 \in 1..Len(t) /\ tl[i] = t[i + 1]
        /\ t[1] \in Record
    BY <1>1, TailFacts
  <1>4. /\ a \in Seq(Record) /\ Len(a) = Len(s) + 1 /\ Len(s) \in Nat
        /\ \A i \in 1..Len(s) : a[i] = s[i]
        /\ a[Len(s) + 1] = t[1]
        /\ \A i \in 1..Len(a) : i \in 1..Len(s) \/ i = Len(s) + 1
    BY <1>2, <1>3, AppendFacts
  <1>5. PICK u : u = s \o t
    OBVIOUS
  <1>11. PICK v : v = a \o tl
    OBVIOUS
  <1>6. /\ u \in Seq(Record) /\ Len(u) = Len(s) + Len(t)
        /\ \A i \in 1..Len(s) : u[i] = s[i]
        /\ \A i \in 1..Len(t) : u[Len(s) + i] = t[i]
        /\ \A k \in 1..Len(u) :
             k \in 1..Len(s) \/ (k - Len(s) \in 1..Len(t) /\ u[k] = t[k - Len(s)])
    BY <1>5, ConcatFacts
  <1>7. /\ v \in Seq(Record) /\ Len(v) = Len(a) + Len(tl)
        /\ \A i \in 1..Len(a) : v[i] = a[i]
        /\ \A k \in 1..Len(v) :
             k \in 1..Len(a) \/ (k - Len(a) \in 1..Len(tl) /\ v[k] = tl[k - Len(a)])
    <2>1. a \in Seq(Record) /\ tl \in Seq(Record)
      BY <1>3, <1>4
    <2> QED
      BY <2>1, <1>11, ConcatFacts
  <1>8. Len(u) = Len(v) /\ Len(u) \in Nat
    BY <1>3, <1>4, <1>6, <1>7
  <1>9. ASSUME NEW k \in 1..Len(u)
        PROVE  u[k] = v[k]
    <2>0. k \in Int
      BY <1>8
    <2>1. CASE k \in 1..Len(s)
      <3>1. k \in 1..Len(a)
        BY <2>1, <1>4
      <3> QED
        BY <2>1, <3>1, <1>4, <1>6, <1>7
    <2>2. CASE k = Len(s) + 1
      <3>1. k \in 1..Len(a) /\ 1 \in 1..Len(t)
        BY <2>2, <1>3, <1>4
      <3>2. v[k] = t[1]
        BY <3>1, <2>2, <1>4, <1>7
      <3>3. u[Len(s) + 1] = t[1]
        BY <3>1, <1>6
      <3> QED
        BY <3>2, <3>3, <2>2
    <2>3. CASE k \notin 1..Len(s) /\ k # Len(s) + 1
      <3>1. k - Len(s) \in 1..Len(t) /\ u[k] = t[k - Len(s)]
        BY <2>3, <1>6
      <3>2. k \notin 1..Len(a) /\ k \in 1..Len(v)
        BY <2>3, <1>4, <1>8
      <3>3. k - Len(a) \in 1..Len(tl) /\ v[k] = tl[k - Len(a)]
        BY <3>2, <1>7
      <3>4. PICK j \in Nat : j = k - Len(a) /\ j \in 1..Len(tl)
        BY <3>3, <1>3
      <3>5. v[k] = t[j + 1]
        BY <3>3, <3>4, <1>3
      <3>6. j + 1 = k - Len(s)
        BY <3>4, <1>4, <2>0
      <3> QED
        BY <3>1, <3>5, <3>6
    <2> QED
      BY <2>1, <2>2, <2>3
  <1>10. u = v
    BY <1>6, <1>7, <1>8, <1>9, SameSequence
  <1> QED
    BY <1>1, <1>2, <1>5, <1>10, <1>11

(* Replacing records by ones that have more keeps them complete. *)
LEMMA CompleteGrows ==
  ASSUME NEW R, NEW S, NEW f, Complete(R, f), Len(S) = Len(R),
         \A k \in 1..Len(R) : /\ S[k].sources = R[k].sources
                              /\ R[k].files \subseteq S[k].files
                              /\ Urls(R[k].writeups) \subseteq Urls(S[k].writeups)
  PROVE  Complete(S, f)
  <1> SUFFICES ASSUME NEW i \in 1..Len(f)
               PROVE  \E k \in 1..Len(S) :
                        /\ Carries(S[k], f[i])
                        /\ \A l \in 1..Len(S) : f[i].name \in S[l].sources => l = k
    BY DEF Complete
  <1>1. PICK k \in 1..Len(R) :
          /\ Carries(R[k], f[i])
          /\ \A l \in 1..Len(R) : f[i].name \in R[l].sources => l = k
    BY DEF Complete
  <1>2. k \in 1..Len(S) /\ Carries(S[k], f[i])
    BY <1>1 DEF Carries
  <1>3. \A l \in 1..Len(S) : f[i].name \in S[l].sources => l = k
    BY <1>1
  <1> QED
    BY <1>2, <1>3

NothingLost == pc # "idle" => found \in Finds /\ Complete(All, found)

(* What the steps do to the records of a run, written or not. *)
LEMMA AllKept ==
  ASSUME Shape, [Next]_vars, pc # "idle", pc' # "idle", ~Discover, ~MaterializeWriteup
  PROVE  All' = All /\ found' = found
  <1>0. todo \in Seq(Record) /\ ready \in Seq(Record) /\ catalog \in Seq(Record)
    BY DEF Shape
  <1>1. CASE OpenChallenge \/ Copying \/ SourcesCopied
    <2>1. /\ UNCHANGED <<todo, ready, catalog, found>>
          /\ pc \notin {"write", "done"} /\ pc' \notin {"write", "done"}
      BY <1>1 DEF OpenChallenge, Copying, CopySource, SkipSource, SourcesCopied
    <2> QED
      BY <2>1 DEF All, Written
  <1>2. CASE Prune
    <2>1. /\ pc = "writeups" /\ todo # <<>> /\ todo[1] \in Record
          /\ ready' = Append(ready, todo[1])
          /\ todo' = Tail(todo)
          /\ pc' \in {"catalog", "open"}
          /\ UNCHANGED <<catalog, found>>
      BY <1>2, PruneStep
    <2>2. PICK a, b : a = ready /\ b = todo
      OBVIOUS
    <2>3. PICK a1 : a1 = Append(a, b[1])
      OBVIOUS
    <2>4. PICK b1 : b1 = Tail(b)
      OBVIOUS
    <2>5. a \in Seq(Record) /\ b \in Seq(Record) /\ b # <<>>
      BY <2>1, <2>2, <1>0
    <2>6. a1 \o b1 = a \o b
      BY <2>3, <2>4, <2>5, MoveHead
    <2>7. <<>> \o a = a /\ <<>> \o a1 = a1
      <3>1. b[1] \in Record
        BY <2>1, <2>2
      <3>2. a1 \in Seq(Record)
        BY <3>1, <2>3, <2>5
      <3> QED
        BY <3>2, <2>5, ConcatEmptySeq
    <2>8. All = (<<>> \o a) \o b
      BY <2>1, <2>2 DEF All, Written
    <2>9. All' = (<<>> \o a1) \o b1
      BY <2>1, <2>2, <2>3, <2>4 DEF All, Written
    <2> QED
      BY <2>1, <2>6, <2>7, <2>8, <2>9
  <1>3. CASE EmptyShard
    <2>1. /\ pc = "catalog" /\ pc' = "write" /\ catalog' = <<>>
          /\ UNCHANGED <<todo, ready, found>>
      BY <1>3 DEF EmptyShard
    <2> QED
      BY <2>1 DEF All, Written
  <1>4. CASE WriteRecord
    <2>1. /\ pc = "write" /\ ready # <<>> /\ pc' = pc
          /\ catalog' = Append(catalog, ready[1])
          /\ ready' = Tail(ready)
          /\ UNCHANGED <<todo, found>>
      BY <1>4, <1>0 DEF WriteRecord
    <2>2. PICK a, b : a = catalog /\ b = ready
      OBVIOUS
    <2>3. a \in Seq(Record) /\ b \in Seq(Record) /\ b # <<>>
      BY <2>1, <2>2, <1>0
    <2>4. Append(a, b[1]) \o Tail(b) = a \o b
      BY <2>3, MoveHead
    <2>5. All = (a \o b) \o todo
      BY <2>1, <2>2 DEF All, Written
    <2>6. All' = (Append(a, b[1]) \o Tail(b)) \o todo
      BY <2>1, <2>2 DEF All, Written
    <2> QED
      BY <2>1, <2>4, <2>5, <2>6
  <1>5. CASE CloseShard
    <2>1. /\ pc = "write" /\ pc' = "done"
          /\ UNCHANGED <<catalog, todo, ready, found>>
      BY <1>5 DEF CloseShard
    <2> QED
      BY <2>1 DEF All, Written
  <1>6. CASE Crash
    BY <1>6 DEF Crash
  <1>7. CASE Over \/ UNCHANGED vars
    BY <1>7 DEF Over, vars, All, Written
  <1> QED
    BY <1>1, <1>2, <1>3, <1>4, <1>5, <1>6, <1>7 DEF Next

(* Keeping a hard copy takes nothing from the record in hand. *)
LEMMA AllGrows ==
  ASSUME Shape, MaterializeWriteup, Complete(All, found)
  PROVE  Complete(All', found') /\ found' = found
  <1>1. /\ todo # <<>> /\ todo[1] \in Record /\ pc = "writeups" /\ pc' = "writeups"
        /\ UNCHANGED <<ready, catalog, found>>
    BY WriteupStep
  <1>2. CASE UNCHANGED <<corpus, kept, todo>>
    BY <1>1, <1>2 DEF All, Written
  <1>3. ASSUME NEW s \in Record, NEW copy \in Copies, Gains(todo[1], s, next, copy),
               todo' = [todo EXCEPT ![1] = s]
        PROVE  Complete(All', found')
    <2>0. todo \in Seq(Record) /\ ready \in Seq(Record)
      BY DEF Shape
    <2>1. PICK a : a = ready
      OBVIOUS
    <2>2. PICK t : t = todo
      OBVIOUS
    <2>3. PICK v : v = [t EXCEPT ![1] = s]
      OBVIOUS
    <2>4. /\ a \in Seq(Record) /\ t \in Seq(Record) /\ v \in Seq(Record) /\ Len(v) = Len(t)
          /\ Len(t) \in Nat /\ Len(t) >= 1
          /\ \A i \in 1..Len(t) : v[i] = IF i = 1 THEN s ELSE t[i]
      BY <1>1, <2>0, <2>1, <2>2, <2>3
    <2>5. PICK e : e = <<>> \o a
      OBVIOUS
    <2>6. e = a /\ e \in Seq(Record)
      BY <2>4, <2>5, ConcatEmptySeq
    <2>7. PICK x : x = e \o t
      OBVIOUS
    <2>8. PICK y : y = e \o v
      OBVIOUS
    <2>9. All = x /\ All' = y
      <3>1. All = (<<>> \o a) \o t
        BY <1>1, <2>1, <2>2 DEF All, Written
      <3>2. All' = (<<>> \o a) \o v
        BY <1>1, <1>3, <2>1, <2>2, <2>3 DEF All, Written
      <3> QED
        BY <3>1, <3>2, <2>5, <2>7, <2>8
    <2>10. /\ Len(x) = Len(e) + Len(t) /\ Len(e) \in Nat
           /\ \A i \in 1..Len(e) : x[i] = e[i]
           /\ \A i \in 1..Len(t) : x[Len(e) + i] = t[i]
           /\ \A k \in 1..Len(x) : k \in 1..Len(e) \/ (k - Len(e) \in 1..Len(t) /\ x[k] = t[k - Len(e)])
      BY <2>4, <2>6, <2>7, ConcatFacts
    <2>11. /\ Len(y) = Len(e) + Len(v)
           /\ \A i \in 1..Len(e) : y[i] = e[i]
           /\ \A k \in 1..Len(y) : k \in 1..Len(e) \/ (k - Len(e) \in 1..Len(v) /\ y[k] = v[k - Len(e)])
      <3>1. e \in Seq(Record) /\ v \in Seq(Record)
        BY <2>4, <2>6
      <3> QED
        BY <3>1, <2>8, ConcatFacts
    <2>12. /\ s.sources = t[1].sources /\ t[1].files \subseteq s.files
           /\ Urls(t[1].writeups) \subseteq Urls(s.writeups)
      <3>1. /\ s.sources = t[1].sources /\ t[1].files \subseteq s.files
            /\ DOMAIN s.writeups = DOMAIN t[1].writeups
            /\ \A k \in DOMAIN t[1].writeups : s.writeups[k].url = t[1].writeups[k].url
        BY <1>3, <2>2 DEF Gains
      <3>2. Urls(t[1].writeups) \subseteq Urls(s.writeups)
        BY <3>1 DEF Urls, ToSet
      <3> QED
        BY <3>1, <3>2
    <2>13. ASSUME NEW k \in 1..Len(x)
           PROVE  /\ y[k].sources = x[k].sources
                  /\ x[k].files \subseteq y[k].files
                  /\ Urls(x[k].writeups) \subseteq Urls(y[k].writeups)
      <3>0. k \in 1..Len(y)
        BY <2>4, <2>10, <2>11
      <3>1. CASE k \in 1..Len(e)
        <4>1. x[k] = y[k]
          BY <3>1, <2>10, <2>11
        <4> QED
          BY <4>1
      <3>2. CASE k \notin 1..Len(e)
        <4>1. /\ k - Len(e) \in 1..Len(t) /\ x[k] = t[k - Len(e)]
              /\ y[k] = v[k - Len(e)]
          BY <3>0, <3>2, <2>10, <2>11
        <4>2. PICK j : j = k - Len(e)
          OBVIOUS
        <4>3. j \in 1..Len(t) /\ x[k] = t[j] /\ y[k] = IF j = 1 THEN s ELSE t[j]
          BY <4>1, <4>2, <2>4
        <4>4. CASE j = 1
          BY <4>3, <4>4, <2>12
        <4>5. CASE j # 1
          <5>1. x[k] = y[k]
            BY <4>3, <4>5
          <5> QED
            BY <5>1
        <4> QED
          BY <4>4, <4>5
      <3> QED
        BY <3>1, <3>2
    <2>14. PICK f : f = found
      OBVIOUS
    <2>15. Complete(x, f) /\ Len(y) = Len(x)
      BY <2>4, <2>9, <2>10, <2>11, <2>14
    <2>16. Complete(y, f)
      BY <2>13, <2>15, CompleteGrows
    <2> QED
      BY <2>9, <2>14, <2>16, <1>1
  <1>4. \/ UNCHANGED <<corpus, kept, todo>>
        \/ \E s \in Record, copy \in Copies :
             Gains(todo[1], s, next, copy) /\ todo' = [todo EXCEPT ![1] = s]
    BY WriteupStep
  <1> QED
    BY <1>1, <1>2, <1>3, <1>4

LEMMA LostStep == Shape /\ NothingLost /\ [Next]_vars => NothingLost'
  <1> SUFFICES ASSUME Shape, NothingLost, [Next]_vars, pc' # "idle"
               PROVE  found' \in Finds /\ Complete(All', found')
    BY DEF NothingLost
  <1>1. CASE Discover
    <2>1. /\ todo' \in Seq(Record) /\ found' \in Finds
          /\ Complete(todo', found')
          /\ ready' = <<>>
          /\ pc' = IF todo' = <<>> THEN "catalog" ELSE "open"
      BY <1>1, DiscoverStep
    <2>2. PICK t : t = todo'
      OBVIOUS
    <2>3. All' = (<<>> \o <<>>) \o t
      BY <2>1, <2>2 DEF All, Written
    <2>4. <<>> \o <<>> = <<>> /\ <<>> \o t = t
      <3>1. <<>> \in Seq(Record) /\ t \in Seq(Record)
        BY <2>1, <2>2
      <3> QED
        BY <3>1, ConcatEmptySeq
    <2> QED
      BY <2>1, <2>2, <2>3, <2>4
  <1>2. CASE pc = "idle" /\ ~Discover
    <2>1. ~OpenChallenge /\ ~Copying /\ ~SourcesCopied /\ ~MaterializeWriteup /\ ~Prune
      BY <1>2 DEF OpenChallenge, Copying, SourcesCopied, MaterializeWriteup, Prune
    <2>2. ~EmptyShard /\ ~WriteRecord /\ ~CloseShard /\ ~Crash
      BY <1>2 DEF EmptyShard, WriteRecord, CloseShard, Crash
    <2>3. ~Over /\ ~UNCHANGED vars
      BY <1>2 DEF Over, vars
    <2> QED
      BY <1>2, <2>1, <2>2, <2>3 DEF Next
  <1>3. CASE pc # "idle" /\ MaterializeWriteup
    BY <1>3, AllGrows DEF NothingLost
  <1>4. CASE pc # "idle" /\ ~Discover /\ ~MaterializeWriteup
    BY <1>4, AllKept DEF NothingLost
  <1> QED
    BY <1>1, <1>2, <1>3, <1>4

(* Deduplication and everything after it lose nothing: when a run is through,
   each challenge it found is a source of exactly one record of the shard, which
   has its source files and all its writeups. *)
THEOREM DedupKeepsAll == Spec => []NothingDropped
  <1>1. Init => NothingLost
    BY DEF Init, NothingLost
  <1>2. Shape /\ NothingLost => NothingDropped
    <2> SUFFICES ASSUME Shape, NothingLost, pc = "done", NEW c \in ToSet(found)
                 PROVE  \E r \in ToSet(catalog) :
                          /\ c.name \in r.sources
                          /\ \A s \in ToSet(catalog) : c.name \in s.sources => s = r
                          /\ SourceFiles(Normalized(c)) \subseteq r.files
                          /\ Urls(c.writeups) \subseteq Urls(r.writeups)
      BY DEF NothingDropped
    <2>1. found \in Finds /\ Complete(All, found)
      BY DEF NothingLost
    <2>2. All = catalog
      <3>1. PICK a : a = catalog
        OBVIOUS
      <3>2. a \in Seq(Record) /\ ready = <<>> /\ todo = <<>>
        BY <3>1 DEF Shape
      <3>3. a \o <<>> = a
        BY <3>2, ConcatEmptySeq
      <3> QED
        BY <3>1, <3>2, <3>3 DEF All, Written
    <2>3. PICK i \in 1..Len(found) : c = found[i]
      <3>1. found \in Seq(ToSet(found))
        BY <2>1, IngestAssumption
      <3>2. DOMAIN found = 1..Len(found)
        BY <3>1
      <3> QED
        BY <3>2 DEF ToSet
    <2>4. PICK k \in 1..Len(catalog) :
            /\ Carries(catalog[k], c)
            /\ \A l \in 1..Len(catalog) : c.name \in catalog[l].sources => l = k
      BY <2>1, <2>2, <2>3 DEF Complete
    <2>5. \A s : s \in ToSet(catalog) <=> \E l \in 1..Len(catalog) : s = catalog[l]
      <3>1. catalog \in Seq(Record)
        BY DEF Shape
      <3>2. DOMAIN catalog = 1..Len(catalog)
        BY <3>1
      <3> QED
        BY <3>2 DEF ToSet
    <2>6. PICK r : r = catalog[k]
      OBVIOUS
    <2>7. r \in ToSet(catalog) /\ Carries(r, c)
      BY <2>4, <2>5, <2>6
    <2>8. \A s \in ToSet(catalog) : c.name \in s.sources => s = r
      BY <2>4, <2>5, <2>6
    <2> QED
      BY <2>7, <2>8 DEF Carries
  <1>3. (Shape /\ NothingLost) /\ [Next]_vars => (Shape /\ NothingLost)'
    BY ShapeStep, LostStep
  <1> QED
    BY <1>1, <1>2, <1>3, ShapeInit, PTL DEF Spec

-----------------------------------------------------------------------------
(* The source files of a re-ingest *)

(* A challenge of which nothing is named like the directory of its hard copies. *)
NoOwnWriteups == \A c \in Challenges : \A f \in DOMAIN c.tree : f[1] # "writeups"

Placed(c, missing, r, files) == \A f \in files : f \in DOMAIN c[r.at] \/ <<r.at, f>> \in missing

SourcesPlaced ==
    /\ \A i \in 1..Len(catalog) : Placed(corpus, skipped, catalog[i], DOMAIN catalog[i].tree)
    /\ \A i \in 1..Len(ready) : Placed(corpus, skipped, ready[i], DOMAIN ready[i].tree)
    /\ pc \in {"copy", "writeups"} => Placed(corpus, skipped, todo[1], DOMAIN todo[1].tree \ uncopied)
    /\ pc = "writeups" => uncopied = {}

(* No step takes a source file away, or forgets that it could not be copied. *)
LEMMA StaysPlaced ==
  ASSUME NoOwnWriteups, Shape, [Next]_vars, NEW r \in Record,
         NEW files \in SUBSET (DOMAIN r.tree), Placed(corpus, skipped, r, files)
  PROVE  Placed(corpus', skipped', r, files)
  <1> SUFFICES ASSUME NEW f \in files
               PROVE  f \in DOMAIN corpus'[r.at] \/ <<r.at, f>> \in skipped'
    BY DEF Placed
  <1>1. f \in DOMAIN corpus[r.at] \/ <<r.at, f>> \in skipped
    BY DEF Placed
  <1>2. f[1] # "writeups" /\ r.at \in DOMAIN corpus
    <2>1. r.tree \in {c.tree : c \in Challenges} /\ r.at \in Places
      BY DEF Record
    <2> QED
      BY <2>1 DEF NoOwnWriteups, Shape
  <1>3. CASE OpenChallenge
    BY <1>1, <1>2, <1>3 DEF OpenChallenge, MadeDir
  <1>4. CASE Copying
    <2>1. PICK g \in uncopied : CopySource(g) \/ SkipSource(g)
      BY <1>4 DEF Copying
    <2>2. CASE SkipSource(g)
      BY <2>2, <1>1 DEF SkipSource
    <2>3. CASE CopySource(g)
      <3>1. PICK h : h = here
        OBVIOUS
      <3>2. /\ corpus' = [corpus EXCEPT ![h] = With(corpus[h], g, todo[1].tree[g])]
            /\ skipped' = skipped \ {<<h, g>>}
        BY <2>3, <3>1 DEF CopySource
      <3>3. CASE r.at = h
        <4>1. corpus'[h] = With(corpus[h], g, todo[1].tree[g])
          BY <3>2, <3>3, <1>2
        <4>2. DOMAIN corpus'[h] = DOMAIN corpus[h] \cup {g}
          BY <4>1 DEF With
        <4> QED
          BY <3>2, <3>3, <4>2, <1>1
      <3>4. CASE r.at # h
        <4>1. <<r.at, f>> # <<h, g>>
          BY <3>4
        <4> QED
          BY <3>2, <3>4, <4>1, <1>1, <1>2
      <3> QED
        BY <3>3, <3>4
    <2> QED
      BY <2>1, <2>2, <2>3
  <1>5. CASE MaterializeWriteup
    <2>1. /\ skipped' = skipped
          /\ \/ corpus' = corpus
             \/ \E copy \in Copies : \E content :
                  corpus' = [corpus EXCEPT ![todo[1].at] = With(corpus[todo[1].at], copy, content)]
      BY <1>5, WriteupStep
    <2>2. CASE corpus' = corpus
      BY <2>1, <2>2, <1>1
    <2>3. ASSUME NEW h, NEW copy, NEW content, corpus' = [corpus EXCEPT ![h] = With(corpus[h], copy, content)]
          PROVE  f \in DOMAIN corpus'[r.at] \/ <<r.at, f>> \in skipped'
      <3>1. CASE r.at = h
        <4>1. corpus'[h] = With(corpus[h], copy, content)
          BY <2>3, <3>1, <1>2
        <4>2. DOMAIN corpus'[h] = DOMAIN corpus[h] \cup {copy}
          BY <4>1 DEF With
        <4> QED
          BY <2>1, <3>1, <4>2, <1>1
      <3>2. CASE r.at # h
        BY <2>1, <2>3, <3>2, <1>1, <1>2
      <3> QED
        BY <3>1, <3>2
    <2> QED
      BY <2>1, <2>2, <2>3
  <1>6. CASE Prune
    <2>1. PICK h : h = todo[1].at
      OBVIOUS
    <2>2. /\ skipped' = skipped
          /\ corpus' = [corpus EXCEPT ![h] = [g \in DOMAIN corpus[h] \ Stale(corpus[h]) |-> corpus[h][g]]]
      BY <1>6, <2>1, PruneStep
    <2>3. CASE r.at = h
      <3>1. DOMAIN corpus'[h] = DOMAIN corpus[h] \ Stale(corpus[h])
        BY <2>2, <2>3, <1>2
      <3>2. f \notin Stale(corpus[h])
        BY <1>2 DEF Stale
      <3> QED
        BY <2>2, <2>3, <3>1, <3>2, <1>1
    <2>4. CASE r.at # h
      BY <2>2, <2>4, <1>1, <1>2
    <2> QED
      BY <2>3, <2>4
  <1>7. CASE Discover \/ SourcesCopied \/ EmptyShard \/ WriteRecord \/ CloseShard \/ Crash
    <2>1. UNCHANGED <<corpus, skipped>>
      BY <1>7 DEF Discover, SourcesCopied, EmptyShard, WriteRecord, CloseShard, Crash
    <2> QED
      BY <2>1, <1>1
  <1>8. CASE Over \/ UNCHANGED vars
    BY <1>8, <1>1 DEF Over, vars
  <1> QED
    BY <1>3, <1>4, <1>5, <1>6, <1>7, <1>8 DEF Next

LEMMA SourcesStep ==
  ASSUME NoOwnWriteups
  PROVE  Shape /\ SourcesPlaced /\ [Next]_vars => SourcesPlaced'
  <1> SUFFICES ASSUME Shape, SourcesPlaced, [Next]_vars
               PROVE  SourcesPlaced'
    OBVIOUS
  <1>0. todo \in Seq(Record) /\ ready \in Seq(Record) /\ catalog \in Seq(Record)
    BY DEF Shape
  <1>1. /\ \A i \in 1..Len(catalog) : catalog[i] \in Record /\ Placed(corpus, skipped, catalog[i], DOMAIN catalog[i].tree)
        /\ \A i \in 1..Len(ready) : ready[i] \in Record /\ Placed(corpus, skipped, ready[i], DOMAIN ready[i].tree)
    <2>1. /\ \A i \in 1..Len(catalog) : catalog[i] \in Record
          /\ \A i \in 1..Len(ready) : ready[i] \in Record
      BY <1>0
    <2> QED
      BY <2>1 DEF SourcesPlaced
  <1>2. ASSUME NEW r \in Record, Placed(corpus, skipped, r, DOMAIN r.tree)
        PROVE  Placed(corpus', skipped', r, DOMAIN r.tree)
    BY <1>2, StaysPlaced
  (* The records of the shard and those to be written to it. *)
  <1>3. \A i \in 1..Len(catalog') : Placed(corpus', skipped', catalog'[i], DOMAIN catalog'[i].tree)
    <2>1. CASE catalog' = catalog
      <3>1. PICK c : c = catalog
        OBVIOUS
      <3>2. \A i \in 1..Len(c) : Placed(corpus', skipped', c[i], DOMAIN c[i].tree)
        BY <3>1, <1>1, <1>2
      <3> QED
        BY <2>1, <3>1, <3>2 DEF Placed
    <2>2. CASE catalog' = <<>>
      BY <2>2 DEF Placed
    <2>3. CASE WriteRecord
      <3>1. PICK c, r : c = catalog /\ r = ready[1]
        OBVIOUS
      <3>2. ready # <<>> /\ catalog' = Append(c, r)
        BY <2>3, <3>1, <1>0 DEF WriteRecord
      <3>3. 1 \in 1..Len(ready) /\ r \in Record /\ Placed(corpus, skipped, r, DOMAIN r.tree)
        <4>1. 1 \in 1..Len(ready)
          BY <3>2, <1>0
        <4> QED
          BY <4>1, <3>1, <1>1
      <3>4. PICK d : d = Append(c, r)
        OBVIOUS
      <3>5. /\ \A i \in 1..Len(c) : d[i] = c[i]
            /\ d[Len(c) + 1] = r
            /\ \A i \in 1..Len(d) : i \in 1..Len(c) \/ i = Len(c) + 1
        <4>1. c \in Seq(Record)
          BY <3>1, <1>0
        <4> QED
          BY <4>1, <3>3, <3>4, AppendFacts
      <3>6. \A i \in 1..Len(c) : Placed(corpus', skipped', c[i], DOMAIN c[i].tree)
        BY <3>1, <1>1, <1>2
      <3>7. Placed(corpus', skipped', r, DOMAIN r.tree)
        BY <3>3, <1>2
      <3>8. \A i \in 1..Len(d) : Placed(corpus', skipped', d[i], DOMAIN d[i].tree)
        BY <3>5, <3>6, <3>7 DEF Placed
      <3> QED
        BY <3>2, <3>4, <3>8 DEF Placed
    <2>4. catalog' = catalog \/ catalog' = <<>> \/ WriteRecord
      BY DEF Next, vars, Discover, OpenChallenge, Copying, CopySource, SkipSource, SourcesCopied,
             MaterializeWriteup, Prune, EmptyShard, CloseShard, Crash, Over
    <2> QED
      BY <2>1, <2>2, <2>3, <2>4
  <1>4. \A i \in 1..Len(ready') : Placed(corpus', skipped', ready'[i], DOMAIN ready'[i].tree)
    <2>0. PICK a : a = ready
      OBVIOUS
    <2>00. a \in Seq(Record) /\ \A i \in 1..Len(a) : Placed(corpus', skipped', a[i], DOMAIN a[i].tree)
      BY <2>0, <1>0, <1>1, <1>2
    <2>1. CASE ready' = ready
      BY <2>0, <2>00, <2>1 DEF Placed
    <2>2. CASE ready' = <<>>
      BY <2>2 DEF Placed
    <2>3. CASE WriteRecord
      <3>1. a # <<>> /\ ready' = Tail(a)
        BY <2>3, <2>0 DEF WriteRecord
      <3>2. PICK d : d = Tail(a)
        OBVIOUS
      <3>3. \A i \in 1..Len(d) : i + 1 \in 1..Len(a) /\ d[i] = a[i + 1]
        BY <2>00, <3>1, <3>2, TailFacts
      <3>4. \A i \in 1..Len(d) : Placed(corpus', skipped', d[i], DOMAIN d[i].tree)
        BY <2>00, <3>3 DEF Placed
      <3> QED
        BY <3>1, <3>2, <3>4 DEF Placed
    <2>4. CASE Prune
      <3>1. PICK r : r = todo[1]
        OBVIOUS
      <3>2. r \in Record /\ ready' = Append(a, r) /\ pc = "writeups"
        BY <2>0, <2>4, <3>1, PruneStep
      <3>3. Placed(corpus', skipped', r, DOMAIN r.tree)
        <4>1. Placed(corpus, skipped, r, DOMAIN r.tree \ uncopied) /\ uncopied = {}
          BY <3>1, <3>2 DEF SourcesPlaced
        <4>2. Placed(corpus, skipped, r, DOMAIN r.tree)
          BY <4>1 DEF Placed
        <4> QED
          BY <4>2, <3>2, <1>2
      <3>4. PICK d : d = Append(a, r)
        OBVIOUS
      <3>5. /\ \A i \in 1..Len(a) : d[i] = a[i]
            /\ d[Len(a) + 1] = r
            /\ \A i \in 1..Len(d) : i \in 1..Len(a) \/ i = Len(a) + 1
        BY <2>00, <3>2, <3>4, AppendFacts
      <3>6. \A i \in 1..Len(d) : Placed(corpus', skipped', d[i], DOMAIN d[i].tree)
        BY <2>00, <3>3, <3>5 DEF Placed
      <3> QED
        BY <3>2, <3>4, <3>6 DEF Placed
    <2>5. ready' = ready \/ ready' = <<>> \/ WriteRecord \/ Prune
      BY DEF Next, vars, Discover, OpenChallenge, Copying, CopySource, SkipSource, SourcesCopied,
             MaterializeWriteup, EmptyShard, CloseShard, Crash, Over
    <2> QED
      BY <2>1, <2>2, <2>3, <2>4, <2>5
  (* The record in hand. *)
  <1>5. pc' \in {"copy", "writeups"} => Placed(corpus', skipped', todo'[1], DOMAIN todo'[1].tree \ uncopied')
    <2> SUFFICES ASSUME pc' \in {"copy", "writeups"}
                 PROVE  Placed(corpus', skipped', todo'[1], DOMAIN todo'[1].tree \ uncopied')
      OBVIOUS
    <2>0. PICK r : r = todo[1]
      OBVIOUS
    <2>00. pc \in {"copy", "writeups"} => r \in Record /\ Placed(corpus, skipped, r, DOMAIN r.tree \ uncopied)
      <3>1. pc \in {"copy", "writeups"} => todo # <<>>
        BY DEF Shape
      <3>2. pc \in {"copy", "writeups"} => r \in Record
        BY <3>1, <1>0, <2>0
      <3> QED
        BY <3>2, <2>0 DEF SourcesPlaced
    <2>000. ASSUME r \in Record, NEW U, Placed(corpus, skipped, r, DOMAIN r.tree \ U)
            PROVE  Placed(corpus', skipped', r, DOMAIN r.tree \ U)
      <3>1. PICK files : files = DOMAIN r.tree \ U
        OBVIOUS
      <3>2. files \in SUBSET (DOMAIN r.tree)
        BY <3>1
      <3>3. Placed(corpus', skipped', r, files)
        BY <2>000, <3>1, <3>2, StaysPlaced
      <3> QED
        BY <3>1, <3>3 DEF Placed
    <2>1. CASE OpenChallenge
      <3>1. uncopied' = DOMAIN r.tree /\ todo'[1] = r
        BY <2>0, <2>1 DEF OpenChallenge
      <3> QED
        BY <3>1 DEF Placed
    <2>2. CASE Copying
      <3>1. pc = "copy" /\ todo'[1] = r
        BY <2>0, <2>2 DEF Copying, CopySource, SkipSource
      <3>2. PICK U : U = uncopied
        OBVIOUS
      <3>3. r \in Record /\ Placed(corpus, skipped, r, DOMAIN r.tree \ U)
        BY <2>00, <3>1, <3>2
      <3>4. Placed(corpus', skipped', r, DOMAIN r.tree \ U)
        BY <3>3, <2>000
      <3>5. PICK f \in uncopied : CopySource(f) \/ SkipSource(f)
        BY <2>2 DEF Copying
      <3>6. uncopied' = U \ {f}
        BY <3>2, <3>5 DEF CopySource, SkipSource
      <3>7. f \in DOMAIN corpus'[r.at] \/ <<r.at, f>> \in skipped'
        <4>1. CASE SkipSource(f)
          BY <2>0, <4>1 DEF SkipSource, here
        <4>2. CASE CopySource(f)
          <5>1. corpus' = [corpus EXCEPT ![r.at] = With(corpus[r.at], f, r.tree[f])]
            BY <2>0, <4>2 DEF CopySource, here
          <5>2. r.at \in DOMAIN corpus
            BY <3>3 DEF Record, Shape
          <5>3. corpus'[r.at] = With(corpus[r.at], f, r.tree[f])
            BY <5>1, <5>2
          <5> QED
            BY <5>3 DEF With
        <4> QED
          BY <3>5, <4>1, <4>2
      <3>8. \A g \in DOMAIN r.tree \ uncopied' : g \in DOMAIN corpus'[r.at] \/ <<r.at, g>> \in skipped'
        BY <3>4, <3>6, <3>7 DEF Placed
      <3> QED
        BY <3>1, <3>8 DEF Placed
    <2>3. CASE MaterializeWriteup
      <3>1. pc = "writeups" /\ uncopied' = uncopied /\ todo # <<>>
        BY <2>3, WriteupStep
      <3>2. PICK U : U = uncopied
        OBVIOUS
      <3>3. r \in Record /\ Placed(corpus, skipped, r, DOMAIN r.tree \ U)
        BY <2>00, <3>1, <3>2
      <3>4. Placed(corpus', skipped', r, DOMAIN r.tree \ U)
        BY <3>3, <2>000
      <3>5. todo'[1].at = r.at /\ todo'[1].tree = r.tree
        <4>1. CASE todo' = todo
          BY <2>0, <4>1
        <4>2. CASE \E s \in Record, copy \in Copies :
                     Gains(todo[1], s, next, copy) /\ todo' = [todo EXCEPT ![1] = s]
          <5>1. PICK s \in Record, copy \in Copies :
                  Gains(r, s, next, copy) /\ todo' = [todo EXCEPT ![1] = s]
            BY <2>0, <4>2
          <5>2. todo'[1] = s
            BY <3>1, <5>1, <1>0
          <5> QED
            BY <5>1, <5>2 DEF Gains
        <4> QED
          BY <2>3, <4>1, <4>2, WriteupStep
      <3> QED
        BY <3>1, <3>2, <3>4, <3>5 DEF Placed
    <2>4. CASE SourcesCopied \/ UNCHANGED vars
      <3>1. pc \in {"copy", "writeups"} /\ UNCHANGED <<todo, uncopied, corpus, skipped>>
        BY <2>4 DEF SourcesCopied, inHand, vars
      <3> QED
        BY <2>0, <2>00, <3>1 DEF Placed
    <2>5. OpenChallenge \/ Copying \/ MaterializeWriteup \/ SourcesCopied \/ UNCHANGED vars
      <3>1. ~Discover /\ ~Prune /\ ~EmptyShard /\ ~WriteRecord
        BY DEF Discover, Prune, EmptyShard, WriteRecord
      <3>2. ~CloseShard /\ ~Crash /\ ~Over
        BY DEF CloseShard, Crash, Over, vars
      <3> QED
        BY <3>1, <3>2 DEF Next
    <2> QED
      BY <2>1, <2>2, <2>3, <2>4, <2>5
  <1>6. pc' = "writeups" => uncopied' = {}
    BY DEF SourcesPlaced, Next, vars, Discover, OpenChallenge, Copying, CopySource, SkipSource,
           SourcesCopied, MaterializeWriteup, Prune, EmptyShard, WriteRecord, CloseShard, Crash,
           Over, inHand
  <1> QED
    BY <1>3, <1>4, <1>5, <1>6 DEF SourcesPlaced

(* At every moment of a re-ingest, and after its death, the source files that the
   shard names are in the corpus, but for those whose last copy failed: if no
   challenge brings files in a writeups/ of its own. *)
THEOREM SourcesStay ==
  ASSUME NoOwnWriteups
  PROVE  Spec => []SourcesStayThere
  <1>1. Init => SourcesPlaced
    BY DEF Init, SourcesPlaced
  <1>2. Shape /\ SourcesPlaced => SourcesStayThere
    <2> SUFFICES ASSUME Shape, SourcesPlaced, NEW r \in ToSet(catalog), NEW f \in DOMAIN r.tree
                 PROVE  f \in DOMAIN corpus[r.at] \/ <<r.at, f>> \in skipped
      BY DEF SourcesStayThere
    <2>1. catalog \in Seq(Record)
      BY DEF Shape
    <2>2. PICK i \in 1..Len(catalog) : r = catalog[i]
      BY <2>1 DEF ToSet
    <2> QED
      BY <2>2 DEF SourcesPlaced, Placed
  <1>3. Shape /\ SourcesPlaced /\ [Next]_vars => (Shape /\ SourcesPlaced)'
    BY ShapeStep, SourcesStep
  <1> QED
    BY <1>1, <1>2, <1>3, ShapeInit, PTL DEF Spec

-----------------------------------------------------------------------------
(* What is on disk of the records that are through *)

Names(r) == {entry[1] : entry \in r.files}
Held(c, missing, r, entry) ==
    \/ <<r.at, entry[1]>> \in missing
    \/ entry[1] \in DOMAIN c[r.at] /\ c[r.at][entry[1]] = entry[2]

(* Its place holds no hard copy it does not list, and every file it lists. *)
Settled(c, missing, r) ==
    /\ \A f \in DOMAIN c[r.at] : f[1] = "writeups" => f \in Names(r)
    /\ NoOwnWriteups => \A entry \in r.files : Held(c, missing, r, entry)

InHand == pc \in {"copy", "writeups"}
Through == Written \o ready
LastIn(records, i) == \A j \in 1..Len(records) : records[j].at = records[i].at => j <= i

(* The record in hand: what was kept of it, and what is still to be copied. *)
Progress ==
    /\ \A i \in 1..Len(todo) : (InHand /\ i = 1) \/ Fresh(todo[i])
    /\ InHand =>
         /\ uncopied \subseteq DOMAIN todo[1].tree
         /\ pc = "writeups" => uncopied = {}
         /\ kept \subseteq Names(todo[1])
         /\ \A f \in kept : \E n \in 1..(next - 1) : f[2] = HardCopyStem[n]
         /\ \A entry \in todo[1].files : entry \in Manifest(todo[1].tree) \/ entry[1] \in kept
         /\ NoOwnWriteups => \A entry \in todo[1].files :
              entry[1] \in uncopied \/ Held(corpus, skipped, todo[1], entry)

(* The last record at each place is settled, but for the place worked at. *)
ThroughSettled ==
    \A i \in 1..Len(Through) :
        LastIn(Through, i) =>
            (InHand /\ Through[i].at = todo[1].at) \/ Settled(corpus, skipped, Through[i])

LEMMA SettledStays ==
  ASSUME NEW c, NEW missing, NEW c2, NEW missing2, NEW r, Settled(c, missing, r),
         c2[r.at] = c[r.at],
         \A f : <<r.at, f>> \in missing => <<r.at, f>> \in missing2
  PROVE  Settled(c2, missing2, r)
  <1>1. \A entry \in r.files : Held(c, missing, r, entry) => Held(c2, missing2, r, entry)
    BY DEF Held
  <1> QED
    BY <1>1 DEF Settled

LEMMA ProgressStep == Shape /\ Progress /\ [Next]_vars => Progress'
  <1> SUFFICES ASSUME Shape, Progress, [Next]_vars
               PROVE  Progress'
    OBVIOUS
  <1>0. /\ todo \in Seq(Record)
        /\ pc \in {"open", "copy", "writeups"} => 1 \in 1..Len(todo) /\ todo[1] \in Record
    <2>1. todo \in Seq(Record) /\ (pc \in {"open", "copy", "writeups"} => todo # <<>>)
      BY DEF Shape
    <2> QED
      BY <2>1
  <1>1. CASE Discover
    <2>1. /\ \A k \in 1..Len(todo') : Fresh(todo'[k])
          /\ pc' \in {"catalog", "open"}
      BY <1>1, DiscoverStep
    <2> QED
      BY <2>1 DEF Progress, InHand
  <1>2. CASE OpenChallenge
    <2>1. /\ pc = "open" /\ pc' = "copy" /\ todo' = todo /\ kept' = {}
          /\ uncopied' = DOMAIN todo[1].tree
      BY <1>2 DEF OpenChallenge
    <2>2. PICK t : t = todo
      OBVIOUS
    <2>3. \A i \in 1..Len(t) : Fresh(t[i])
      BY <2>1, <2>2 DEF Progress, InHand
    <2>4. t[1].files = Manifest(t[1].tree)
      BY <2>3, <1>0, <2>1, <2>2 DEF Fresh
    <2>5. \A entry \in t[1].files : entry[1] \in uncopied'
      BY <2>1, <2>2, <2>4 DEF Manifest
    <2>6. todo' = t
      BY <2>1, <2>2
    <2> QED
      BY <2>1, <2>3, <2>4, <2>5, <2>6 DEF Progress, InHand
  <1>3. CASE Copying
    <2>1. PICK f \in uncopied : CopySource(f) \/ SkipSource(f)
      BY <1>3 DEF Copying
    <2>2. /\ pc = "copy" /\ pc' = "copy" /\ uncopied' = uncopied \ {f}
          /\ UNCHANGED <<todo, kept, next>>
      BY <1>3, <2>1 DEF Copying, CopySource, SkipSource
    <2>3. PICK r : r = todo[1]
      OBVIOUS
    <2>4. /\ r \in Record /\ r.at \in DOMAIN corpus
          /\ f \in DOMAIN r.tree
          /\ \A entry \in r.files : entry \in Manifest(r.tree) \/ entry[1] \in kept
          /\ NoOwnWriteups => \A entry \in r.files :
               entry[1] \in uncopied \/ Held(corpus, skipped, r, entry)
      <3>1. r \in Record
        BY <1>0, <2>2, <2>3
      <3>2. r.at \in DOMAIN corpus
        BY <3>1 DEF Record, Shape
      <3> QED
        BY <3>1, <3>2, <2>2, <2>3 DEF Progress, InHand
    <2>5. ASSUME NoOwnWriteups, NEW entry \in r.files
          PROVE  entry[1] \in uncopied' \/ Held(corpus', skipped', r, entry)
      <3>1. CASE SkipSource(f)
        <4>1. corpus' = corpus /\ skipped' = skipped \cup {<<r.at, f>>}
          BY <3>1, <2>3 DEF SkipSource, here
        <4>2. entry[1] = f \/ entry[1] \in uncopied' \/ Held(corpus, skipped, r, entry)
          BY <2>2, <2>4, <2>5
        <4> QED
          BY <4>1, <4>2 DEF Held
      <3>2. CASE CopySource(f)
        <4>1. /\ corpus' = [corpus EXCEPT ![r.at] = With(corpus[r.at], f, r.tree[f])]
              /\ skipped' = skipped \ {<<r.at, f>>}
          BY <3>2, <2>3 DEF CopySource, here
        <4>2. corpus'[r.at] = With(corpus[r.at], f, r.tree[f])
          BY <4>1, <2>4
        <4>3. /\ DOMAIN corpus'[r.at] = DOMAIN corpus[r.at] \cup {f}
              /\ corpus'[r.at][f] = r.tree[f]
              /\ \A g \in DOMAIN corpus[r.at] : g # f => corpus'[r.at][g] = corpus[r.at][g]
          BY <4>2 DEF With
        <4>4. CASE entry[1] = f
          <5>1. entry[1] \notin kept
            <6>1. f[1] # "writeups"
              <7>1. r.tree \in {c.tree : c \in Challenges}
                BY <2>4 DEF Record
              <7> QED
                BY <7>1, <2>4, <2>5 DEF NoOwnWriteups
            <6>2. kept \in SUBSET Copies
              BY DEF Shape
            <6> QED
              BY <6>1, <6>2, <4>4 DEF Copies
          <5>2. entry \in Manifest(r.tree)
            BY <5>1, <2>4
          <5>3. entry[2] = r.tree[f]
            BY <5>2, <4>4 DEF Manifest
          <5> QED
            BY <5>3, <4>3, <4>4 DEF Held
        <4>5. CASE entry[1] # f
          <5>1. entry[1] \in uncopied' \/ Held(corpus, skipped, r, entry)
            BY <4>5, <2>2, <2>4, <2>5
          <5>2. Held(corpus, skipped, r, entry) => Held(corpus', skipped', r, entry)
            <6>1. <<r.at, entry[1]>> # <<r.at, f>>
              BY <4>5
            <6> QED
              BY <6>1, <4>1, <4>3, <4>5 DEF Held
          <5> QED
            BY <5>1, <5>2
        <4> QED
          BY <4>4, <4>5
      <3> QED
        BY <3>1, <3>2, <2>1
    <2>6. todo'[1] = r /\ todo[1] = r
      BY <2>2, <2>3
    <2>7. NoOwnWriteups => \A entry \in todo'[1].files :
            entry[1] \in uncopied' \/ Held(corpus', skipped', todo'[1], entry)
      BY <2>5, <2>6
    <2> QED
      BY <2>2, <2>7 DEF Progress, InHand
  <1>4. CASE SourcesCopied
    BY <1>4 DEF SourcesCopied, Progress, InHand, inHand
  <1>5. CASE MaterializeWriteup
    <2>1. /\ pc = "writeups" /\ pc' = "writeups"
          /\ todo # <<>> /\ todo[1] \in Record
          /\ next \in 1..Len(todo[1].writeups)
          /\ next' = next + 1
          /\ UNCHANGED <<uncopied, skipped>>
      BY <1>5, WriteupStep
    <2>2. PICK r, n : r = todo[1] /\ n = next
      OBVIOUS
    <2>3. /\ r \in Record /\ r.writeups \in Seq(Writeup) /\ n \in 1..Len(r.writeups)
          /\ r.at \in DOMAIN corpus /\ Len(r.writeups) <= Len(HardCopyStem)
      <3>1. r \in Record /\ n \in 1..Len(r.writeups)
        BY <2>1, <2>2
      <3>2. Fit(r)
        BY <1>0, <2>1, <2>2 DEF Shape, Fits
      <3> QED
        BY <3>1, <3>2 DEF Record, Shape, Fit
    <2>4. /\ uncopied = {}
          /\ kept \subseteq Names(r)
          /\ \A f \in kept : \E k \in 1..(n - 1) : f[2] = HardCopyStem[k]
          /\ \A entry \in r.files : entry \in Manifest(r.tree) \/ entry[1] \in kept
          /\ NoOwnWriteups => \A entry \in r.files :
               entry[1] \in uncopied \/ Held(corpus, skipped, r, entry)
          /\ \A i \in 1..Len(todo) : i = 1 \/ Fresh(todo[i])
      BY <2>1, <2>2 DEF Progress, InHand
    <2>5. \A f \in kept : \E k \in 1..(next' - 1) : f[2] = HardCopyStem[k]
      <3>1. n \in Nat /\ next' = n + 1
        BY <2>1, <2>2, <2>3
      <3> QED
        BY <3>1, <2>4
    <2>6. CASE UNCHANGED <<corpus, kept, todo>>
      BY <2>1, <2>2, <2>4, <2>5, <2>6 DEF Progress, InHand
    <2>7. ASSUME NEW s \in Record, NEW copy \in Copies,
                 copy[1] = "writeups", copy[2] = HardCopyStem[next],
                 Gains(todo[1], s, next, copy),
                 kept' = kept \cup {copy},
                 todo' = [todo EXCEPT ![1] = s],
                 corpus' = [corpus EXCEPT ![todo[1].at] =
                                With(corpus[todo[1].at], copy, todo[1].writeups[next].url)]
          PROVE  Progress'
      <3>1. PICK u : u = r.writeups[n].url
        OBVIOUS
      <3>2. /\ s.at = r.at /\ s.tree = r.tree /\ s.files = r.files \cup {<<copy, u>>}
        BY <2>2, <2>7, <3>1 DEF Gains
      <3>3. corpus'[r.at] = With(corpus[r.at], copy, u)
        BY <2>2, <2>3, <2>7, <3>1
      <3>4. /\ DOMAIN corpus'[r.at] = DOMAIN corpus[r.at] \cup {copy}
            /\ corpus'[r.at][copy] = u
            /\ \A g \in DOMAIN corpus[r.at] : g # copy => corpus'[r.at][g] = corpus[r.at][g]
        BY <3>3 DEF With
      <3>5. copy \notin kept
        <4> SUFFICES ASSUME copy \in kept
                     PROVE  FALSE
          OBVIOUS
        <4>1. PICK k \in 1..(n - 1) : HardCopyStem[n] = HardCopyStem[k]
          BY <2>2, <2>4, <2>7
        <4>2. HardCopyStem \in Seq(STRING)
          BY IngestAssumption
        <4>3. k \in 1..Len(HardCopyStem) /\ n \in 1..Len(HardCopyStem) /\ k # n
          <5>1. Len(HardCopyStem) \in Nat /\ Len(r.writeups) \in Nat
            BY <4>2, <2>3
          <5> QED
            BY <5>1, <2>3
        <4>4. DOMAIN HardCopyStem = 1..Len(HardCopyStem)
          BY <4>2
        <4> QED
          BY <4>1, <4>3, <4>4, IngestAssumption
      <3>6. ASSUME NoOwnWriteups, NEW entry \in s.files
            PROVE  Held(corpus', skipped', s, entry)
        <4>1. CASE entry = <<copy, u>>
          BY <4>1, <3>2, <3>4 DEF Held
        <4>2. CASE entry \in r.files
          <5>1. Held(corpus, skipped, r, entry)
            BY <4>2, <3>6, <2>4
          <5>2. entry[1] # copy
            <6>1. CASE entry[1] \in kept
              BY <6>1, <3>5
            <6>2. CASE entry \in Manifest(r.tree)
              <7>1. entry[1] \in DOMAIN r.tree
                BY <6>2 DEF Manifest
              <7>2. r.tree \in {c.tree : c \in Challenges}
                BY <2>3 DEF Record
              <7>3. entry[1][1] # "writeups"
                BY <7>1, <7>2, <3>6 DEF NoOwnWriteups
              <7> QED
                BY <7>3, <2>7
            <6> QED
              BY <6>1, <6>2, <4>2, <2>4
          <5> QED
            BY <5>1, <5>2, <2>1, <3>2, <3>4 DEF Held
        <4> QED
          BY <4>1, <4>2, <3>2, <3>6
      <3>7. kept' \subseteq Names(s)
        BY <2>4, <2>7, <3>2 DEF Names
      <3>8. \A f \in kept' : \E k \in 1..(next' - 1) : f[2] = HardCopyStem[k]
        <4>1. n \in Nat /\ next' - 1 = n /\ n \in 1..n
          BY <2>1, <2>2, <2>3
        <4> QED
          BY <4>1, <2>2, <2>5, <2>7
      <3>9. \A entry \in s.files : entry \in Manifest(s.tree) \/ entry[1] \in kept'
        BY <2>4, <2>7, <3>2
      <3>10. PICK t : t = todo
        OBVIOUS
      <3>11. PICK v : v = [t EXCEPT ![1] = s]
        OBVIOUS
      <3>12. /\ Len(v) = Len(t) /\ v[1] = s
             /\ \A i \in 1..Len(t) : i # 1 => v[i] = t[i]
        BY <1>0, <2>1, <3>10, <3>11
      <3>13. todo' = v /\ \A i \in 1..Len(v) : i = 1 \/ Fresh(v[i])
        BY <2>4, <2>7, <3>10, <3>11, <3>12
      <3> QED
        BY <2>1, <2>4, <3>6, <3>7, <3>8, <3>9, <3>12, <3>13 DEF Progress, InHand
    <2> QED
      BY <1>5, <2>6, <2>7, WriteupStep
  <1>6. CASE Prune
    <2>1. /\ pc = "writeups" /\ todo # <<>> /\ todo' = Tail(todo) /\ pc' \in {"catalog", "open"}
      BY <1>6, PruneStep
    <2>2. PICK t : t = todo
      OBVIOUS
    <2>3. PICK v : v = Tail(t)
      OBVIOUS
    <2>4. \A i \in 1..Len(v) : i + 1 \in 1..Len(t) /\ v[i] = t[i + 1] /\ i + 1 # 1
      <3>1. t \in Seq(Record) /\ t # <<>>
        BY <1>0, <2>1, <2>2
      <3>2. /\ v \in Seq(Record)
            /\ \A i \in 1..Len(v) : i + 1 \in 1..Len(t) /\ v[i] = t[i + 1]
        BY <3>1, <2>3, TailFacts
      <3> QED
        BY <3>2
    <2>5. \A i \in 1..Len(t) : i = 1 \/ Fresh(t[i])
      BY <2>2 DEF Progress
    <2>6. todo' = v /\ \A i \in 1..Len(v) : Fresh(v[i])
      BY <2>1, <2>2, <2>3, <2>4, <2>5
    <2> QED
      BY <2>1, <2>6 DEF Progress, InHand
  <1>7. CASE EmptyShard \/ WriteRecord \/ CloseShard
    <2>1. todo' = todo /\ ~InHand /\ ~InHand'
      BY <1>7 DEF EmptyShard, WriteRecord, CloseShard, InHand
    <2> QED
      BY <2>1 DEF Progress
  <1>8. CASE Crash
    BY <1>8 DEF Crash, Progress, InHand
  <1>9. CASE Over \/ UNCHANGED vars
    BY <1>9 DEF Over, vars, Progress, InHand
  <1> QED
    BY <1>1, <1>2, <1>3, <1>4, <1>5, <1>6, <1>7, <1>8, <1>9 DEF Next

LEMMA ThroughType ==
  ASSUME Shape
  PROVE  Through \in Seq(Record) /\ \A i \in 1..Len(Through) : Through[i] \in Record
  <1>1. PICK w, r : w = Written /\ r = ready
    OBVIOUS
  <1>2. w \in Seq(Record) /\ r \in Seq(Record)
    <2>1. <<>> \in Seq(Record)
      OBVIOUS
    <2> QED
      BY <2>1, <1>1 DEF Shape, Written
  <1>3. PICK t : t = w \o r
    OBVIOUS
  <1>4. t \in Seq(Record)
    BY <1>2, <1>3, ConcatFacts
  <1>5. \A i \in 1..Len(t) : t[i] \in Record
    BY <1>4
  <1> QED
    BY <1>1, <1>3, <1>4, <1>5 DEF Through

(* What is worked at is the place of the record in hand. *)
LEMMA OtherPlaces ==
  ASSUME Shape, [Next]_vars, NEW p, InHand => p # todo[1].at, ~Prune
  PROVE  /\ corpus'[p] = corpus[p]
         /\ \A f : <<p, f>> \in skipped => <<p, f>> \in skipped'
  <1>1. CASE OpenChallenge
    <2>1. corpus' = [corpus EXCEPT ![here] = corpus[here]] /\ skipped' = skipped
      BY <1>1 DEF OpenChallenge, MadeDir
    <2> QED
      BY <2>1
  <1>2. CASE Copying
    <2>1. p # here
      BY <1>2 DEF Copying, InHand, here
    <2>2. PICK f \in uncopied : CopySource(f) \/ SkipSource(f)
      BY <1>2 DEF Copying
    <2>3. CASE SkipSource(f)
      BY <2>3 DEF SkipSource
    <2>4. CASE CopySource(f)
      <3>1. PICK h : h = here
        OBVIOUS
      <3>2. /\ corpus' = [corpus EXCEPT ![h] = With(corpus[h], f, todo[1].tree[f])]
            /\ skipped' = skipped \ {<<h, f>>}
        BY <2>4, <3>1 DEF CopySource
      <3> QED
        BY <2>1, <3>1, <3>2
    <2> QED
      BY <2>2, <2>3, <2>4
  <1>3. CASE MaterializeWriteup
    <2>1. /\ pc = "writeups" /\ skipped' = skipped
          /\ \/ corpus' = corpus
             \/ \E copy \in Copies : \E content :
                  corpus' = [corpus EXCEPT ![todo[1].at] = With(corpus[todo[1].at], copy, content)]
      BY <1>3, WriteupStep
    <2>2. p # todo[1].at
      BY <2>1 DEF InHand
    <2>3. ASSUME NEW h, p # h, NEW x, corpus' = [corpus EXCEPT ![h] = x]
          PROVE  corpus'[p] = corpus[p]
      BY <2>3
    <2>4. corpus'[p] = corpus[p]
      BY <2>1, <2>2, <2>3
    <2> QED
      BY <2>1, <2>4
  <1>4. CASE Discover \/ SourcesCopied \/ EmptyShard \/ WriteRecord \/ CloseShard \/ Crash
    BY <1>4 DEF Discover, SourcesCopied, EmptyShard, WriteRecord, CloseShard, Crash
  <1>5. CASE Over \/ UNCHANGED vars
    BY <1>5 DEF Over, vars
  <1> QED
    BY <1>1, <1>2, <1>3, <1>4, <1>5 DEF Next

(* What is through stays so, in order, until the next run or a crash. *)
LEMMA ThroughSame ==
  ASSUME Shape, [Next]_vars, ~Discover, ~Crash, ~Prune
  PROVE  /\ Through' = Through
         /\ InHand => InHand' /\ todo'[1].at = todo[1].at
  <1>0. todo \in Seq(Record) /\ ready \in Seq(Record) /\ catalog \in Seq(Record)
    BY DEF Shape
  <1>1. CASE OpenChallenge \/ Copying \/ SourcesCopied
    <2>1. /\ UNCHANGED <<todo, ready, catalog>>
          /\ pc \notin {"write", "done"} /\ pc' \in {"copy", "writeups"}
      BY <1>1 DEF OpenChallenge, Copying, CopySource, SkipSource, SourcesCopied
    <2> QED
      BY <2>1 DEF Through, Written, InHand
  <1>2. CASE MaterializeWriteup
    <2>1. /\ pc = "writeups" /\ pc' = "writeups" /\ todo # <<>>
          /\ UNCHANGED <<ready, catalog>>
      BY <1>2, WriteupStep
    <2>2. todo'[1].at = todo[1].at
      <3>1. CASE todo' = todo
        BY <3>1
      <3>2. CASE \E s \in Record, copy \in Copies :
                   Gains(todo[1], s, next, copy) /\ todo' = [todo EXCEPT ![1] = s]
        <4>1. PICK s \in Record, copy \in Copies :
                Gains(todo[1], s, next, copy) /\ todo' = [todo EXCEPT ![1] = s]
          BY <3>2
        <4>2. todo'[1] = s
          BY <4>1, <2>1, <1>0
        <4> QED
          BY <4>1, <4>2 DEF Gains
      <3> QED
        BY <1>2, <3>1, <3>2, WriteupStep
    <2> QED
      BY <2>1, <2>2 DEF Through, Written, InHand
  <1>3. CASE EmptyShard
    <2>1. /\ pc = "catalog" /\ pc' = "write" /\ catalog' = <<>> /\ ready' = ready
      BY <1>3 DEF EmptyShard
    <2> QED
      BY <2>1 DEF Through, Written, InHand
  <1>4. CASE WriteRecord
    <2>1. /\ pc = "write" /\ ready # <<>> /\ pc' = pc
          /\ catalog' = Append(catalog, ready[1])
          /\ ready' = Tail(ready)
      BY <1>4, <1>0 DEF WriteRecord
    <2>2. PICK a, b : a = catalog /\ b = ready
      OBVIOUS
    <2>3. a \in Seq(Record) /\ b \in Seq(Record) /\ b # <<>>
      BY <2>1, <2>2, <1>0
    <2>4. Append(a, b[1]) \o Tail(b) = a \o b
      BY <2>3, MoveHead
    <2>5. Through = a \o b
      BY <2>1, <2>2 DEF Through, Written
    <2>6. Through' = Append(a, b[1]) \o Tail(b)
      BY <2>1, <2>2 DEF Through, Written
    <2> QED
      BY <2>1, <2>4, <2>5, <2>6 DEF InHand
  <1>5. CASE CloseShard
    <2>1. /\ pc = "write" /\ pc' = "done" /\ UNCHANGED <<catalog, ready>>
      BY <1>5 DEF CloseShard
    <2> QED
      BY <2>1 DEF Through, Written, InHand
  <1>6. CASE Over \/ UNCHANGED vars
    BY <1>6 DEF Over, vars, Through, Written, InHand
  <1> QED
    BY <1>1, <1>2, <1>3, <1>4, <1>5, <1>6 DEF Next

(* Pruning settles the record in hand. *)
LEMMA PruneSettles ==
  ASSUME Shape, Progress, Prune
  PROVE  Settled(corpus', skipped', todo[1])
  <1>1. /\ pc = "writeups" /\ todo # <<>> /\ todo[1] \in Record
        /\ corpus' = [corpus EXCEPT ![todo[1].at] =
                        [f \in DOMAIN corpus[todo[1].at] \ Stale(corpus[todo[1].at]) |->
                           corpus[todo[1].at][f]]]
        /\ skipped' = skipped
    BY PruneStep
  <1>2. PICK r : r = todo[1]
    OBVIOUS
  <1>3. PICK tree : tree = corpus[r.at]
    OBVIOUS
  <1>4. corpus'[r.at] = [f \in DOMAIN tree \ Stale(tree) |-> tree[f]]
    <2>1. r.at \in DOMAIN corpus
      BY <1>1, <1>2 DEF Record, Shape
    <2> QED
      BY <2>1, <1>1, <1>2, <1>3
  <1>5. /\ \A f : f \in DOMAIN corpus'[r.at] <=> f \in DOMAIN tree /\ (f[1] = "writeups" => f \in kept)
        /\ \A f \in DOMAIN corpus'[r.at] : corpus'[r.at][f] = tree[f]
    BY <1>4 DEF Stale
  <1>6. /\ kept \subseteq Names(r) /\ uncopied = {}
        /\ \A entry \in r.files : entry \in Manifest(r.tree) \/ entry[1] \in kept
        /\ NoOwnWriteups => \A entry \in r.files :
             entry[1] \in uncopied \/ Held(corpus, skipped, r, entry)
    BY <1>1, <1>2 DEF Progress, InHand
  <1>7. \A f \in DOMAIN corpus'[r.at] : f[1] = "writeups" => f \in Names(r)
    BY <1>5, <1>6
  <1>8. ASSUME NoOwnWriteups, NEW entry \in r.files
        PROVE  Held(corpus', skipped', r, entry)
    <2>1. Held(corpus, skipped, r, entry)
      BY <1>6, <1>8
    <2>2. entry[1][1] = "writeups" => entry[1] \in kept
      <3>1. CASE entry[1] \in kept
        BY <3>1
      <3>2. CASE entry \in Manifest(r.tree)
        <4>1. entry[1] \in DOMAIN r.tree
          BY <3>2 DEF Manifest
        <4>2. r.tree \in {c.tree : c \in Challenges}
          BY <1>1, <1>2 DEF Record
        <4> QED
          BY <4>1, <4>2, <1>8 DEF NoOwnWriteups
      <3> QED
        BY <3>1, <3>2, <1>6
    <2> QED
      BY <2>1, <2>2, <1>1, <1>3, <1>5 DEF Held
  <1> QED
    BY <1>2, <1>7, <1>8 DEF Settled

LEMMA ThroughStep ==
  Shape /\ Progress /\ ThroughSettled /\ [Next]_vars => ThroughSettled'
  <1> SUFFICES ASSUME Shape, Progress, ThroughSettled, [Next]_vars
               PROVE  ThroughSettled'
    OBVIOUS
  <1>0. PICK t : t = Through
    OBVIOUS
  <1>00. /\ t \in Seq(Record) /\ \A i \in 1..Len(t) : t[i] \in Record
         /\ \A i \in 1..Len(t) : LastIn(t, i) =>
              (InHand /\ t[i].at = todo[1].at) \/ Settled(corpus, skipped, t[i])
    BY <1>0, ThroughType DEF ThroughSettled
  <1>1. CASE Discover \/ Crash
    <2>1. pc' \notin {"write", "done"} /\ ready' = <<>>
      BY <1>1 DEF Discover, Crash
    <2>2. Through' = <<>>
      BY <2>1 DEF Through, Written
    <2> QED
      BY <2>2 DEF ThroughSettled
  <1>2. CASE Prune
    <2>1. /\ pc = "writeups" /\ todo # <<>> /\ todo[1] \in Record
          /\ corpus' = [corpus EXCEPT ![todo[1].at] =
                          [f \in DOMAIN corpus[todo[1].at] \ Stale(corpus[todo[1].at]) |->
                             corpus[todo[1].at][f]]]
          /\ ready' = Append(ready, todo[1])
          /\ pc' \in {"catalog", "open"}
          /\ skipped' = skipped
      BY <1>2, PruneStep
    <2>2. PICK r, a : r = todo[1] /\ a = ready
      OBVIOUS
    <2>3. PICK b : b = Append(a, r)
      OBVIOUS
    <2>4. t = a /\ Through' = b
      <3>1. a \in Seq(Record) /\ r \in Record
        BY <2>1, <2>2 DEF Shape
      <3>2. b \in Seq(Record)
        BY <2>3, <3>1
      <3>3. <<>> \o a = a /\ <<>> \o b = b
        BY <3>1, <3>2, ConcatEmptySeq
      <3>4. t = <<>> \o a
        BY <1>0, <2>1, <2>2 DEF Through, Written
      <3>5. Through' = <<>> \o b
        BY <2>1, <2>2, <2>3 DEF Through, Written
      <3> QED
        BY <3>3, <3>4, <3>5
    <2>5. /\ Len(b) = Len(t) + 1 /\ Len(t) \in Nat
          /\ \A i \in 1..Len(t) : b[i] = t[i]
          /\ b[Len(t) + 1] = r
          /\ \A i \in 1..Len(b) : i \in 1..Len(t) \/ i = Len(t) + 1
      <3>1. t \in Seq(Record) /\ r \in Record /\ b = Append(t, r)
        BY <2>1, <2>2, <2>3, <2>4, <1>00
      <3> QED
        BY <3>1, AppendFacts
    <2>6. ASSUME NEW i \in 1..Len(b), LastIn(b, i)
          PROVE  Settled(corpus', skipped', b[i])
      <3>1. CASE i = Len(t) + 1
        <4>1. Settled(corpus', skipped', r)
          BY <1>2, <2>2, PruneSettles
        <4> QED
          BY <4>1, <3>1, <2>5
      <3>2. CASE i \in 1..Len(t)
        <4>1. b[i] = t[i] /\ t[i] \in Record
          BY <3>2, <2>5, <1>00
        <4>2. LastIn(t, i)
          <5>1. \A j \in 1..Len(t) : j \in 1..Len(b) /\ b[j] = t[j]
            BY <2>5
          <5> QED
            BY <5>1, <4>1, <2>6 DEF LastIn
        <4>3. t[i].at # r.at
          <5> SUFFICES ASSUME t[i].at = r.at
                       PROVE  FALSE
            OBVIOUS
          <5>1. Len(t) + 1 \in 1..Len(b)
            BY <2>5
          <5>2. Len(t) + 1 <= i
            BY <5>1, <4>1, <2>5, <2>6 DEF LastIn
          <5> QED
            BY <5>2, <3>2, <2>5
        <4>4. Settled(corpus, skipped, t[i])
          BY <1>00, <3>2, <4>2, <4>3, <2>2
        <4>5. corpus'[t[i].at] = corpus[t[i].at]
          BY <2>1, <2>2, <4>3
        <4>6. Settled(corpus', skipped', t[i])
          BY <4>4, <4>5, <2>1, SettledStays
        <4> QED
          BY <4>1, <4>6
      <3> QED
        BY <3>1, <3>2, <2>5
    <2> QED
      BY <2>4, <2>6 DEF ThroughSettled
  <1>3. CASE ~Discover /\ ~Crash /\ ~Prune
    <2>1. /\ Through' = t
          /\ InHand => InHand' /\ todo'[1].at = todo[1].at
      BY <1>0, <1>3, ThroughSame
    <2>2. ASSUME NEW i \in 1..Len(t), LastIn(t, i), ~(InHand' /\ t[i].at = todo'[1].at)
          PROVE  Settled(corpus', skipped', t[i])
      <3>1. PICK r : r = t[i]
        OBVIOUS
      <3>2. InHand => r.at # todo[1].at
        BY <2>1, <2>2, <3>1
      <3>3. Settled(corpus, skipped, r)
        BY <1>00, <2>2, <3>1, <3>2
      <3>4. PICK p : p = r.at
        OBVIOUS
      <3>5. /\ corpus'[p] = corpus[p]
            /\ \A f : <<p, f>> \in skipped => <<p, f>> \in skipped'
        BY <1>3, <3>2, <3>4, OtherPlaces
      <3>6. Settled(corpus', skipped', r)
        BY <3>3, <3>4, <3>5, SettledStays
      <3> QED
        BY <3>1, <3>6
    <2> QED
      BY <2>1, <2>2 DEF ThroughSettled
  <1> QED
    BY <1>1, <1>2, <1>3

OnDisk == Shape /\ Progress /\ ThroughSettled

LEMMA OnDiskInvariant == Spec => []OnDisk
  <1>1. Init => OnDisk
    <2> SUFFICES ASSUME Init
                 PROVE  OnDisk
      OBVIOUS
    <2>1. Through = <<>> /\ Len(<<>>) = 0
      BY DEF Init, Through, Written
    <2>2. ThroughSettled
      BY <2>1 DEF ThroughSettled
    <2>3. Progress
      BY <2>1 DEF Init, Progress, InHand
    <2> QED
      BY <2>2, <2>3, ShapeInit DEF OnDisk
  <1>2. OnDisk /\ [Next]_vars => OnDisk'
    BY ShapeStep, ProgressStep, ThroughStep DEF OnDisk
  <1> QED
    BY <1>1, <1>2, PTL DEF Spec

(* At the end of a run the last record at each place is settled. *)
LEMMA DoneSettled ==
  ASSUME OnDisk, pc = "done", NEW r \in LastAtPlace
  PROVE  r \in Record /\ Fit(r) /\ Settled(corpus, skipped, r)
  <1>1. PICK c : c = catalog
    OBVIOUS
  <1>2. c \in Seq(Record) /\ Fits(c) /\ ready = <<>>
    BY <1>1 DEF OnDisk, Shape
  <1>3. Through = c
    <2>1. c \o <<>> = c
      BY <1>2, ConcatEmptySeq
    <2> QED
      BY <2>1, <1>1, <1>2 DEF Through, Written
  <1>4. DOMAIN c = 1..Len(c)
    BY <1>2
  <1>5. PICK i \in 1..Len(c) : r = c[i] /\ LastIn(c, i)
    BY <1>1, <1>4 DEF LastAtPlace, LastIn
  <1>6. Settled(corpus, skipped, r)
    BY <1>3, <1>5 DEF OnDisk, ThroughSettled, InHand
  <1> QED
    BY <1>2, <1>5, <1>6 DEF Fits

(* After a run that went through, the place of a record of the shard holds no hard
   copy that the record there does not list, whichever writeups earlier runs kept
   or were keeping when they died. *)
THEOREM PlacesPruned == Spec => []NoStaleWriteups
  <1>1. OnDisk => NoStaleWriteups
    BY DoneSettled DEF NoStaleWriteups, Settled, Names
  <1> QED
    BY <1>1, OnDiskInvariant, PTL

(* After a run that went through, the files and hard copies that the shard lists
   are on disk with the bytes it took their hashes of, but for files that could
   not be copied: if no challenge brings files in a writeups/ of its own. *)
THEOREM BytesStay ==
  ASSUME NoOwnWriteups
  PROVE  Spec => []BytesAreHeld
  <1>1. OnDisk => BytesAreHeld
    <2> SUFFICES ASSUME OnDisk, pc = "done", NEW r \in LastAtPlace
                 PROVE  /\ \A entry \in r.files : Holds(r, entry[1], entry[2])
                        /\ \A w \in ToSet(r.writeups) : w.copy # NoFile => Holds(r, w.copy, w.url)
      BY DEF BytesAreHeld
    <2>1. r \in Record /\ Fit(r) /\ Settled(corpus, skipped, r)
      BY DoneSettled
    <2>2. \A entry \in r.files : Holds(r, entry[1], entry[2])
      BY <2>1 DEF Settled, Held, Holds
    <2>3. ASSUME NEW w \in ToSet(r.writeups), w.copy # NoFile
          PROVE  Holds(r, w.copy, w.url)
      <3>1. r.writeups \in Seq(Writeup)
        BY <2>1 DEF Record
      <3>2. PICK n \in 1..Len(r.writeups) : w = r.writeups[n]
        BY <3>1 DEF ToSet
      <3>3. PICK e : e = <<w.copy, w.url>>
        OBVIOUS
      <3>4. e \in r.files /\ e[1] = w.copy /\ e[2] = w.url
        BY <2>1, <2>3, <3>2, <3>3 DEF Fit
      <3> QED
        BY <2>2, <3>4
    <2> QED
      BY <2>2, <2>3
  <1> QED
    BY <1>1, OnDiskInvariant, PTL
=============================================================================
