------------------------- MODULE GitConnectorProofs -------------------------
(***************************************************************************)
(* Theorems about GitConnector for any lists, any checkouts and any tree   *)
(* of directories, with artifacts, challenge.json files and links anywhere. *)
(***************************************************************************)
EXTENDS GitConnector, SequenceTheorems, FiniteSetTheorems, WellFoundedInduction, TLAPS

-----------------------------------------------------------------------------
(* Paths *)

LEMMA PathIndices ==
  ASSUME NEW d \in Directory
  PROVE  Len(d) \in Nat /\ DOMAIN d = 1..Len(d) /\ \A i \in 1..Len(d) : d[i] \in Names
  BY LenProperties, ElementOfSeq DEF Directory

LEMMA PrefixByIndex ==
  ASSUME NEW d \in Directory, NEW e \in Directory
  PROVE  IsPrefix(d, e) <=> Len(d) <= Len(e) /\ \A i \in 1..Len(d) : d[i] = e[i]
  <1>1. Len(d) \in Nat /\ Len(e) \in Nat
    BY PathIndices
  <1>2. SubSeq(d, 1, Len(d)) = d
    BY SubSeqFull DEF Directory
  <1>3. ASSUME Len(d) <= Len(e)
        PROVE  /\ SubSeq(e, 1, Len(d)) \in Seq(Names)
               /\ Len(SubSeq(e, 1, Len(d))) = Len(d)
               /\ \A i \in 1..Len(d) : SubSeq(e, 1, Len(d))[i] = e[i]
    <2>1. \A i \in 1..Len(d) : e[i] \in Names
      BY <1>1, <1>3, PathIndices
    <2>2. /\ SubSeq(e, 1, Len(d)) \in Seq(Names)
          /\ Len(SubSeq(e, 1, Len(d))) = IF 1 <= Len(d) THEN Len(d) - 1 + 1 ELSE 0
          /\ \A i \in 1..(Len(d) - 1 + 1) : SubSeq(e, 1, Len(d))[i] = e[1 + i - 1]
      BY <1>1, <2>1, SubSeqProperties
    <2> QED
      BY <1>1, <2>2
  <1>4. ASSUME IsPrefix(d, e)
        PROVE  Len(d) <= Len(e) /\ \A i \in 1..Len(d) : d[i] = e[i]
    <2>1. Len(d) <= Len(e) /\ d = SubSeq(e, 1, Len(d))
      BY <1>2, <1>4 DEF IsPrefix
    <2> QED
      BY <1>3, <2>1
  <1>5. ASSUME Len(d) <= Len(e), \A i \in 1..Len(d) : d[i] = e[i]
        PROVE  IsPrefix(d, e)
    <2> DEFINE f == SubSeq(e, 1, Len(d))
    <2>1. f \in Seq(Names) /\ Len(f) = Len(d) /\ \A i \in 1..Len(d) : f[i] = d[i]
      BY <1>3, <1>5
    <2> HIDE DEF f
    <2>2. f = d
      BY <2>1, SeqEqual DEF Directory
    <2> QED
      BY <1>2, <1>5, <2>2 DEF IsPrefix, f
  <1> QED
    BY <1>4, <1>5

LEMMA SamePath ==
  ASSUME NEW d \in Directory, NEW e \in Directory, Len(d) = Len(e),
         \A i \in 1..Len(d) : d[i] = e[i]
  PROVE  d = e
  BY SeqEqual DEF Directory

(* Of two directories one of which comes before the other neither lies in the
   other. *)
LEMMA BeforeApart ==
  ASSUME NEW d \in Directory, NEW e \in Directory, Before(d, e)
  PROVE  d # e /\ ~IsPrefix(d, e) /\ ~IsPrefix(e, d)
  <1>1. PICK i \in DOMAIN d \cap DOMAIN e : Rank[d[i]] < Rank[e[i]]
    BY DEF Before
  <1>2. i \in 1..Len(d) /\ i \in 1..Len(e)
    BY <1>1, PathIndices
  <1>3. Rank[d[i]] \in Nat /\ Rank[e[i]] \in Nat
    BY <1>2, PathIndices, NamesAssumption
  <1>4. d[i] # e[i]
    BY <1>1, <1>3
  <1> QED
    BY <1>2, <1>4, PrefixByIndex

(* What comes before a directory comes before all that is below it. *)
LEMMA BeforeBelow ==
  ASSUME NEW d \in Directory, NEW e \in Directory, NEW f \in Directory,
         Before(d, e), IsPrefix(e, f)
  PROVE  Before(d, f)
  <1>1. Len(e) <= Len(f) /\ \A i \in 1..Len(e) : e[i] = f[i]
    BY PrefixByIndex
  <1>2. Len(e) \in Nat /\ Len(f) \in Nat /\ DOMAIN e = 1..Len(e) /\ DOMAIN f = 1..Len(f)
    BY PathIndices
  <1>3. PICK i \in DOMAIN d \cap DOMAIN e :
          Rank[d[i]] < Rank[e[i]] /\ \A j \in 1..(i - 1) : d[j] = e[j]
    BY DEF Before
  <1>4. i \in DOMAIN f /\ e[i] = f[i] /\ \A j \in 1..(i - 1) : e[j] = f[j]
    BY <1>1, <1>2, <1>3
  <1> QED
    BY <1>3, <1>4 DEF Before

LEMMA PrefixTransitive ==
  ASSUME NEW d \in Directory, NEW e \in Directory, NEW f \in Directory,
         IsPrefix(d, e), IsPrefix(e, f)
  PROVE  IsPrefix(d, f)
  <1>1. Len(d) \in Nat /\ Len(e) \in Nat /\ Len(f) \in Nat
    BY PathIndices
  <1> QED
    BY <1>1, PrefixByIndex

(* A directory's parent: one name less. *)
LEMMA Parent ==
  ASSUME NEW e \in Directory, e # Root
  PROVE  /\ Front(e) \in Directory
         /\ Len(e) >= 1
         /\ Len(Front(e)) = Len(e) - 1
         /\ \A i \in 1..(Len(e) - 1) : Front(e)[i] = e[i]
         /\ IsPrefix(Front(e), e)
         /\ Front(e) # e
         /\ Last(e) = e[Len(e)] /\ Last(e) \in Names
  <1>1. Len(e) \in Nat \ {0} /\ \A i \in 1..Len(e) : e[i] \in Names
    BY EmptySeq, PathIndices DEF Directory, Root
  <1>2. \A i \in 1..(Len(e) - 1) : e[i] \in Names
    BY <1>1
  <1>3. /\ Front(e) \in Seq(Names)
        /\ Len(Front(e)) = IF 1 <= Len(e) - 1 THEN Len(e) - 1 - 1 + 1 ELSE 0
        /\ \A i \in 1..(Len(e) - 1 - 1 + 1) : Front(e)[i] = e[1 + i - 1]
    BY <1>1, <1>2, SubSeqProperties DEF Front
  <1>4. /\ Front(e) \in Directory
        /\ Len(Front(e)) = Len(e) - 1
        /\ \A i \in 1..(Len(e) - 1) : Front(e)[i] = e[i]
    <2> DEFINE f == Front(e)
               n == Len(e)
    <2>1. /\ f \in Directory
          /\ Len(f) = IF 1 <= n - 1 THEN n - 1 - 1 + 1 ELSE 0
          /\ \A i \in 1..(n - 1 - 1 + 1) : f[i] = e[1 + i - 1]
      BY <1>3 DEF Directory
    <2>2. n \in Nat \ {0}
      BY <1>1
    <2> HIDE DEF f, n
    <2>3. f \in Directory /\ Len(f) = n - 1 /\ \A i \in 1..(n - 1) : f[i] = e[i]
      BY <2>1, <2>2
    <2> QED
      BY <2>3 DEF f, n
  <1>5. IsPrefix(Front(e), e)
    BY <1>1, <1>4, PrefixByIndex
  <1>6. Front(e) # e
    BY <1>1, <1>4
  <1> QED
    BY <1>1, <1>4, <1>5, <1>6 DEF Last

(* What lies above a directory is its parent or lies above that. *)
LEMMA AboveParent ==
  ASSUME NEW d \in Directory, NEW e \in Directory, e # Root, IsStrictPrefix(d, e)
  PROVE  d = Front(e) \/ IsStrictPrefix(d, Front(e))
  <1>1. IsPrefix(d, e) /\ d # e
    BY DEF IsStrictPrefix
  <1>2. Len(d) \in Nat /\ Len(e) \in Nat /\ Len(d) <= Len(e) /\ \A i \in 1..Len(d) : d[i] = e[i]
    BY <1>1, PathIndices, PrefixByIndex
  <1>3. Len(d) < Len(e)
    BY <1>1, <1>2, SamePath
  <1>4. /\ Front(e) \in Directory /\ Len(Front(e)) = Len(e) - 1
        /\ \A i \in 1..(Len(e) - 1) : Front(e)[i] = e[i]
    BY Parent
  <1>5. Len(d) <= Len(Front(e)) /\ \A i \in 1..Len(d) : d[i] = Front(e)[i]
    BY <1>2, <1>3, <1>4
  <1>6. IsPrefix(d, Front(e))
    BY <1>4, <1>5, PrefixByIndex
  <1> QED
    BY <1>6 DEF IsStrictPrefix

-----------------------------------------------------------------------------
(* Trees *)

LEMMA TreePaths ==
  ASSUME NEW t, IsTree(t)
  PROVE  /\ t.dirs \subseteq Directory
         /\ Root \in t.dirs
         /\ Topmost(t) \subseteq Visitable(t)
         /\ Visitable(t) \subseteq t.dirs \ {Root}
  BY DEF IsTree, Topmost, Visitable

LEMMA Child ==
  ASSUME NEW t, IsTree(t), NEW d \in Directory, NEW e \in Subdirs(t, d)
  PROVE  /\ e \in t.dirs /\ e \in Directory /\ e # Root
         /\ Front(e) = d
         /\ IsPrefix(d, e) /\ d # e
         /\ Len(e) = Len(d) + 1
         /\ \A i \in 1..Len(d) : e[i] = d[i]
         /\ Last(e) = e[Len(e)] /\ Last(e) \notin Noise
  <1>1. e \in t.dirs /\ e \in Directory /\ e # Root /\ Front(e) = d /\ Last(e) \notin Noise
    BY DEF Subdirs, IsTree
  <1>2. Len(d) \in Nat /\ Len(e) \in Nat
    BY <1>1, PathIndices
  <1>3. Len(d) = Len(e) - 1 /\ \A i \in 1..(Len(e) - 1) : d[i] = e[i]
    BY <1>1, Parent
  <1>4. IsPrefix(d, e) /\ d # e /\ Last(e) = e[Len(e)]
    BY <1>1, Parent
  <1>5. Len(e) = Len(d) + 1 /\ \A i \in 1..Len(d) : e[i] = d[i]
    BY <1>2, <1>3
  <1> QED
    BY <1>1, <1>4, <1>5

(* Below a directory of a tree the way down to another goes through a child. *)
LEMMA ChildOnTheWay ==
  ASSUME NEW t, IsTree(t), NEW d \in Directory, NEW c \in t.dirs, IsStrictPrefix(d, c)
  PROVE  \E e \in t.dirs :
           /\ e # Root /\ Front(e) = d /\ IsPrefix(e, c)
           /\ Len(d) + 1 \in 1..Len(c) /\ Last(e) = c[Len(d) + 1]
  <1>1. c \in Directory
    BY DEF IsTree
  <1>2. IsPrefix(d, c) /\ d # c
    BY DEF IsStrictPrefix
  <1>3. Len(d) \in Nat /\ Len(c) \in Nat /\ Len(d) <= Len(c) /\ \A i \in 1..Len(d) : d[i] = c[i]
    BY <1>1, <1>2, PathIndices, PrefixByIndex
  <1>4. Len(d) < Len(c)
    BY <1>1, <1>2, <1>3, SamePath
  <1> DEFINE n == Len(d) + 1
             e == SubSeq(c, 1, n)
  <1>5. n \in 1..Len(c) /\ n \in Nat
    BY <1>3, <1>4
  <1>6. e \in t.dirs
    <2>1. e \in Prefixes(c)
      BY <1>5 DEF Prefixes
    <2> QED
      BY <2>1 DEF IsTree
  <1>7. e \in Directory /\ Len(e) = n /\ \A i \in 1..n : e[i] = c[i]
    <2> HIDE DEF n
    <2>1. \A i \in 1..n : c[i] \in Names
      BY <1>1, <1>5, PathIndices
    <2>2. /\ e \in Seq(Names)
          /\ Len(e) = IF 1 <= n THEN n - 1 + 1 ELSE 0
          /\ \A i \in 1..(n - 1 + 1) : e[i] = c[1 + i - 1]
      BY <1>5, <2>1, SubSeqProperties
    <2> HIDE DEF e
    <2> QED
      BY <1>5, <2>2 DEF Directory
  <1> HIDE DEF e
  <1>8. e # Root
    BY <1>3, <1>7, EmptySeq DEF Root
  <1>9. /\ Front(e) \in Directory /\ Len(Front(e)) = n - 1
        /\ \A i \in 1..(n - 1) : Front(e)[i] = e[i]
        /\ Last(e) = e[n]
    BY <1>7, <1>8, Parent
  <1>10. Front(e) = d
    BY <1>3, <1>4, <1>7, <1>9, SamePath
  <1>11. IsPrefix(e, c)
    BY <1>1, <1>5, <1>7, PrefixByIndex
  <1>12. Last(e) = c[n]
    BY <1>5, <1>7, <1>9
  <1> QED
    BY <1>5, <1>6, <1>8, <1>10, <1>11, <1>12

-----------------------------------------------------------------------------
(* A walk over a tree, apart from the generator: the directories it has found
   and those it has still to enter. *)

Unclaimed(t, d) == ~ \E e \in t.dirs \ {Root} : IsStrictPrefix(e, d) /\ IsChallenge(t, e)

(* Everything found comes before everything to be entered, and what is still
   to be found lies at or below what is to be entered. *)
Progress(t, found, pend) ==
    /\ found \subseteq Topmost(t)
    /\ pend \subseteq Visitable(t)
    /\ \A d \in pend : Unclaimed(t, d)
    /\ \A s \in found, d \in pend : Before(s, d)
    /\ \A c \in Topmost(t) : c \in found \/ \E d \in pend : IsPrefix(d, c)

LEMMA ProgressPaths ==
  ASSUME NEW t, IsTree(t), NEW found, NEW pend, Progress(t, found, pend)
  PROVE  /\ found \subseteq Directory /\ pend \subseteq Directory
         /\ found \subseteq t.dirs /\ pend \subseteq t.dirs
         /\ Root \notin found /\ Root \notin pend
  BY TreePaths DEF Progress

(* What a child inherits: it may be visited, and no challenge is above it. *)
LEMMA ChildVisitable ==
  ASSUME NEW t, IsTree(t), NEW d \in Visitable(t), NEW e \in Subdirs(t, d),
         Unclaimed(t, d), ~IsChallenge(t, d)
  PROVE  e \in Visitable(t) /\ Unclaimed(t, e)
  <1>1. d \in Directory /\ d # Root
    BY TreePaths
  <1>2. /\ e \in t.dirs /\ e \in Directory /\ e # Root
        /\ Front(e) = d
        /\ Len(e) = Len(d) + 1
        /\ \A i \in 1..Len(d) : e[i] = d[i]
        /\ e[Len(e)] \notin Noise
    BY <1>1, Child
  <1>3. Len(d) \in Nat \ {0} /\ DOMAIN d = 1..Len(d) /\ DOMAIN e = 1..Len(e)
    BY <1>1, <1>2, PathIndices, EmptySeq DEF Directory, Root
  <1>4. d[1] \notin Components /\ \A i \in 1..Len(d) : d[i] \notin Noise
    BY <1>3 DEF Visitable
  <1>5. e[1] \notin Components /\ \A i \in 1..Len(e) : e[i] \notin Noise
    BY <1>2, <1>3, <1>4
  <1>6. e \in Visitable(t)
    BY <1>2, <1>3, <1>5 DEF Visitable
  <1>7. ASSUME NEW f \in t.dirs \ {Root}, IsStrictPrefix(f, e), IsChallenge(t, f)
        PROVE  FALSE
    <2>1. f \in Directory
      BY TreePaths
    <2>2. f = d \/ IsStrictPrefix(f, d)
      BY <1>2, <1>7, <2>1, AboveParent
    <2> QED
      BY <1>7, <2>2 DEF Unclaimed
  <1> QED
    BY <1>6, <1>7 DEF Unclaimed

(* Nothing but what is at or below a pending directory can be found still, so
   what was found comes before the rest. *)
LEMMA ProgressOrder ==
  ASSUME NEW t, IsTree(t), NEW found, NEW pend, Progress(t, found, pend),
         NEW s \in found, NEW c \in Topmost(t) \ found
  PROVE  Before(s, c)
  <1>1. PICK d \in pend : IsPrefix(d, c)
    BY DEF Progress
  <1>2. s \in Directory /\ d \in Directory /\ c \in Directory
    BY ProgressPaths, TreePaths
  <1>3. Before(s, d)
    BY DEF Progress
  <1> QED
    BY <1>1, <1>2, <1>3, BeforeBelow

LEMMA ProgressEnds ==
  ASSUME NEW t, NEW found, Progress(t, found, {})
  PROVE  found = Topmost(t)
  BY DEF Progress

(* The walk enters the root. *)
LEMMA ProgressStart ==
  ASSUME NEW t, IsTree(t)
  PROVE  Progress(t, {}, {d \in Subdirs(t, Root) : Last(d) \notin Components})
  <1> DEFINE pend == {d \in Subdirs(t, Root) : Last(d) \notin Components}
  <1>1. Root \in Directory /\ Len(Root) = 0
    BY EmptySeq DEF Root, Directory
  <1>2. ASSUME NEW d \in pend
        PROVE  d \in Visitable(t) /\ Unclaimed(t, d)
    <2>1. /\ d \in t.dirs /\ d \in Directory /\ d # Root
          /\ Front(d) = Root
          /\ Len(d) = 1
          /\ Last(d) = d[1] /\ Last(d) \notin Noise
      <3>1. /\ d \in t.dirs /\ d \in Directory /\ d # Root
            /\ Front(d) = Root
            /\ Len(d) = Len(Root) + 1
            /\ Last(d) = d[Len(d)] /\ Last(d) \notin Noise
        BY <1>1, Child
      <3>2. Len(d) = 1
        BY <1>1, <3>1
      <3> QED
        BY <3>1, <3>2
    <2>2. DOMAIN d = 1..1
      BY <2>1, PathIndices
    <2>3. d \in Visitable(t)
      BY <2>1, <2>2 DEF Visitable
    <2>4. ASSUME NEW f \in t.dirs \ {Root}, IsStrictPrefix(f, d)
          PROVE  FALSE
      <3>1. f \in Directory
        BY TreePaths
      <3>2. IsStrictPrefix(f, Root)
        BY <2>1, <2>4, <3>1, AboveParent
      <3>3. IsPrefix(f, Root) /\ f # Root
        BY <3>2 DEF IsStrictPrefix
      <3>4. Len(f) <= 0 /\ Len(f) \in Nat \ {0}
        BY <1>1, <3>1, <3>3, PrefixByIndex, EmptySeq DEF Directory, Root
      <3> QED
        BY <3>4
    <2> QED
      BY <2>3, <2>4 DEF Unclaimed
  <1>3. ASSUME NEW c \in Topmost(t)
        PROVE  \E d \in pend : IsPrefix(d, c)
    <2>1. c \in Visitable(t) /\ c \in t.dirs /\ c # Root /\ c \in Directory
      BY TreePaths
    <2>2. IsStrictPrefix(Root, c)
      BY <1>1, <2>1, PathIndices, PrefixByIndex DEF IsStrictPrefix
    <2>3. PICK d \in t.dirs : /\ d # Root /\ Front(d) = Root /\ IsPrefix(d, c)
                              /\ Len(Root) + 1 \in 1..Len(c) /\ Last(d) = c[Len(Root) + 1]
      BY <1>1, <2>1, <2>2, ChildOnTheWay
    <2>4. 1 \in DOMAIN c /\ Last(d) = c[1]
      BY <1>1, <2>1, <2>3, PathIndices
    <2>5. Last(d) \notin Components /\ Last(d) \notin Noise
      BY <2>1, <2>4 DEF Visitable
    <2>6. d \in pend
      BY <2>3, <2>5 DEF Subdirs
    <2> QED
      BY <2>3, <2>6
  <1> HIDE DEF pend
  <1>4. Progress(t, {}, pend)
    BY <1>2, <1>3 DEF Progress
  <1> QED
    BY <1>4 DEF pend

(* The next directory is no challenge: its children take its place. *)
LEMMA ProgressDescend ==
  ASSUME NEW t, IsTree(t), NEW found, NEW pend, Progress(t, found, pend),
         NEW d \in pend, ~IsChallenge(t, d)
  PROVE  Progress(t, found, (pend \ {d}) \cup Subdirs(t, d))
  <1> DEFINE rest == (pend \ {d}) \cup Subdirs(t, d)
  <1>1. d \in Directory /\ d \in t.dirs /\ d # Root /\ d \in Visitable(t) /\ Unclaimed(t, d)
    <2>1. d \in Directory /\ d \in t.dirs /\ d # Root
      BY ProgressPaths
    <2> QED
      BY <2>1 DEF Progress
  <1>2. ASSUME NEW e \in rest
        PROVE  e \in Visitable(t) /\ Unclaimed(t, e)
    <2>1. CASE e \in pend
      BY <2>1 DEF Progress
    <2>2. CASE e \in Subdirs(t, d)
      BY <1>1, <2>2, ChildVisitable
    <2> QED
      BY <2>1, <2>2
  <1>3. ASSUME NEW s \in found, NEW e \in rest
        PROVE  Before(s, e)
    <2>1. CASE e \in pend
      BY <2>1 DEF Progress
    <2>2. CASE e \in Subdirs(t, d)
      <3>1. e \in Directory /\ IsPrefix(d, e)
        BY <1>1, <2>2, Child
      <3>2. s \in Directory
        BY ProgressPaths
      <3>3. Before(s, d)
        BY DEF Progress
      <3> QED
        BY <1>1, <3>1, <3>2, <3>3, BeforeBelow
    <2> QED
      BY <2>1, <2>2
  <1>4. ASSUME NEW c \in Topmost(t), c \notin found
        PROVE  \E e \in rest : IsPrefix(e, c)
    <2>1. PICK e \in pend : IsPrefix(e, c)
      BY <1>4 DEF Progress
    <2>2. CASE e # d
      BY <2>1, <2>2
    <2>3. CASE e = d
      <3>1. c \in Visitable(t) /\ c \in t.dirs /\ c \in Directory /\ IsChallenge(t, c)
        BY TreePaths DEF Topmost
      <3>2. IsStrictPrefix(d, c)
        BY <2>1, <2>3, <3>1 DEF IsStrictPrefix
      <3>3. PICK f \in t.dirs : /\ f # Root /\ Front(f) = d /\ IsPrefix(f, c)
                                /\ Len(d) + 1 \in 1..Len(c) /\ Last(f) = c[Len(d) + 1]
        BY <1>1, <3>1, <3>2, ChildOnTheWay
      <3>4. Last(f) \notin Noise
        BY <3>1, <3>3, PathIndices DEF Visitable
      <3>5. f \in Subdirs(t, d)
        BY <3>3, <3>4 DEF Subdirs
      <3> QED
        BY <3>3, <3>5
    <2> QED
      BY <2>2, <2>3
  <1> HIDE DEF rest
  <1>5. Progress(t, found, rest)
    BY <1>2, <1>3, <1>4 DEF Progress
  <1> QED
    BY <1>5 DEF rest

(* The next directory is a challenge: what is below it belongs to it. *)
LEMMA ProgressYield ==
  ASSUME NEW t, IsTree(t), NEW found, NEW pend, Progress(t, found, pend),
         NEW d \in pend, IsChallenge(t, d), \A e \in pend \ {d} : Before(d, e)
  PROVE  /\ d \in Topmost(t) \ found
         /\ \A s \in found : Before(s, d)
         /\ Progress(t, found \cup {d}, pend \ {d})
  <1>1. d \in Directory /\ d \in t.dirs /\ d # Root /\ d \in Visitable(t) /\ Unclaimed(t, d)
    <2>1. d \in Directory /\ d \in t.dirs /\ d # Root
      BY ProgressPaths
    <2> QED
      BY <2>1 DEF Progress
  <1>2. d \in Topmost(t)
    BY <1>1 DEF Topmost, Unclaimed
  <1>3. \A s \in found : Before(s, d)
    BY DEF Progress
  <1>4. d \notin found
    BY <1>1, <1>3, BeforeApart
  <1>5. ASSUME NEW s \in found \cup {d}, NEW e \in pend \ {d}
        PROVE  Before(s, e)
    BY DEF Progress
  <1>6. ASSUME NEW c \in Topmost(t), c \notin found \cup {d}
        PROVE  \E e \in pend \ {d} : IsPrefix(e, c)
    <2>1. PICK e \in pend : IsPrefix(e, c)
      BY <1>6 DEF Progress
    <2>2. ASSUME e = d PROVE FALSE
      <3>1. IsStrictPrefix(d, c)
        BY <1>6, <2>1, <2>2 DEF IsStrictPrefix
      <3> QED
        BY <1>1, <3>1 DEF Topmost
    <2> QED
      BY <2>1, <2>2
  <1>7. /\ found \cup {d} \subseteq Topmost(t)
        /\ pend \ {d} \subseteq Visitable(t)
        /\ \A e \in pend \ {d} : Unclaimed(t, e)
    BY <1>2 DEF Progress
  <1>8. Progress(t, found \cup {d}, pend \ {d})
    BY <1>5, <1>6, <1>7 DEF Progress
  <1> QED
    BY <1>2, <1>3, <1>4, <1>8

-----------------------------------------------------------------------------
(* The lists worked off and the records kept *)

LEMMA HeadAndTail ==
  ASSUME NEW S, NEW q \in Seq(S), q # <<>>
  PROVE  /\ Head(q) = q[1] /\ Head(q) \in S /\ Head(q) \in ToSet(q)
         /\ Tail(q) \in Seq(S)
         /\ ToSet(Tail(q)) \subseteq ToSet(q)
  <1>1. Tail(q) \in Seq(S) /\ Head(q) \in S
    BY HeadTailProperties
  <1>2. Head(q) = q[1] /\ Len(q) \in Nat /\ Len(q) >= 1 /\ DOMAIN q = 1..Len(q)
    BY EmptySeq, LenProperties
  <1>3. DOMAIN Tail(q) = 1..(Len(q) - 1) /\ \A i \in 1..(Len(q) - 1) : Tail(q)[i] = q[i + 1]
    BY HeadTailProperties, LenProperties
  <1>4. \A i \in DOMAIN Tail(q) : i + 1 \in DOMAIN q /\ Tail(q)[i] = q[i + 1]
    BY <1>2, <1>3
  <1>5. Head(q) \in ToSet(q)
    BY <1>2 DEF ToSet
  <1> QED
    BY <1>1, <1>2, <1>4, <1>5 DEF ToSet

LEMMA Appended ==
  ASSUME NEW S, NEW q \in Seq(S), NEW x, NEW r, r = Append(q, x)
  PROVE  /\ r \in Seq(S \cup {x})
         /\ Len(q) \in Nat /\ DOMAIN q = 1..Len(q)
         /\ Len(r) = Len(q) + 1 /\ DOMAIN r = 1..(Len(q) + 1)
         /\ \A i \in 1..Len(q) : r[i] = q[i]
         /\ r[Len(q) + 1] = x
  <1>1. q \in Seq(S \cup {x})
    BY SeqMonotonic
  <1>2. /\ r \in Seq(S \cup {x})
        /\ Len(r) = Len(q) + 1
        /\ \A i \in 1..Len(q) : r[i] = q[i]
        /\ r[Len(q) + 1] = x
    BY <1>1, AppendProperties
  <1>3. Len(q) \in Nat /\ DOMAIN q = 1..Len(q) /\ DOMAIN r = 1..(Len(q) + 1)
    BY <1>2, LenProperties
  <1> QED
    BY <1>2, <1>3

(* A seed comes from one of the two lists. *)
Given == ToSet(lists.curated) \cup {DiscoveredSeed(c.repo) : c \in ToSet(lists.listed)}

Typed ==
    /\ TypeOK
    /\ \E S : yielded \in Seq(S)
    /\ names \in Seq(Repos)
    /\ entries \in Seq(Seed) /\ ToSet(entries) \subseteq ToSet(lists.curated)
    /\ lines \in Seq(Candidate) /\ ToSet(lines) \subseteq ToSet(lists.listed)
    /\ ToSet(seeds) \subseteq Given
    /\ \A r \in DOMAIN clones : clones[r] \in Checkouts[r]
    /\ pc \in {"root", "walk"} => repo \in DOMAIN clones

(* The names resolve_repo_list is given: the curated, then the discovered. *)
LEMMA ListingAt ==
  ASSUME NEW l, IsLists(l)
  PROVE  /\ Listing(l) \in Seq(Repos)
         /\ Len(l.curated) \in Nat /\ Len(l.listed) \in Nat
         /\ Len(Listing(l)) = Len(l.curated) + Len(l.listed)
         /\ \A i \in 1..Len(l.curated) : Listing(l)[i] = l.curated[i].repo
         /\ \A i \in 1..Len(l.listed) : Listing(l)[Len(l.curated) + i] = l.listed[i].repo
  <1>1. /\ l.curated \in Seq(Seed) /\ l.listed \in Seq(Candidate)
        /\ Len(l.curated) \in Nat /\ DOMAIN l.curated = 1..Len(l.curated)
        /\ Len(l.listed) \in Nat /\ DOMAIN l.listed = 1..Len(l.listed)
    BY LenProperties DEF IsLists
  <1>2. /\ \A i \in 1..Len(l.curated) : l.curated[i].repo \in Repos
        /\ \A i \in 1..Len(l.listed) : l.listed[i].repo \in Repos
    <2>1. \A i \in 1..Len(l.curated) : l.curated[i] \in Seed
      BY <1>1, ElementOfSeq
    <2>2. \A i \in 1..Len(l.listed) : l.listed[i] \in Candidate
      BY <1>1, ElementOfSeq
    <2> QED
      BY <2>1, <2>2 DEF Seed, Candidate
  <1>3. PICK m, n, q, r :
          /\ m = Len(l.curated) /\ n = Len(l.listed)
          /\ q = [i \in DOMAIN l.curated |-> l.curated[i].repo]
          /\ r = [i \in DOMAIN l.listed |-> l.listed[i].repo]
    OBVIOUS
  <1>4. /\ q \in Seq(Repos) /\ r \in Seq(Repos) /\ Len(q) = m /\ Len(r) = n
        /\ m \in Nat /\ n \in Nat
        /\ \A i \in 1..m : q[i] = l.curated[i].repo
        /\ \A i \in 1..n : r[i] = l.listed[i].repo
    BY <1>1, <1>2, <1>3
  <1>5. Listing(l) = q \o r
    BY <1>3 DEF Listing
  <1>6. /\ q \o r \in Seq(Repos) /\ Len(q \o r) = m + n
        /\ \A i \in 1..(m + n) : (q \o r)[i] = IF i <= m THEN q[i] ELSE r[i - m]
    BY <1>4, ConcatProperties
  <1>7. \A i \in 1..m : i \in 1..(m + n) /\ i <= m
    BY <1>4
  <1>8. \A i \in 1..n : m + i \in 1..(m + n) /\ ~(m + i <= m) /\ (m + i) - m = i
    BY <1>4
  <1>9. /\ Listing(l) \in Seq(Repos) /\ Len(Listing(l)) = m + n
        /\ \A i \in 1..m : Listing(l)[i] = l.curated[i].repo
    BY <1>4, <1>5, <1>6, <1>7
  <1>10. \A i \in 1..n : Listing(l)[m + i] = r[i]
    BY <1>4, <1>5, <1>6, <1>8
  <1>11. \A i \in 1..n : Listing(l)[m + i] = l.listed[i].repo
    BY <1>4, <1>10
  <1> QED
    BY <1>1, <1>3, <1>9, <1>11

LEMMA NamedTyped ==
  ASSUME NEW l, IsLists(l)
  PROVE  Named(l) \in Seq(Repos)
  BY ListingAt DEF Named, IsLists

LEMMA InitTyped ==
  ASSUME Init
  PROVE  Typed
  <1>1. /\ lists \in Lists /\ lists.curated \in Seq(Seed) /\ lists.listed \in Seq(Candidate)
        /\ names \in Seq(Repos)
    BY ConnectorAssumption, NamedTyped DEF Init, IsLists
  <1>2. <<>> \in Seq(Seed) /\ <<>> \in Seq(Repos) /\ <<>> \in Seq([repo : Repos, outcome : Outcomes]) /\ Len(<<>>) = 0
    BY EmptySeq
  <1>3. DOMAIN <<>> = {} /\ ToSet(<<>>) = {}
    BY DEF ToSet
  <1>4. TypeOK
    BY <1>1, <1>2, <1>3 DEF Init, TypeOK
  <1> QED
    BY <1>1, <1>2, <1>3, <1>4 DEF Init, Typed

(* The seed and the tree in hand. *)
LEMMA InHand ==
  ASSUME Typed, seeds # <<>>
  PROVE  /\ repo \in Repos /\ seeds[1] \in Seed /\ seeds[1] \in Given
         /\ Tail(seeds) \in Seq(Seed) /\ ToSet(Tail(seeds)) \subseteq Given
         /\ repo \in DOMAIN clones => IsTree(tree) /\ tree.licences \in Seq(SUBSET DOMAIN MarkerRules)
  <1>1. seeds \in Seq(Seed) /\ ToSet(seeds) \subseteq Given
    BY DEF Typed, TypeOK
  <1>2. seeds[1] \in Seed /\ seeds[1] \in Given /\ Tail(seeds) \in Seq(Seed) /\ ToSet(Tail(seeds)) \subseteq Given
    BY <1>1, HeadAndTail
  <1>3. repo \in Repos
    BY <1>2 DEF repo, Seed
  <1>4. repo \in DOMAIN clones => tree \in Checkouts[repo]
    BY DEF Typed, tree
  <1> QED
    BY <1>2, <1>3, <1>4, ConnectorAssumption

(* What a record appended leaves of those before it. *)
LEMMA Yielded ==
  ASSUME Typed, NEW d, Yield(d)
  PROVE  \E y :
           /\ y.walk = Len(log) + 1 /\ y.repo = repo /\ y.path = d
           /\ y.licence = licence /\ y.official = seeds[1].official
           /\ y.place = PlaceOf(OriginOf[repo], MetaOf(d))
           /\ \E S : yielded' \in Seq(S)
           /\ Len(yielded) \in Nat
           /\ DOMAIN yielded = 1..Len(yielded) /\ DOMAIN yielded' = 1..(Len(yielded) + 1)
           /\ \A i \in 1..Len(yielded) : yielded'[i] = yielded[i]
           /\ yielded'[Len(yielded) + 1] = y
           /\ ToSet(yielded)' = ToSet(yielded) \cup {y}
  <1>1. PICK y : y = [walk |-> Len(log) + 1, repo |-> repo, path |-> d,
                      place |-> PlaceOf(OriginOf[repo], MetaOf(d)),
                      licence |-> licence, official |-> seeds[1].official]
    OBVIOUS
  <1>2. /\ y.walk = Len(log) + 1 /\ y.repo = repo /\ y.path = d
        /\ y.licence = licence /\ y.official = seeds[1].official
        /\ y.place = PlaceOf(OriginOf[repo], MetaOf(d))
        /\ yielded' = Append(yielded, y)
    BY <1>1 DEF Yield
  <1>3. PICK S : yielded \in Seq(S)
    BY DEF Typed
  <1>4. /\ yielded' \in Seq(S \cup {y})
        /\ Len(yielded) \in Nat /\ DOMAIN yielded = 1..Len(yielded)
        /\ DOMAIN yielded' = 1..(Len(yielded) + 1)
        /\ \A i \in 1..Len(yielded) : yielded'[i] = yielded[i]
        /\ yielded'[Len(yielded) + 1] = y
        /\ ToSet(yielded') = ToSet(yielded) \cup {y}
    <2>1. PICK q, r : q = yielded /\ r = yielded' /\ q \in Seq(S) /\ r = Append(q, y)
      BY <1>2, <1>3
    <2>2. /\ r \in Seq(S \cup {y})
          /\ Len(q) \in Nat /\ DOMAIN q = 1..Len(q)
          /\ DOMAIN r = 1..(Len(q) + 1)
          /\ \A i \in 1..Len(q) : r[i] = q[i]
          /\ r[Len(q) + 1] = y
      BY ONLY <2>1, Appended
    <2>3. DOMAIN r = DOMAIN q \cup {Len(q) + 1}
      BY <2>2
    <2>4. ToSet(r) = ToSet(q) \cup {y}
      BY <2>2, <2>3 DEF ToSet
    <2> QED
      BY <2>1, <2>2, <2>4
  <1> QED
    BY <1>2, <1>4

LEMMA Logged ==
  ASSUME Typed, seeds # <<>>, NEW outcome \in Outcomes, NextSeed(outcome)
  PROVE  /\ log' \in Seq([repo : Repos, outcome : Outcomes])
         /\ Len(log) \in Nat /\ Len(log') = Len(log) + 1
         /\ \A k \in 1..Len(log) : log'[k] = log[k]
         /\ log'[Len(log) + 1] = [repo |-> repo, outcome |-> outcome]
         /\ seeds' \in Seq(Seed) /\ ToSet(seeds') \subseteq Given
         /\ pc' = "seeds"
  <1> DEFINE rec == [repo |-> repo, outcome |-> outcome]
             Entry == [repo : Repos, outcome : Outcomes]
  <1>1. log' = Append(log, rec) /\ seeds' = Tail(seeds) /\ pc' = "seeds"
    BY DEF NextSeed
  <1>2. log \in Seq(Entry) /\ rec \in Entry
    BY InHand DEF Typed, TypeOK
  <1> HIDE DEF rec, Entry
  <1>3. /\ Append(log, rec) \in Seq(Entry)
        /\ Len(log) \in Nat /\ Len(Append(log, rec)) = Len(log) + 1
        /\ \A k \in 1..Len(log) : Append(log, rec)[k] = log[k]
        /\ Append(log, rec)[Len(log) + 1] = rec
    BY <1>2, AppendProperties, LenProperties
  <1>4. seeds' \in Seq(Seed) /\ ToSet(seeds') \subseteq Given
    BY <1>1, InHand
  <1> QED
    BY <1>1, <1>3, <1>4 DEF rec, Entry

LEMMA CloneTyped ==
  ASSUME Typed, Clone
  PROVE  Typed' /\ \A r \in DOMAIN clones : r \in DOMAIN clones' /\ clones'[r] = clones[r]
  <1>1. seeds # <<>> /\ repo \in Repos
    BY InHand DEF Clone
  <1>2. /\ repo \in DOMAIN clones'
        /\ DOMAIN clones' \subseteq Repos
        /\ \A r \in DOMAIN clones' : clones'[r] \in Checkouts[r]
        /\ \A r \in DOMAIN clones : r \in DOMAIN clones' /\ clones'[r] = clones[r]
    <2>1. CASE repo \in DOMAIN clones
      BY <2>1 DEF Clone, Typed, TypeOK
    <2>2. CASE repo \notin DOMAIN clones
      <3>1. PICK t \in Checkouts[repo] :
              clones' = [r \in {repo} \cup DOMAIN clones |-> IF r = repo THEN t ELSE clones[r]]
        BY <2>2 DEF Clone
      <3>2. /\ DOMAIN clones' = {repo} \cup DOMAIN clones
            /\ clones'[repo] = t
            /\ \A r \in DOMAIN clones : clones'[r] = clones[r]
        BY <2>2, <3>1
      <3> QED
        BY <1>1, <3>1, <3>2 DEF Typed, TypeOK
    <2> QED
      BY <2>1, <2>2
  <1>3. /\ UNCHANGED <<lists, names, queue, entries, lines, seeds, pending, yielded, log>>
        /\ pc = "seeds" /\ pc' = "root" /\ count' = 0
    BY DEF Clone, listVars, queueVars
  <1>4. repo' = repo
    BY <1>3 DEF repo
  <1>5. TypeOK'
    BY <1>1, <1>2, <1>3 DEF Typed, TypeOK
  <1>6. Given' = Given
    BY <1>3 DEF Given
  <1> QED
    BY <1>2, <1>3, <1>4, <1>5, <1>6 DEF Typed

(* The list of seeds grows by what the lists give. *)
LEMMA LoadTyped ==
  ASSUME Typed, LoadSeed \/ LoadDiscoveredSeed
  PROVE  Typed'
  <1>1. seeds \in Seq(Seed) /\ ToSet(seeds) \subseteq Given /\ Given' = Given
    BY DEF Typed, TypeOK, LoadSeed, LoadDiscoveredSeed, Given, queueVars
  <1>2. ASSUME NEW s \in Seed \cap Given, seeds' = Append(seeds, s)
        PROVE  seeds' \in Seq(Seed) /\ ToSet(seeds') \subseteq Given
    <2>1. PICK q, r : q = seeds /\ r = seeds' /\ q \in Seq(Seed) /\ r = Append(q, s)
      BY <1>1, <1>2
    <2>2. /\ r \in Seq(Seed \cup {s})
          /\ Len(q) \in Nat /\ DOMAIN q = 1..Len(q) /\ DOMAIN r = 1..(Len(q) + 1)
          /\ \A i \in 1..Len(q) : r[i] = q[i]
          /\ r[Len(q) + 1] = s
      BY ONLY <2>1, Appended
    <2>3. \A i \in DOMAIN r : i \in DOMAIN q \/ i = Len(q) + 1
      BY <2>2
    <2>4. ToSet(r) \subseteq ToSet(q) \cup {s}
      BY <2>2, <2>3 DEF ToSet
    <2>5. Seed \cup {s} = Seed
      OBVIOUS
    <2> QED
      BY <1>1, <2>1, <2>2, <2>4, <2>5
  <1>3. CASE LoadSeed
    <2>1. /\ pc = "load" /\ entries # <<>> /\ entries' = Tail(entries)
          /\ seeds' = IF Selected(Head(entries).repo) THEN Append(seeds, Head(entries)) ELSE seeds
          /\ UNCHANGED <<lists, names, queue, lines, pc, clones, licence, pending, count, yielded, log>>
      BY <1>3 DEF LoadSeed, queueVars, walkVars
    <2>2. /\ Head(entries) \in Seed /\ Head(entries) \in ToSet(lists.curated)
          /\ entries' \in Seq(Seed) /\ ToSet(entries') \subseteq ToSet(lists.curated)
      BY <2>1, HeadAndTail DEF Typed
    <2>3. Head(entries) \in Seed \cap Given
      BY <2>2 DEF Given
    <2>4. seeds' \in Seq(Seed) /\ ToSet(seeds') \subseteq Given
      BY <1>1, <1>2, <2>1, <2>3
    <2>5. TypeOK'
      BY <2>1, <2>4 DEF Typed, TypeOK
    <2> QED
      BY <1>1, <2>1, <2>2, <2>4, <2>5 DEF Typed
  <1>4. CASE LoadDiscoveredSeed
    <2>1. /\ pc = "load" /\ lines # <<>> /\ lines' = Tail(lines)
          /\ seeds' = AddDiscovered(seeds, Head(lines))
          /\ UNCHANGED <<lists, names, queue, entries, pc, clones, licence, pending, count, yielded, log>>
      BY <1>4 DEF LoadDiscoveredSeed, queueVars, walkVars
    <2>2. /\ Head(lines) \in Candidate /\ Head(lines) \in ToSet(lists.listed)
          /\ lines' \in Seq(Candidate) /\ ToSet(lines') \subseteq ToSet(lists.listed)
      BY <2>1, HeadAndTail DEF Typed
    <2>3. DiscoveredSeed(Head(lines).repo) \in Seed \cap Given
      <3>1. Head(lines).repo \in Repos
        BY <2>2 DEF Candidate
      <3>2. DiscoveredSeed(Head(lines).repo) \in Seed
        BY <3>1 DEF DiscoveredSeed, Seed
      <3>3. DiscoveredSeed(Head(lines).repo) \in Given
        BY <2>2 DEF Given
      <3> QED
        BY <3>2, <3>3
    <2>4. seeds' = seeds \/ seeds' = Append(seeds, DiscoveredSeed(Head(lines).repo))
      BY <2>1 DEF AddDiscovered
    <2>5. seeds' \in Seq(Seed) /\ ToSet(seeds') \subseteq Given
      BY <1>1, <1>2, <2>3, <2>4
    <2>6. TypeOK'
      BY <2>1, <2>5 DEF Typed, TypeOK
    <2> QED
      BY <1>1, <2>1, <2>2, <2>5, <2>6 DEF Typed
  <1> QED
    BY <1>3, <1>4

(* A name read is kept, or it was there. *)
LEMMA QueueTyped ==
  ASSUME Typed, DedupPreserve
  PROVE  Typed'
  <1>1. /\ names # <<>> /\ names' = Tail(names) /\ queue' = KeepFirst(queue, Head(names))
        /\ UNCHANGED <<lists, entries, lines, pc, seeds, clones, licence, pending, count, yielded, log>>
    BY DEF DedupPreserve, walkVars
  <1>2. names \in Seq(Repos) /\ queue \in Seq(Repos)
    BY DEF Typed, TypeOK
  <1>3. Head(names) \in Repos /\ Tail(names) \in Seq(Repos)
    BY <1>1, <1>2, HeadAndTail
  <1>4. Append(queue, Head(names)) \in Seq(Repos)
    BY <1>2, <1>3, AppendProperties
  <1>5. queue' \in Seq(Repos) /\ names' \in Seq(Repos)
    BY <1>1, <1>2, <1>3, <1>4 DEF KeepFirst
  <1>6. TypeOK' /\ Given' = Given /\ repo' = repo
    BY <1>1, <1>5 DEF Typed, TypeOK, Given, repo
  <1> QED
    BY <1>1, <1>5, <1>6 DEF Typed

(* A challenge yielded leaves the rest of the state typed. *)
LEMMA YieldTyped ==
  ASSUME Typed, NEW d \in Directory, Yield(d)
  PROVE  /\ \E S : yielded' \in Seq(S)
         /\ \A i \in DOMAIN yielded' :
              yielded'[i].path \in Directory /\ yielded'[i].walk \in 1..(Len(log) + 1)
         /\ count' \in Nat
  <1>1. PICK y :
           /\ y.walk = Len(log) + 1 /\ y.path = d
           /\ \E S : yielded' \in Seq(S)
           /\ Len(yielded) \in Nat
           /\ DOMAIN yielded = 1..Len(yielded) /\ DOMAIN yielded' = 1..(Len(yielded) + 1)
           /\ \A i \in 1..Len(yielded) : yielded'[i] = yielded[i]
           /\ yielded'[Len(yielded) + 1] = y
    BY Yielded
  <1>2. Len(log) \in Nat
    BY LenProperties DEF Typed, TypeOK
  <1>3. \A i \in DOMAIN yielded' : i \in DOMAIN yielded \/ i = Len(yielded) + 1
    BY <1>1
  <1>4. \A i \in DOMAIN yielded :
          yielded[i].path \in Directory /\ yielded[i].walk \in 1..(Len(log) + 1)
    BY DEF Typed, TypeOK
  <1>5. \A i \in DOMAIN yielded' :
          yielded'[i].path \in Directory /\ yielded'[i].walk \in 1..(Len(log) + 1)
    BY <1>1, <1>2, <1>3, <1>4
  <1>6. count' \in Nat
    BY DEF Typed, TypeOK, Yield
  <1> QED
    BY <1>1, <1>5, <1>6

LEMMA StepTyped ==
  ASSUME Typed, [Next]_vars
  PROVE  Typed'
  <1>0. /\ seeds \in Seq(Seed) /\ ToSet(seeds) \subseteq Given
        /\ log \in Seq([repo : Repos, outcome : Outcomes]) /\ Len(log) \in Nat
        /\ \A i \in DOMAIN yielded :
             yielded[i].path \in Directory /\ yielded[i].walk \in 1..(Len(log) + 1)
    BY LenProperties DEF Typed, TypeOK
  <1>1. CASE LoadSeed
    BY <1>1, LoadTyped
  <1>2. CASE LoadDiscoveredSeed
    BY <1>2, LoadTyped
  <1>3. CASE Discover
    BY <1>3 DEF Discover, Typed, TypeOK, Given, listVars, queueVars, walkVars
  <1>4. CASE Clone
    BY <1>4, CloneTyped
  <1>5. CASE CloneFails
    <2>1. /\ pc = "seeds" /\ seeds # <<>> /\ NextSeed("skipped")
          /\ UNCHANGED <<lists, names, queue, entries, lines, clones, licence, pending, count, yielded>>
      BY <1>5 DEF CloneFails, listVars, queueVars
    <2>2. "skipped" \in Outcomes
      BY DEF Outcomes
    <2>3. /\ log' \in Seq([repo : Repos, outcome : Outcomes]) /\ Len(log') = Len(log) + 1
          /\ seeds' \in Seq(Seed) /\ ToSet(seeds') \subseteq Given /\ pc' = "seeds"
      BY <2>1, <2>2, Logged
    <2>4. \A i \in DOMAIN yielded' : yielded'[i].path \in Directory /\ yielded'[i].walk \in 1..(Len(log') + 1)
      BY <1>0, <2>1, <2>3
    <2>5. TypeOK'
      BY <2>1, <2>3, <2>4 DEF Typed, TypeOK
    <2> QED
      BY <2>1, <2>3, <2>5 DEF Typed, Given
  <1>6. CASE RootIsChallenge
    <2>1. /\ pc = "root" /\ Yield(Root) /\ NextSeed("walked") /\ seeds # <<>>
          /\ UNCHANGED <<lists, names, queue, entries, lines, clones, licence, pending>>
      BY <1>6 DEF RootIsChallenge, listVars, queueVars, Typed, TypeOK
    <2>2. "walked" \in Outcomes /\ Root \in Directory
      BY EmptySeq DEF Outcomes, Root, Directory
    <2>3. /\ log' \in Seq([repo : Repos, outcome : Outcomes]) /\ Len(log') = Len(log) + 1
          /\ seeds' \in Seq(Seed) /\ ToSet(seeds') \subseteq Given /\ pc' = "seeds"
      BY <2>1, <2>2, Logged
    <2>4. /\ \E S : yielded' \in Seq(S)
          /\ \A i \in DOMAIN yielded' :
               yielded'[i].path \in Directory /\ yielded'[i].walk \in 1..(Len(log) + 1)
          /\ count' \in Nat
      BY <2>1, <2>2, YieldTyped
    <2>5. \A i \in DOMAIN yielded' : yielded'[i].path \in Directory /\ yielded'[i].walk \in 1..(Len(log') + 1)
      BY <1>0, <2>3, <2>4
    <2>6. TypeOK'
      BY <2>1, <2>3, <2>4, <2>5 DEF Typed, TypeOK
    <2> QED
      BY <2>1, <2>3, <2>4, <2>6 DEF Typed, Given
  <1>7. CASE EnterRoot
    <2>1. /\ pc = "root" /\ pending' = RootChildren /\ pc' = "walk" /\ seeds # <<>>
          /\ UNCHANGED <<lists, names, queue, entries, lines, seeds, clones, licence, count, yielded, log>>
      BY <1>7 DEF EnterRoot, listVars, queueVars, Typed, TypeOK
    <2>2. repo \in DOMAIN clones /\ IsTree(tree) /\ repo' = repo
      BY <2>1, InHand DEF Typed, repo
    <2>3. \A d \in pending' : d \in Directory
      BY <2>1, <2>2 DEF RootChildren, Subdirs, IsTree
    <2>4. TypeOK'
      BY <2>1, <2>3 DEF Typed, TypeOK
    <2> QED
      BY <2>1, <2>2, <2>4 DEF Typed, Given
  <1>8. ASSUME NEW d \in pending, YieldChallenge(d)
        PROVE  Typed'
    <2>1. /\ pc = "walk" /\ Yield(d) /\ pending' \subseteq pending /\ seeds # <<>>
          /\ UNCHANGED <<lists, names, queue, entries, lines, clones, licence>>
          /\ d \in Directory
      BY <1>8 DEF YieldChallenge, listVars, queueVars, Typed, TypeOK
    <2>2. /\ \E S : yielded' \in Seq(S)
          /\ \A i \in DOMAIN yielded' :
               yielded'[i].path \in Directory /\ yielded'[i].walk \in 1..(Len(log) + 1)
          /\ count' \in Nat
      BY <2>1, YieldTyped
    <2>3. CASE Cut
      <3>1. pending' = {} /\ NextSeed("cut")
        BY <1>8, <2>3 DEF YieldChallenge
      <3>2. "cut" \in Outcomes
        BY DEF Outcomes
      <3>3. /\ log' \in Seq([repo : Repos, outcome : Outcomes]) /\ Len(log') = Len(log) + 1
            /\ seeds' \in Seq(Seed) /\ ToSet(seeds') \subseteq Given /\ pc' = "seeds"
        BY <2>1, <3>1, <3>2, Logged
      <3>4. \A i \in DOMAIN yielded' :
              yielded'[i].path \in Directory /\ yielded'[i].walk \in 1..(Len(log') + 1)
        BY <1>0, <2>2, <3>3
      <3>5. TypeOK'
        BY <2>1, <2>2, <3>1, <3>3, <3>4 DEF Typed, TypeOK
      <3> QED
        BY <2>1, <2>2, <3>3, <3>5 DEF Typed, Given
    <2>4. CASE ~Cut
      <3>1. UNCHANGED <<seeds, log, pc>>
        BY <1>8, <2>4 DEF YieldChallenge
      <3>2. repo' = repo
        BY <3>1 DEF repo
      <3>3. TypeOK'
        BY <2>1, <2>2, <3>1 DEF Typed, TypeOK
      <3> QED
        BY <2>1, <2>2, <3>1, <3>2, <3>3 DEF Typed, Given
    <2> QED
      BY <2>3, <2>4
  <1>9. ASSUME NEW d \in pending, Descend(d)
        PROVE  Typed'
    <2>1. /\ pc = "walk" /\ pending' = (pending \ {d}) \cup Subdirs(tree, d) /\ seeds # <<>>
          /\ UNCHANGED <<lists, names, queue, entries, lines, pc, seeds, clones, licence, count, yielded, log>>
      BY <1>9 DEF Descend, listVars, queueVars, Typed, TypeOK
    <2>2. repo \in DOMAIN clones /\ IsTree(tree) /\ repo' = repo
      BY <2>1, InHand DEF Typed, repo
    <2>3. \A e \in pending' : e \in Directory
      BY <2>1, <2>2 DEF Subdirs, IsTree, Typed, TypeOK
    <2>4. TypeOK'
      BY <2>1, <2>3 DEF Typed, TypeOK
    <2> QED
      BY <2>1, <2>2, <2>4 DEF Typed, Given
  <1>10. CASE YieldRoot
    <2>1. /\ pc = "walk" /\ pending = {} /\ Yield(Root) /\ NextSeed("walked") /\ seeds # <<>>
          /\ UNCHANGED <<lists, names, queue, entries, lines, clones, licence, pending>>
      BY <1>10 DEF YieldRoot, listVars, queueVars, Typed, TypeOK
    <2>2. "walked" \in Outcomes /\ Root \in Directory
      BY EmptySeq DEF Outcomes, Root, Directory
    <2>3. /\ log' \in Seq([repo : Repos, outcome : Outcomes]) /\ Len(log') = Len(log) + 1
          /\ seeds' \in Seq(Seed) /\ ToSet(seeds') \subseteq Given /\ pc' = "seeds"
      BY <2>1, <2>2, Logged
    <2>4. /\ \E S : yielded' \in Seq(S)
          /\ \A i \in DOMAIN yielded' :
               yielded'[i].path \in Directory /\ yielded'[i].walk \in 1..(Len(log) + 1)
          /\ count' \in Nat
      BY <2>1, <2>2, YieldTyped
    <2>5. \A i \in DOMAIN yielded' : yielded'[i].path \in Directory /\ yielded'[i].walk \in 1..(Len(log') + 1)
      BY <1>0, <2>3, <2>4
    <2>6. TypeOK'
      BY <2>1, <2>3, <2>4, <2>5 DEF Typed, TypeOK
    <2> QED
      BY <2>1, <2>3, <2>4, <2>6 DEF Typed, Given
  <1>11. CASE EndWalk
    <2>1. /\ pc = "walk" /\ pending = {} /\ NextSeed("walked") /\ seeds # <<>>
          /\ UNCHANGED <<lists, names, queue, entries, lines, clones, licence, pending, count, yielded>>
      BY <1>11 DEF EndWalk, listVars, queueVars, Typed, TypeOK
    <2>2. "walked" \in Outcomes
      BY DEF Outcomes
    <2>3. /\ log' \in Seq([repo : Repos, outcome : Outcomes]) /\ Len(log') = Len(log) + 1
          /\ seeds' \in Seq(Seed) /\ ToSet(seeds') \subseteq Given /\ pc' = "seeds"
      BY <2>1, <2>2, Logged
    <2>4. \A i \in DOMAIN yielded' : yielded'[i].path \in Directory /\ yielded'[i].walk \in 1..(Len(log') + 1)
      BY <1>0, <2>1, <2>3
    <2>5. TypeOK'
      BY <2>1, <2>3, <2>4 DEF Typed, TypeOK
    <2> QED
      BY <2>1, <2>3, <2>5 DEF Typed, Given
  <1>12. CASE EndDiscover
    BY <1>12 DEF EndDiscover, Typed, TypeOK, Given, listVars, queueVars
  <1>13. CASE UNCHANGED vars
    BY <1>13 DEF vars, Typed, TypeOK, Given, repo
  <1>14. CASE DedupPreserve
    BY <1>14, QueueTyped
  <1>15. CASE Resolved
    BY <1>15 DEF Resolved, Typed, TypeOK, Given, listVars, queueVars, walkVars
  <1> QED
    BY <1>1, <1>2, <1>3, <1>4, <1>5, <1>6, <1>7, <1>8, <1>9, <1>10, <1>11, <1>12, <1>13, <1>14, <1>15
    DEF Next, Over

LEMMA TypedAlways == Spec => []Typed
  <1>1. Init => Typed
    BY InitTyped
  <1>2. Typed /\ [Next]_vars => Typed'
    BY StepTyped
  <1> QED
    BY <1>1, <1>2, PTL DEF Spec

(* For any lists and checkouts, every variable of the connector has its type,
   and a generator that a limit or a root challenge ended leaves no directory
   to the walk over the next repo. *)
THEOREM TypeCorrect == Spec => []TypeOK
  <1>1. Typed => TypeOK
    BY DEF Typed
  <1> QED
    BY <1>1, TypedAlways, PTL

-----------------------------------------------------------------------------
(* The generator goes through a walk: the records of the walk under way are
   what it has found, and a walk that has ended keeps what it found. *)

Settled(k) ==
    /\ log[k].outcome # "skipped" => log[k].repo \in DOMAIN clones
    /\ CASE log[k].outcome = "skipped" -> Found(k) = {}
         [] log[k].outcome = "walked"  -> Found(k) = There(k)
         [] log[k].outcome = "cut"     ->
              /\ Found(k) \subseteq There(k)
              /\ Cardinality(Found(k)) = lists.most
              /\ \A d \in Found(k) : \A e \in There(k) \ Found(k) : Before(d, e)

InWalk(n) ==
    /\ Root \notin DOMAIN tree.json
    /\ Progress(tree, Found(n), pending)
    /\ IsFiniteSet(Found(n)) /\ count = Cardinality(Found(n))
    /\ lists.most # 0 => count < lists.most

WalksInv ==
    /\ InOrder
    /\ \A k \in Walks : Settled(k)
    /\ pc = "root" => count = 0
    /\ pc # "walk" => Found(Len(log) + 1) = {}
    /\ pc = "walk" => InWalk(Len(log) + 1)

LEMMA FoundGrows ==
  ASSUME Typed, NEW d, Yield(d), NEW n, n = Len(log) + 1
  PROVE  /\ Found(n)' = Found(n) \cup {d}
         /\ \A k \in Walks : Found(k)' = Found(k)
  <1>1. PICK y : y.walk = n /\ y.path = d /\ ToSet(yielded)' = ToSet(yielded) \cup {y}
    BY Yielded
  <1>2. Found(n)' = Found(n) \cup {d}
    BY <1>1 DEF Found
  <1>3. Len(log) \in Nat
    BY LenProperties DEF Typed, TypeOK
  <1>4. ASSUME NEW k \in Walks PROVE Found(k)' = Found(k)
    <2>1. k # n
      BY <1>3 DEF Walks
    <2> QED
      BY <1>1, <2>1 DEF Found
  <1> QED
    BY <1>2, <1>4

(* No record is of a walk to come. *)
LEMMA NothingBeyond ==
  ASSUME Typed, NEW n \in Nat, n > Len(log) + 1
  PROVE  Found(n) = {}
  <1>1. Len(log) \in Nat
    BY LenProperties DEF Typed, TypeOK
  <1>2. \A y \in ToSet(yielded) : y.walk \in 1..(Len(log) + 1)
    BY DEF Typed, TypeOK, ToSet
  <1> QED
    BY <1>1, <1>2 DEF Found

LEMMA OrderStays ==
  ASSUME Typed, InOrder, NEW d \in Directory, Yield(d),
         \A s \in Found(Len(log) + 1) : Before(s, d)
  PROVE  InOrder'
  <1>1. PICK y :
           /\ y.walk = Len(log) + 1 /\ y.path = d
           /\ Len(yielded) \in Nat
           /\ DOMAIN yielded = 1..Len(yielded) /\ DOMAIN yielded' = 1..(Len(yielded) + 1)
           /\ \A i \in 1..Len(yielded) : yielded'[i] = yielded[i]
           /\ yielded'[Len(yielded) + 1] = y
    BY Yielded
  <1>2. SUFFICES ASSUME NEW i \in DOMAIN yielded', NEW j \in DOMAIN yielded',
                        yielded'[i].walk = yielded'[j].walk, i < j
                 PROVE  Before(yielded'[i].path, yielded'[j].path)
    BY DEF InOrder
  <1>3. i \in 1..Len(yielded) /\ yielded'[i] = yielded[i]
    BY <1>1, <1>2
  <1>4. CASE j \in 1..Len(yielded)
    BY <1>1, <1>2, <1>3, <1>4 DEF InOrder
  <1>5. CASE j = Len(yielded) + 1
    <2>1. yielded[i].walk = Len(log) + 1 /\ yielded[i] \in ToSet(yielded)
      BY <1>1, <1>2, <1>3, <1>5 DEF ToSet
    <2>2. yielded[i].path \in Found(Len(log) + 1)
      BY <2>1 DEF Found
    <2> QED
      BY <1>1, <1>3, <1>5, <2>2
  <1> QED
    BY <1>1, <1>2, <1>4, <1>5

LEMMA SettledStays ==
  ASSUME NEW k \in Walks, Settled(k),
         log'[k] = log[k], Found(k)' = Found(k), lists' = lists,
         \A r \in DOMAIN clones : r \in DOMAIN clones' /\ clones'[r] = clones[r]
  PROVE  Settled(k)'
  <1>1. CASE log[k].outcome = "skipped"
    BY <1>1 DEF Settled
  <1>2. CASE log[k].outcome # "skipped"
    <2>1. /\ log[k].repo \in DOMAIN clones /\ log[k].repo \in DOMAIN clones'
          /\ clones'[log[k].repo] = clones[log[k].repo]
      BY <1>2 DEF Settled
    <2>2. There(k)' = There(k)
      BY <2>1 DEF There
    <2> QED
      BY <1>2, <2>1, <2>2 DEF Settled
  <1> QED
    BY <1>1, <1>2

(* The walk in hand ends with an outcome its records bear out. *)
LEMMA WalkSettles ==
  ASSUME Typed, WalksInv, seeds # <<>>, NEW outcome \in Outcomes, NextSeed(outcome),
         lists' = lists, clones' = clones, NEW n, n = Len(log) + 1,
         \A k \in Walks : Found(k)' = Found(k),
         outcome = "skipped" => Found(n)' = {},
         outcome # "skipped" => repo \in DOMAIN clones,
         outcome = "walked" => Found(n)' = ChallengeDirs(tree),
         outcome = "cut" =>
           /\ Found(n)' \subseteq ChallengeDirs(tree)
           /\ Cardinality(Found(n)') = lists.most
           /\ \A d \in Found(n)' : \A e \in ChallengeDirs(tree) \ Found(n)' : Before(d, e)
  PROVE  \A k \in Walks' : Settled(k)'
  <1>1. /\ Len(log) \in Nat /\ Len(log') = Len(log) + 1
        /\ \A k \in 1..Len(log) : log'[k] = log[k]
        /\ log'[Len(log) + 1] = [repo |-> repo, outcome |-> outcome]
    BY Logged
  <1>2. ASSUME NEW k \in Walks PROVE Settled(k)'
    <2>1. log'[k] = log[k] /\ Settled(k)
      BY <1>1 DEF Walks, WalksInv
    <2> QED
      BY <2>1, SettledStays
  <1>3. Settled(n)'
    <2>1. log'[n].repo = repo /\ log'[n].outcome = outcome
      BY <1>1
    <2>2. outcome # "skipped" => There(n)' = ChallengeDirs(tree)
      BY <2>1 DEF There, tree
    <2> QED
      BY <2>1, <2>2 DEF Settled, Outcomes
  <1>4. ASSUME NEW k \in Walks' PROVE k \in Walks \/ k = n
    BY <1>1 DEF Walks
  <1> QED
    BY <1>2, <1>3, <1>4

LEMMA InitWalks ==
  ASSUME Init
  PROVE  WalksInv
  <1>1. /\ yielded = <<>> /\ log = <<>> /\ pc = "resolve" /\ DOMAIN yielded = {} /\ Len(log) = 0
    BY EmptySeq DEF Init
  <1>2. ToSet(yielded) = {}
    BY <1>1 DEF ToSet
  <1>3. \A k : Found(k) = {}
    BY <1>2 DEF Found
  <1>4. Walks = {}
    BY <1>1 DEF Walks
  <1> QED
    BY <1>1, <1>3, <1>4 DEF WalksInv, InOrder

(* Between two repos nothing happens to the walks. *)
LEMMA IdleWalks ==
  ASSUME Typed, WalksInv, UNCHANGED <<lists, yielded, log>>,
         \A r \in DOMAIN clones : r \in DOMAIN clones' /\ clones'[r] = clones[r],
         pc # "walk", pc' # "walk", pc' = "root" => count' = 0
  PROVE  WalksInv'
  <1>1. \A k : Found(k)' = Found(k)
    BY DEF Found
  <1>2. \A k \in Walks : log'[k] = log[k] /\ Settled(k)
    BY DEF WalksInv
  <1>3. \A k \in Walks : Settled(k)'
    BY <1>1, <1>2, SettledStays
  <1> QED
    BY <1>1, <1>3 DEF WalksInv, Walks, InOrder

(* A walk that ends leaves the next to begin anew. *)
LEMMA EndedWalks ==
  ASSUME Typed, UNCHANGED yielded \/ \E d \in Directory : Yield(d),
         Len(log') = Len(log) + 1, pc' = "seeds", InOrder', \A k \in Walks' : Settled(k)'
  PROVE  WalksInv'
  <1>1. Len(log) \in Nat
    BY LenProperties DEF Typed, TypeOK
  <1>2. \A y \in ToSet(yielded) : y.walk \in 1..(Len(log) + 1)
    BY DEF Typed, TypeOK, ToSet
  <1>3. \A y \in ToSet(yielded)' : y.walk \in 1..(Len(log) + 1)
    <2>1. CASE UNCHANGED yielded
      BY <1>2, <2>1 DEF ToSet
    <2>2. ASSUME NEW d \in Directory, Yield(d)
          PROVE  \A y \in ToSet(yielded)' : y.walk \in 1..(Len(log) + 1)
      <3>1. PICK y : y.walk = Len(log) + 1 /\ ToSet(yielded)' = ToSet(yielded) \cup {y}
        BY <2>2, Yielded
      <3> QED
        BY <1>1, <1>2, <3>1
    <2> QED
      BY <2>1, <2>2
  <1>4. \A y \in ToSet(yielded)' : y.walk # Len(log') + 1
    BY <1>1, <1>3
  <1>5. Found(Len(log) + 1)' = {}
    BY <1>4 DEF Found
  <1> QED
    BY <1>5 DEF WalksInv

LEMMA ChallengesBelow ==
  ASSUME NEW t, Root \notin DOMAIN t.json, Topmost(t) # {}
  PROVE  ChallengeDirs(t) = Topmost(t)
  BY DEF ChallengeDirs

LEMMA StepWalks ==
  ASSUME Typed, WalksInv, [Next]_vars
  PROVE  WalksInv'
  <1>0. Len(log) \in Nat /\ Root \in Directory
    BY LenProperties, EmptySeq DEF Typed, TypeOK, Root, Directory
  <1>n. PICK n : n = Len(log) + 1
    OBVIOUS
  <1>1. CASE LoadSeed
    BY <1>1, IdleWalks DEF LoadSeed, queueVars, walkVars
  <1>2. CASE LoadDiscoveredSeed
    BY <1>2, IdleWalks DEF LoadDiscoveredSeed, queueVars, walkVars
  <1>3. CASE Discover
    BY <1>3, IdleWalks DEF Discover, listVars, queueVars, walkVars
  <1>4. CASE Clone
    <2>1. \A r \in DOMAIN clones : r \in DOMAIN clones' /\ clones'[r] = clones[r]
      BY <1>4, CloneTyped
    <2> QED
      BY <1>4, <2>1, IdleWalks DEF Clone, listVars, queueVars
  <1>5. CASE CloneFails
    <2>1. /\ pc = "seeds" /\ seeds # <<>> /\ NextSeed("skipped")
          /\ lists' = lists /\ clones' = clones /\ yielded' = yielded
      BY <1>5 DEF CloneFails, listVars, queueVars
    <2>2. "skipped" \in Outcomes
      BY DEF Outcomes
    <2>3. \A k : Found(k)' = Found(k)
      BY <2>1 DEF Found
    <2>4. Found(n)' = {}
      BY <1>n, <2>1, <2>3 DEF WalksInv
    <2>5. \A k \in Walks' : Settled(k)'
      BY <1>n, <2>1, <2>2, <2>3, <2>4, WalkSettles
    <2>6. Len(log') = Len(log) + 1 /\ pc' = "seeds"
      BY <2>1, <2>2, Logged
    <2>7. InOrder'
      BY <2>1 DEF WalksInv, InOrder
    <2> QED
      BY <2>1, <2>5, <2>6, <2>7, EndedWalks
  <1>6. CASE RootIsChallenge
    <2>1. /\ pc = "root" /\ seeds # <<>> /\ repo \in DOMAIN clones
          /\ Root \in DOMAIN tree.json /\ Yield(Root) /\ NextSeed("walked")
          /\ lists' = lists /\ clones' = clones
      BY <1>6 DEF RootIsChallenge, listVars, queueVars, Typed, TypeOK
    <2>2. "walked" \in Outcomes
      BY DEF Outcomes
    <2>3. Found(Len(log) + 1) = {} /\ Found(n) = {}
      BY <1>n, <2>1 DEF WalksInv
    <2>4. Found(n)' = {Root} /\ \A k \in Walks : Found(k)' = Found(k)
      BY <1>n, <2>1, <2>3, FoundGrows
    <2>5. Found(n)' = ChallengeDirs(tree)
      BY <2>1, <2>4 DEF ChallengeDirs
    <2>6. \A k \in Walks' : Settled(k)'
      BY <1>n, <2>1, <2>2, <2>4, <2>5, WalkSettles
    <2>7. Len(log') = Len(log) + 1 /\ pc' = "seeds"
      BY <2>1, <2>2, Logged
    <2>8. InOrder'
      BY <1>0, <2>1, <2>3, OrderStays DEF WalksInv
    <2> QED
      BY <1>0, <2>1, <2>6, <2>7, <2>8, EndedWalks
  <1>7. CASE EnterRoot
    <2>1. /\ pc = "root" /\ Root \notin DOMAIN tree.json /\ pending' = RootChildren /\ pc' = "walk"
          /\ lists' = lists /\ clones' = clones /\ seeds' = seeds /\ count' = count
          /\ yielded' = yielded /\ log' = log
      BY <1>7 DEF EnterRoot, listVars, queueVars
    <2>2. seeds # <<>> /\ IsTree(tree) /\ tree' = tree
      BY <2>1, InHand DEF Typed, TypeOK, tree, repo
    <2>3. Found(n) = {} /\ count = 0
      BY <1>n, <2>1 DEF WalksInv
    <2>4. \A k : Found(k)' = Found(k)
      BY <2>1 DEF Found
    <2>5. Progress(tree, {}, RootChildren)
      BY <2>2, ProgressStart DEF RootChildren
    <2>6. InWalk(n)'
      <3>1. IsFiniteSet({}) /\ Cardinality({}) = 0
        BY FS_EmptySet
      <3>2. lists.most # 0 => 0 < lists.most
        BY ConnectorAssumption DEF Typed, TypeOK, IsLists
      <3> QED
        BY <2>1, <2>2, <2>3, <2>4, <2>5, <3>1, <3>2 DEF InWalk
    <2>7. \A k \in Walks : Settled(k)'
      BY <2>1, <2>4, SettledStays DEF WalksInv
    <2> QED
      BY <1>n, <2>1, <2>6, <2>7 DEF WalksInv, Walks, InOrder
  <1>8. ASSUME NEW d \in pending, YieldChallenge(d)
        PROVE  WalksInv'
    <2>1. /\ pc = "walk" /\ IsNext(d) /\ IsChallenge(tree, d) /\ Yield(d)
          /\ lists' = lists /\ clones' = clones
          /\ seeds # <<>> /\ repo \in DOMAIN clones /\ d \in Directory
      BY <1>8 DEF YieldChallenge, listVars, queueVars, Typed, TypeOK
    <2>2. IsTree(tree)
      BY <2>1, InHand
    <2>3. InWalk(n)
      BY <1>n, <2>1 DEF WalksInv
    <2>4. /\ d \in Topmost(tree) \ Found(n)
          /\ \A s \in Found(n) : Before(s, d)
          /\ Progress(tree, Found(n) \cup {d}, pending \ {d})
      BY <2>1, <2>2, <2>3, ProgressYield DEF InWalk, IsNext
    <2>5. Found(n)' = Found(n) \cup {d} /\ \A k \in Walks : Found(k)' = Found(k)
      BY <1>n, <2>1, FoundGrows
    <2>6. IsFiniteSet(Found(n)') /\ Cardinality(Found(n)') = Cardinality(Found(n)) + 1
      BY <2>3, <2>4, <2>5, FS_AddElement DEF InWalk
    <2>7. count' = Cardinality(Found(n)') /\ count \in Nat /\ count' = count + 1
      BY <2>1, <2>3, <2>6 DEF InWalk, Yield, Typed, TypeOK
    <2>8. InOrder'
      BY <1>n, <2>1, <2>4, OrderStays DEF WalksInv
    <2>9. CASE Cut
      <3>1. NextSeed("cut") /\ lists.most # 0 /\ count' >= lists.most
        BY <1>8, <2>9 DEF YieldChallenge, Cut
      <3>2. count' = lists.most
        BY <2>3, <2>7, <3>1, ConnectorAssumption DEF InWalk, Typed, TypeOK, IsLists
      <3>3. ChallengeDirs(tree) = Topmost(tree)
        BY <2>3, <2>4, ChallengesBelow DEF InWalk
      <3>4. Found(n)' \subseteq Topmost(tree)
        BY <2>4, <2>5 DEF Progress
      <3>5. \A s \in Found(n)' : \A c \in Topmost(tree) \ Found(n)' : Before(s, c)
        BY <2>2, <2>4, <2>5, ProgressOrder
      <3>6. "cut" \in Outcomes /\ "cut" # "skipped" /\ "cut" # "walked"
        BY DEF Outcomes
      <3>7. \A k \in Walks' : Settled(k)'
        BY <1>n, <2>1, <2>5, <2>7, <3>1, <3>2, <3>3, <3>4, <3>5, <3>6, WalkSettles
      <3>8. Len(log') = Len(log) + 1 /\ pc' = "seeds"
        BY <2>1, <3>1, <3>6, Logged
      <3> QED
        BY <2>1, <2>8, <3>7, <3>8, EndedWalks
    <2>10. CASE ~Cut
      <3>1. /\ UNCHANGED <<seeds, log, pc>> /\ pending' = pending \ {d}
            /\ lists.most # 0 => count' < lists.most
        <4>1. lists.most \in Nat
          BY ConnectorAssumption DEF Typed, TypeOK, IsLists
        <4> QED
          BY <1>8, <2>7, <2>10, <4>1 DEF YieldChallenge, Cut
      <3>2. tree' = tree
        BY <2>1, <3>1 DEF tree, repo
      <3>3. InWalk(n)'
        BY <2>1, <2>3, <2>4, <2>5, <2>6, <2>7, <3>1, <3>2 DEF InWalk
      <3>4. \A k \in Walks : Settled(k)'
        BY <2>1, <2>5, <3>1, SettledStays DEF WalksInv
      <3> QED
        BY <1>n, <2>1, <2>8, <3>1, <3>3, <3>4 DEF WalksInv, Walks
    <2> QED
      BY <2>9, <2>10
  <1>9. ASSUME NEW d \in pending, Descend(d)
        PROVE  WalksInv'
    <2>1. /\ pc = "walk" /\ ~IsChallenge(tree, d) /\ pending' = (pending \ {d}) \cup Subdirs(tree, d)
          /\ lists' = lists /\ clones' = clones /\ seeds' = seeds /\ count' = count
          /\ yielded' = yielded /\ log' = log /\ pc' = pc
      BY <1>9 DEF Descend, listVars, queueVars
    <2>2. seeds # <<>> /\ IsTree(tree) /\ tree' = tree
      BY <2>1, InHand DEF Typed, TypeOK, tree, repo
    <2>3. InWalk(n)
      BY <1>n, <2>1 DEF WalksInv
    <2>4. \A k : Found(k)' = Found(k)
      BY <2>1 DEF Found
    <2>5. Progress(tree, Found(n), (pending \ {d}) \cup Subdirs(tree, d))
      BY <2>1, <2>2, <2>3, ProgressDescend DEF InWalk
    <2>6. InWalk(n)'
      BY <2>1, <2>2, <2>3, <2>4, <2>5 DEF InWalk
    <2>7. \A k \in Walks : Settled(k)'
      BY <2>1, <2>4, SettledStays DEF WalksInv
    <2> QED
      BY <1>n, <2>1, <2>6, <2>7 DEF WalksInv, Walks, InOrder
  <1>10. CASE YieldRoot
    <2>1. /\ pc = "walk" /\ pending = {} /\ count = 0 /\ IsChallenge(tree, Root)
          /\ Yield(Root) /\ NextSeed("walked") /\ seeds # <<>> /\ repo \in DOMAIN clones
          /\ lists' = lists /\ clones' = clones
      BY <1>10 DEF YieldRoot, listVars, queueVars, Typed, TypeOK
    <2>2. "walked" \in Outcomes
      BY DEF Outcomes
    <2>3. InWalk(n)
      BY <1>n, <2>1 DEF WalksInv
    <2>4. Found(n) = {} /\ Topmost(tree) = {}
      BY <2>1, <2>3, FS_EmptySet, ProgressEnds DEF InWalk
    <2>5. Found(n)' = {Root} /\ \A k \in Walks : Found(k)' = Found(k)
      BY <1>n, <2>1, <2>4, FoundGrows
    <2>6. Found(n)' = ChallengeDirs(tree)
      BY <2>1, <2>3, <2>4, <2>5 DEF ChallengeDirs, InWalk
    <2>7. \A k \in Walks' : Settled(k)'
      BY <1>n, <2>1, <2>2, <2>5, <2>6, WalkSettles
    <2>8. Len(log') = Len(log) + 1 /\ pc' = "seeds"
      BY <2>1, <2>2, Logged
    <2>9. InOrder'
      BY <1>0, <1>n, <2>1, <2>4, OrderStays DEF WalksInv
    <2> QED
      BY <1>0, <2>1, <2>7, <2>8, <2>9, EndedWalks
  <1>11. CASE EndWalk
    <2>1. /\ pc = "walk" /\ pending = {} /\ (count > 0 \/ ~IsChallenge(tree, Root))
          /\ NextSeed("walked") /\ seeds # <<>> /\ repo \in DOMAIN clones
          /\ lists' = lists /\ clones' = clones /\ yielded' = yielded
      BY <1>11 DEF EndWalk, listVars, queueVars, Typed, TypeOK
    <2>2. "walked" \in Outcomes
      BY DEF Outcomes
    <2>3. InWalk(n)
      BY <1>n, <2>1 DEF WalksInv
    <2>4. Found(n) = Topmost(tree)
      BY <2>1, <2>3, ProgressEnds DEF InWalk
    <2>5. count > 0 => Found(n) # {}
      BY <2>3, FS_EmptySet DEF InWalk
    <2>6. Found(n) = ChallengeDirs(tree)
      BY <2>1, <2>3, <2>4, <2>5 DEF ChallengeDirs, InWalk
    <2>7. \A k : Found(k)' = Found(k)
      BY <2>1 DEF Found
    <2>8. \A k \in Walks' : Settled(k)'
      BY <1>n, <2>1, <2>2, <2>6, <2>7, WalkSettles
    <2>9. Len(log') = Len(log) + 1 /\ pc' = "seeds"
      BY <2>1, <2>2, Logged
    <2>10. InOrder'
      BY <2>1 DEF WalksInv, InOrder
    <2> QED
      BY <2>1, <2>8, <2>9, <2>10, EndedWalks
  <1>12. CASE EndDiscover
    BY <1>12, IdleWalks DEF EndDiscover, listVars, queueVars
  <1>13. CASE UNCHANGED vars
    <2>1. \A k : Found(k)' = Found(k) /\ (Settled(k) <=> Settled(k)') /\ (InWalk(k) <=> InWalk(k)')
      BY <1>13 DEF vars, Found, Settled, InWalk, There, tree, repo
    <2> QED
      BY <1>13, <2>1 DEF vars, WalksInv, Walks, InOrder
  <1>14. CASE DedupPreserve
    BY <1>14, IdleWalks DEF DedupPreserve, walkVars
  <1>15. CASE Resolved
    BY <1>15, IdleWalks DEF Resolved, listVars, queueVars, walkVars
  <1> QED
    BY <1>1, <1>2, <1>3, <1>4, <1>5, <1>6, <1>7, <1>8, <1>9, <1>10, <1>11, <1>12, <1>13, <1>14, <1>15
    DEF Next, Over

LEMMA WalksAlways == Spec => []WalksInv
  <1>1. Init => WalksInv
    BY InitWalks
  <1>2. Typed /\ WalksInv /\ [Next]_vars => WalksInv'
    BY StepWalks
  <1> QED
    BY <1>1, <1>2, TypedAlways, PTL DEF Spec

(* For any tree a checkout may be, a walk that is not cut yields every topmost
   challenge directory and no other, one that is cut the first of them in path
   order, and one that fails to clone none. *)
THEOREM CompleteWalks == Spec => []WalkFindsChallenges
  <1>1. WalksInv => WalkFindsChallenges
    BY DEF WalksInv, WalkFindsChallenges, Settled
  <1> QED
    BY <1>1, WalksAlways, PTL

(* No walk over any tree yields a directory twice, or both a directory and one
   below it. *)
THEOREM NoNesting == Spec => []NeverParentAndChild
  <1>1. Typed /\ WalksInv => NeverParentAndChild
    <2>1. SUFFICES ASSUME Typed, WalksInv, NEW i \in DOMAIN yielded, NEW j \in DOMAIN yielded,
                          yielded[i].walk = yielded[j].walk, i # j
                   PROVE  ~IsPrefix(yielded[i].path, yielded[j].path)
      BY DEF NeverParentAndChild
    <2>2. yielded[i].path \in Directory /\ yielded[j].path \in Directory
      BY <2>1 DEF Typed, TypeOK
    <2>3. i \in Nat /\ j \in Nat
      <3>1. PICK S : yielded \in Seq(S)
        BY <2>1 DEF Typed
      <3>2. DOMAIN yielded = 1..Len(yielded) /\ Len(yielded) \in Nat
        BY <3>1, LenProperties
      <3> QED
        BY <3>2
    <2>4. CASE i < j
      BY <2>1, <2>2, <2>4, BeforeApart DEF WalksInv, InOrder
    <2>5. CASE j < i
      BY <2>1, <2>2, <2>5, BeforeApart DEF WalksInv, InOrder
    <2> QED
      BY <2>1, <2>3, <2>4, <2>5
  <1> QED
    BY <1>1, TypedAlways, WalksAlways, PTL

-----------------------------------------------------------------------------
(* Each record by itself: it is a topmost challenge of its checkout, or the
   root; and what it says of its licence was proved. *)

HasLicence(r, official, info) ==
    info.redistributable =>
        \E s \in Given :
            /\ s.repo = r
            /\ s.official = official
            /\ \/ IsRedistributable(s.declared)
               \/ /\ s.declared = NoSpdx
                  /\ \E f \in ToSet(clones[r].licences) :
                       \E m \in f : IsRedistributable(MarkerRules[m])

(* The least of a set of positions is one of them. *)
LEMMA MinIsMember ==
  ASSUME NEW S, S \subseteq Nat, S # {}
  PROVE  Min(S) \in S /\ \A y \in S : Min(S) <= y
  <1>1. PICK R : IsWellFoundedOn(R, Nat) /\ \A a, b \in Nat : a < b => <<a, b>> \in R
    <2>1. \A a, b \in Nat : a < b => <<a, b>> \in OpToRel(<, Nat)
      BY DEF OpToRel
    <2> QED
      BY <2>1, NatLessThanWellFounded, Zenon
  <1>2. IsWellFoundedOn(R, Nat)
    BY <1>1
  <1>3. \E x \in S : \A y \in S : <<y, x>> \notin R
    BY <1>2, WFMin
  <1>4. \E x \in S : \A y \in S : ~(y < x)
    BY <1>1, <1>3
  <1>5. \E x \in S : \A y \in S : x <= y
    BY <1>4
  <1> QED
    BY <1>5 DEF Min

(* detect_repo_license takes nothing for redistributable that neither the seed
   declares so nor a rule that a licence file matches. *)
LEMMA LicenceDetected ==
  ASSUME NEW files \in Seq(SUBSET DOMAIN MarkerRules), NEW declared,
         DetectRepoLicense(files, declared).redistributable
  PROVE  \/ IsRedistributable(declared)
         \/ /\ declared = NoSpdx
            /\ \E f \in ToSet(files) : \E m \in f : IsRedistributable(MarkerRules[m])
  <1>1. ~Undetected.redistributable /\ Undetected.confidence = 0
    BY LicencesAssumption DEF Undetected, LicenseInfo, IsRedistributable
  <1>2. CASE declared # NoSpdx
    <2>1. FromSpdx(declared).redistributable
      BY <1>2 DEF DetectRepoLicense
    <2> QED
      BY <1>1, <2>1 DEF FromSpdx, LicenseInfo
  <1>3. CASE declared = NoSpdx
    <2> DEFINE infos == [i \in DOMAIN files |-> DetectFromText(files[i])]
               Surest == {i \in DOMAIN files : \A j \in DOMAIN files :
                            infos[i].confidence >= infos[j].confidence}
    <2>1. files # <<>> /\ infos[Min(Surest)].redistributable
      BY <1>1, <1>3 DEF DetectRepoLicense
    <2>2. DOMAIN files = 1..Len(files) /\ Len(files) \in Nat /\ 1 \in DOMAIN files
      BY <2>1, LenProperties, EmptySeq
    <2>3. \A i \in DOMAIN files : infos[i].confidence \in {0, 75}
      BY <1>1 DEF DetectFromText, LicenseInfo
    <2>4. Surest # {}
      <3>1. CASE \E i \in DOMAIN files : infos[i].confidence = 75
        <4>1. PICK i \in DOMAIN files : infos[i].confidence = 75
          BY <3>1
        <4>2. \A j \in DOMAIN files : infos[i].confidence >= infos[j].confidence
          BY <2>3, <4>1
        <4> QED
          BY <4>2
      <3>2. CASE ~ \E i \in DOMAIN files : infos[i].confidence = 75
        <4>1. \A j \in DOMAIN files : infos[1].confidence >= infos[j].confidence
          BY <2>2, <2>3, <3>2
        <4> QED
          BY <2>2, <4>1
      <3> QED
        BY <3>1, <3>2
    <2>5. Surest \subseteq DOMAIN files /\ Surest \subseteq Nat
      BY <2>2
    <2> HIDE DEF Surest
    <2>6. Min(Surest) \in DOMAIN files
      BY <2>4, <2>5, MinIsMember
    <2>7. PICK i \in DOMAIN files : DetectFromText(files[i]).redistributable
      BY <2>1, <2>6
    <2>8. files[i] \in SUBSET DOMAIN MarkerRules /\ files[i] \in ToSet(files)
      BY <2>2, <2>7, ElementOfSeq DEF ToSet
    <2>9. files[i] # {} /\ IsRedistributable(MarkerRules[Min(files[i])])
      BY <1>1, <2>7 DEF DetectFromText, LicenseInfo
    <2>10. files[i] \subseteq Nat
      BY <2>8, LicencesAssumption, LenProperties
    <2>11. Min(files[i]) \in files[i]
      BY <2>9, <2>10, MinIsMember
    <2> QED
      BY <1>3, <2>8, <2>9, <2>11
  <1> QED
    BY <1>2, <1>3

RecordOK(y) ==
    /\ y.repo \in DOMAIN clones
    /\ y.path = Root \/ y.path \in Topmost(clones[y.repo])
    /\ HasLicence(y.repo, y.official, y.licence)

RecordsInv ==
    /\ \A y \in ToSet(yielded) : RecordOK(y)
    /\ pc \in {"root", "walk"} => HasLicence(repo, seeds[1].official, licence)

LEMMA RecordStays ==
  ASSUME NEW y, RecordOK(y), lists' = lists,
         \A r \in DOMAIN clones : r \in DOMAIN clones' /\ clones'[r] = clones[r]
  PROVE  RecordOK(y)'
  <1>1. y.repo \in DOMAIN clones /\ y.repo \in DOMAIN clones' /\ clones'[y.repo] = clones[y.repo]
    BY DEF RecordOK
  <1>2. Given' = Given
    BY DEF Given
  <1>3. HasLicence(y.repo, y.official, y.licence)'
    BY <1>1, <1>2 DEF RecordOK, HasLicence
  <1> QED
    BY <1>1, <1>3 DEF RecordOK

LEMMA RecordsStay ==
  ASSUME RecordsInv, lists' = lists, yielded' = yielded,
         \A r \in DOMAIN clones : r \in DOMAIN clones' /\ clones'[r] = clones[r]
  PROVE  \A y \in ToSet(yielded)' : RecordOK(y)'
  <1>1. ToSet(yielded)' = ToSet(yielded)
    BY DEF ToSet
  <1> QED
    BY <1>1, RecordStays DEF RecordsInv

LEMMA RecordsGrow ==
  ASSUME Typed, RecordsInv, lists' = lists, clones' = clones, pc \in {"root", "walk"},
         NEW d, Yield(d), d = Root \/ d \in Topmost(tree)
  PROVE  \A y \in ToSet(yielded)' : RecordOK(y)'
  <1>1. PICK z : /\ z.repo = repo /\ z.path = d /\ z.licence = licence /\ z.official = seeds[1].official
                 /\ ToSet(yielded)' = ToSet(yielded) \cup {z}
    BY Yielded
  <1>2. RecordOK(z)
    BY <1>1 DEF RecordOK, RecordsInv, Typed, tree
  <1>3. \A y \in ToSet(yielded)' : RecordOK(y)
    BY <1>1, <1>2 DEF RecordsInv
  <1> QED
    BY <1>3, RecordStays

LEMMA StepRecords ==
  ASSUME Typed, Typed', WalksInv, RecordsInv, [Next]_vars
  PROVE  RecordsInv'
  <1>1. CASE LoadSeed
    BY <1>1, RecordsStay DEF LoadSeed, queueVars, walkVars, RecordsInv
  <1>2. CASE LoadDiscoveredSeed
    BY <1>2, RecordsStay DEF LoadDiscoveredSeed, queueVars, walkVars, RecordsInv
  <1>3. CASE Discover
    BY <1>3, RecordsStay DEF Discover, listVars, queueVars, walkVars, RecordsInv
  <1>4. CASE Clone
    <2>1. \A r \in DOMAIN clones : r \in DOMAIN clones' /\ clones'[r] = clones[r]
      BY <1>4, CloneTyped
    <2>2. /\ seeds # <<>> /\ seeds' = seeds /\ lists' = lists /\ yielded' = yielded /\ pc' = "root"
          /\ licence' = DetectRepoLicense(clones'[repo].licences, seeds[1].declared)
      BY <1>4 DEF Clone, listVars, queueVars
    <2>3. repo' = repo /\ Given' = Given /\ seeds[1] \in Given /\ seeds[1].repo = repo
      BY <2>2, InHand DEF repo, Given
    <2>4. clones'[repo].licences \in Seq(SUBSET DOMAIN MarkerRules)
      <3>1. repo \in DOMAIN clones' /\ repo \in Repos
        BY <2>2, <2>3, InHand DEF Typed
      <3>2. clones'[repo] \in Checkouts[repo]
        BY <3>1 DEF Typed
      <3> QED
        BY <3>1, <3>2, ConnectorAssumption
    <2>5. licence'.redistributable =>
            \/ IsRedistributable(seeds[1].declared)
            \/ /\ seeds[1].declared = NoSpdx
               /\ \E f \in ToSet(clones'[repo].licences) : \E m \in f : IsRedistributable(MarkerRules[m])
      BY <2>2, <2>4, LicenceDetected
    <2>6. HasLicence(repo, seeds[1].official, licence)'
      BY <2>2, <2>3, <2>5 DEF HasLicence
    <2> QED
      BY <2>1, <2>2, <2>6, RecordsStay DEF RecordsInv
  <1>5. CASE CloneFails
    <2>1. /\ seeds # <<>> /\ NextSeed("skipped") /\ pc' = "seeds"
          /\ lists' = lists /\ clones' = clones /\ yielded' = yielded
      BY <1>5 DEF CloneFails, NextSeed, listVars, queueVars
    <2> QED
      BY <2>1, RecordsStay DEF RecordsInv
  <1>6. CASE RootIsChallenge
    <2>1. /\ pc = "root" /\ Yield(Root) /\ pc' = "seeds" /\ lists' = lists /\ clones' = clones
      BY <1>6 DEF RootIsChallenge, NextSeed, listVars, queueVars
    <2> QED
      BY <2>1, RecordsGrow DEF RecordsInv
  <1>7. CASE EnterRoot
    <2>1. /\ pc = "root" /\ lists' = lists /\ clones' = clones /\ seeds' = seeds
          /\ yielded' = yielded /\ licence' = licence
      BY <1>7 DEF EnterRoot, listVars, queueVars
    <2>2. HasLicence(repo, seeds[1].official, licence)'
      BY <2>1 DEF RecordsInv, HasLicence, repo, Given
    <2> QED
      BY <2>1, <2>2, RecordsStay DEF RecordsInv
  <1>8. ASSUME NEW d \in pending, YieldChallenge(d)
        PROVE  RecordsInv'
    <2>1. /\ pc = "walk" /\ IsNext(d) /\ IsChallenge(tree, d) /\ Yield(d)
          /\ lists' = lists /\ clones' = clones /\ licence' = licence
          /\ seeds # <<>> /\ repo \in DOMAIN clones
      BY <1>8 DEF YieldChallenge, listVars, queueVars, Typed, TypeOK
    <2>2. PICK n : n = Len(log) + 1
      OBVIOUS
    <2>3. Progress(tree, Found(n), pending)
      BY <2>1, <2>2 DEF WalksInv, InWalk
    <2>4. d \in Topmost(tree)
      BY <2>1, <2>3, InHand, ProgressYield DEF IsNext
    <2>5. \A y \in ToSet(yielded)' : RecordOK(y)'
      BY <2>1, <2>4, RecordsGrow
    <2>6. CASE Cut
      BY <1>8, <2>5, <2>6 DEF YieldChallenge, NextSeed, RecordsInv
    <2>7. CASE ~Cut
      <3>1. seeds' = seeds
        BY <1>8, <2>7 DEF YieldChallenge
      <3>2. HasLicence(repo, seeds[1].official, licence)'
        BY <2>1, <3>1 DEF RecordsInv, HasLicence, repo, Given
      <3> QED
        BY <2>5, <3>2 DEF RecordsInv
    <2> QED
      BY <2>6, <2>7
  <1>9. ASSUME NEW d \in pending, Descend(d)
        PROVE  RecordsInv'
    <2>1. /\ pc = "walk" /\ lists' = lists /\ clones' = clones /\ seeds' = seeds
          /\ yielded' = yielded /\ licence' = licence
      BY <1>9 DEF Descend, listVars, queueVars
    <2>2. HasLicence(repo, seeds[1].official, licence)'
      BY <2>1 DEF RecordsInv, HasLicence, repo, Given
    <2> QED
      BY <2>1, <2>2, RecordsStay DEF RecordsInv
  <1>10. CASE YieldRoot
    <2>1. /\ pc = "walk" /\ Yield(Root) /\ pc' = "seeds" /\ lists' = lists /\ clones' = clones
      BY <1>10 DEF YieldRoot, NextSeed, listVars, queueVars
    <2> QED
      BY <2>1, RecordsGrow DEF RecordsInv
  <1>11. CASE EndWalk
    BY <1>11, RecordsStay DEF EndWalk, NextSeed, listVars, queueVars, RecordsInv
  <1>12. CASE EndDiscover
    BY <1>12, RecordsStay DEF EndDiscover, listVars, queueVars, RecordsInv
  <1>13. CASE UNCHANGED vars
    <2>1. /\ lists' = lists /\ clones' = clones /\ seeds' = seeds /\ pc' = pc
          /\ yielded' = yielded /\ licence' = licence
      BY <1>13 DEF vars
    <2>2. HasLicence(repo, seeds[1].official, licence) <=> HasLicence(repo, seeds[1].official, licence)'
      BY <2>1 DEF HasLicence, repo, Given
    <2> QED
      BY <2>1, <2>2, RecordsStay DEF RecordsInv
  <1>14. CASE DedupPreserve
    BY <1>14, RecordsStay DEF DedupPreserve, walkVars, RecordsInv
  <1>15. CASE Resolved
    BY <1>15, RecordsStay DEF Resolved, listVars, queueVars, walkVars, RecordsInv
  <1> QED
    BY <1>1, <1>2, <1>3, <1>4, <1>5, <1>6, <1>7, <1>8, <1>9, <1>10, <1>11, <1>12, <1>13, <1>14, <1>15
    DEF Next, Over

LEMMA RecordsAlways == Spec => []RecordsInv
  <1>1. Init => RecordsInv
    BY DEF Init, RecordsInv, ToSet
  <1>2. Typed /\ Typed' /\ WalksInv /\ RecordsInv /\ [Next]_vars => RecordsInv'
    BY StepRecords
  <1> QED
    BY <1>1, <1>2, TypedAlways, WalksAlways, PTL DEF Spec

(* For any tree, a part named as those that mark their parent is yielded only
   where the parent is no challenge for want of an artifact a walk can see. *)
THEOREM PartsStayParts == Spec => []PartsAreNoChallenges
  <1>1. Typed /\ RecordsInv => PartsAreNoChallenges
    <2>1. SUFFICES ASSUME Typed, RecordsInv, NEW y \in ToSet(yielded),
                          y.path # Root, Last(y.path) \in Markers,
                          SubtreeHasArtifacts(clones[y.repo], Front(y.path))
                   PROVE  FALSE
      BY DEF PartsAreNoChallenges
    <2>2. PICK t, d : t = clones[y.repo] /\ d = y.path
      OBVIOUS
    <2>3. IsTree(t) /\ d \in Topmost(t)
      <3>1. y.repo \in DOMAIN clones /\ d \in Topmost(t)
        BY <2>1, <2>2 DEF RecordsInv, RecordOK
      <3>2. y.repo \in Repos /\ t \in Checkouts[y.repo]
        BY <2>1, <2>2, <3>1 DEF Typed, TypeOK
      <3> QED
        BY <3>1, <3>2, ConnectorAssumption
    <2>4. d \in Visitable(t) /\ d \in t.dirs /\ d \in Directory /\ d # Root
      BY <2>1, <2>2, <2>3, TreePaths
    <2>5. /\ Front(d) \in Directory /\ Len(d) >= 1 /\ Len(Front(d)) = Len(d) - 1
          /\ IsPrefix(Front(d), d) /\ Front(d) # d /\ Last(d) = d[Len(d)]
      BY <2>4, Parent
    <2>6. Len(d) \in Nat /\ DOMAIN d = 1..Len(d)
      BY <2>4, PathIndices
    <2>7. Last(d) \notin Noise
      BY <2>4, <2>5, <2>6 DEF Visitable
    <2>8. IsChallenge(t, Front(d))
      <3>1. d \in Subdirs(t, Front(d))
        BY <2>4, <2>7 DEF Subdirs
      <3>2. Last(d) \in SubdirNames(t, Front(d)) \cap Markers
        BY <2>1, <2>2, <3>1 DEF SubdirNames
      <3> QED
        BY <2>1, <2>2, <3>2 DEF IsChallenge, IsChallengeRoot
    <2>9. CASE Front(d) = Root
      <3>1. Len(d) = 1
        BY <2>5, <2>6, <2>9, EmptySeq DEF Root
      <3>2. Last(d) \in Components /\ Last(d) = d[1]
        BY <2>1, <2>2, <2>5, <3>1, NamesAssumption
      <3> QED
        BY <2>4, <3>2 DEF Visitable
    <2>10. CASE Front(d) # Root
      <3>1. Front(d) \in t.dirs
        <4>1. Len(d) - 1 \in 0..Len(d)
          BY <2>5, <2>6
        <4>2. Front(d) \in Prefixes(d)
          BY <4>1 DEF Front, Prefixes
        <4> QED
          BY <2>3, <2>4, <4>2 DEF IsTree
      <3>2. IsStrictPrefix(Front(d), d)
        BY <2>5 DEF IsStrictPrefix
      <3> QED
        BY <2>3, <2>8, <2>10, <3>1, <3>2 DEF Topmost
    <2> QED
      BY <2>9, <2>10
  <1> QED
    BY <1>1, TypedAlways, RecordsAlways, PTL

(* Whatever the lists declare and the checkouts hold, a record passes for
   redistributable only by what its own seed or its own checkout's licence
   files say. *)
THEOREM ProvenLicence == Spec => []OnlyProvenRedistributable
  <1>1. RecordsInv => OnlyProvenRedistributable
    BY DEF RecordsInv, RecordOK, HasLicence, OnlyProvenRedistributable, Given
  <1> QED
    BY <1>1, RecordsAlways, PTL

-----------------------------------------------------------------------------
(* The two lists of repos *)

(* r is named, and s is not by then. *)
Earlier(g, r, s) == \E i \in DOMAIN g : g[i] = r /\ \A j \in 1..i : g[j] # s

OrderedAs(g, q) == \A m, n \in DOMAIN q : m < n => Earlier(g, q[m], q[n])

NamedUpTo(g, k) == {g[i] : i \in 1..k}

(* rest is what is left of g after its first k. *)
Rest(g, rest, k) ==
    /\ k + Len(rest) = Len(g)
    /\ \A i \in 1..Len(rest) : rest[i] = g[k + i]

LEMMA EarlierIsStrict ==
  ASSUME NEW S, NEW g \in Seq(S), NEW r, NEW s, Earlier(g, r, s)
  PROVE  r # s /\ ~Earlier(g, s, r)
  <1>1. DOMAIN g = 1..Len(g) /\ Len(g) \in Nat
    BY LenProperties
  <1>2. PICK i \in 1..Len(g) : g[i] = r /\ \A j \in 1..i : g[j] # s
    BY <1>1 DEF Earlier
  <1>3. r # s
    BY <1>1, <1>2
  <1>4. ASSUME NEW k \in 1..Len(g), g[k] = s, \A j \in 1..k : g[j] # r
        PROVE  FALSE
    <2>1. i \in 1..k \/ k \in 1..i
      BY <1>1
    <2> QED
      BY <1>2, <1>4, <2>1
  <1> QED
    BY <1>1, <1>3, <1>4 DEF Earlier

(* What is named by k comes before what is not. *)
LEMMA NamedEarlier ==
  ASSUME NEW S, NEW g \in Seq(S), NEW k \in 0..Len(g), NEW r \in NamedUpTo(g, k),
         NEW s, s \notin NamedUpTo(g, k)
  PROVE  Earlier(g, r, s)
  <1>1. DOMAIN g = 1..Len(g) /\ Len(g) \in Nat
    BY LenProperties
  <1>2. PICK i \in 1..k : g[i] = r
    BY DEF NamedUpTo
  <1>3. i \in DOMAIN g /\ \A j \in 1..i : j \in 1..k
    BY <1>1, <1>2
  <1> QED
    BY <1>2, <1>3 DEF Earlier, NamedUpTo

LEMMA NamedNext ==
  ASSUME NEW S, NEW g \in Seq(S), NEW k \in 0..Len(g), k < Len(g)
  PROVE  NamedUpTo(g, k + 1) = NamedUpTo(g, k) \cup {g[k + 1]}
  <1>1. Len(g) \in Nat
    BY LenProperties
  <1>2. \A i : i \in 1..(k + 1) <=> i \in 1..k \/ i = k + 1
    BY <1>1
  <1> QED
    BY <1>2 DEF NamedUpTo

LEMMA OrderedAppend ==
  ASSUME NEW S, NEW q \in Seq(S), NEW x, NEW r, r = Append(q, x),
         NEW g, OrderedAs(g, q), \A y \in ToSet(q) : Earlier(g, y, x)
  PROVE  OrderedAs(g, r) /\ ToSet(r) = ToSet(q) \cup {x}
  <1>1. /\ Len(q) \in Nat /\ DOMAIN q = 1..Len(q) /\ DOMAIN r = 1..(Len(q) + 1)
        /\ \A i \in 1..Len(q) : r[i] = q[i]
        /\ r[Len(q) + 1] = x
    BY Appended
  <1>2. DOMAIN r = DOMAIN q \cup {Len(q) + 1}
    BY <1>1
  <1>3. ToSet(r) = ToSet(q) \cup {x}
    BY <1>1, <1>2 DEF ToSet
  <1>4. ASSUME NEW m \in DOMAIN r, NEW n \in DOMAIN r, m < n
        PROVE  Earlier(g, r[m], r[n])
    <2>1. m \in 1..Len(q) /\ r[m] = q[m] /\ q[m] \in ToSet(q)
      BY <1>1, <1>4 DEF ToSet
    <2>2. CASE n = Len(q) + 1
      BY <1>1, <2>1, <2>2
    <2>3. CASE n \in 1..Len(q)
      BY <1>1, <1>4, <2>1, <2>3 DEF OrderedAs
    <2> QED
      BY <1>1, <2>2, <2>3
  <1> QED
    BY <1>3, <1>4 DEF OrderedAs

LEMMA RestNext ==
  ASSUME NEW S, NEW g \in Seq(S), NEW rest \in Seq(S), rest # <<>>,
         NEW k \in Nat, Rest(g, rest, k)
  PROVE  /\ k \in 0..Len(g) /\ k + 1 \in 0..Len(g) /\ k < Len(g)
         /\ Head(rest) = g[k + 1]
         /\ Rest(g, Tail(rest), k + 1)
  <1>1. /\ Len(g) \in Nat /\ Len(rest) \in Nat /\ Len(rest) >= 1
        /\ Head(rest) = rest[1]
    BY EmptySeq, LenProperties, HeadTailProperties
  <1>2. PICK q : q = Tail(rest)
    OBVIOUS
  <1>3. q \in Seq(S) /\ Len(q) = Len(rest) - 1 /\ \A i \in 1..(Len(rest) - 1) : q[i] = rest[i + 1]
    BY <1>2, HeadTailProperties
  <1>4. k + Len(rest) = Len(g) /\ \A i \in 1..Len(rest) : rest[i] = g[k + i]
    BY DEF Rest
  <1>5. \A i \in 1..(Len(rest) - 1) : i + 1 \in 1..Len(rest) /\ k + (i + 1) = (k + 1) + i
    BY <1>1
  <1>6. \A i \in 1..Len(q) : q[i] = g[(k + 1) + i]
    BY <1>1, <1>3, <1>4, <1>5
  <1>7. (k + 1) + Len(q) = Len(g) /\ 1 \in 1..Len(rest)
    <2>1. PICK m, n, l : m = Len(rest) /\ n = Len(g) /\ l = Len(q)
      OBVIOUS
    <2>2. m \in Nat /\ n \in Nat /\ m >= 1 /\ l = m - 1 /\ k + m = n
      BY <1>1, <1>3, <1>4, <2>1
    <2>3. (k + 1) + l = n /\ 1 \in 1..m
      BY <2>2
    <2> QED
      BY <2>1, <2>3
  <1> QED
    BY <1>1, <1>2, <1>4, <1>6, <1>7 DEF Rest

LEMMA RestAll ==
  ASSUME NEW S, NEW g \in Seq(S)
  PROVE  Rest(g, g, 0)
  <1>1. Len(g) \in Nat
    BY LenProperties
  <1>2. \A i \in 1..Len(g) : 0 + i = i
    BY <1>1
  <1> QED
    BY <1>1, <1>2 DEF Rest

(* Of what resolve_repo_list is given, the names it has read are in the queue,
   in the order it met them. *)
QueueInv ==
    /\ \E k \in Nat : Rest(Named(lists), names, k) /\ ToSet(queue) = NamedUpTo(Named(lists), k)
    /\ OrderedAs(Named(lists), queue)

LEMMA InitQueue ==
  ASSUME Init
  PROVE  QueueInv
  <1>1. Named(lists) \in Seq(Repos) /\ names = Named(lists) /\ queue = <<>>
    BY NamedTyped, ConnectorAssumption DEF Init
  <1>2. Rest(Named(lists), names, 0)
    BY <1>1, RestAll
  <1>3. ToSet(queue) = {} /\ NamedUpTo(Named(lists), 0) = {} /\ DOMAIN queue = {}
    BY <1>1 DEF ToSet, NamedUpTo
  <1> QED
    BY <1>2, <1>3 DEF QueueInv, OrderedAs

LEMMA DedupQueue ==
  ASSUME Typed, QueueInv, DedupPreserve
  PROVE  QueueInv'
  <1>1. PICK g, q, x : g = Named(lists) /\ q = queue /\ x = Head(names)
    OBVIOUS
  <1>2. PICK k \in Nat : Rest(g, names, k) /\ ToSet(q) = NamedUpTo(g, k)
    BY <1>1 DEF QueueInv
  <1>3. /\ g \in Seq(Repos) /\ names \in Seq(Repos) /\ q \in Seq(Repos) /\ names # <<>>
        /\ OrderedAs(g, q)
    BY <1>1, NamedTyped, ConnectorAssumption DEF Typed, TypeOK, DedupPreserve, QueueInv
  <1>4. /\ k \in 0..Len(g) /\ k < Len(g) /\ x = g[k + 1] /\ Rest(g, Tail(names), k + 1)
    BY <1>1, <1>2, <1>3, RestNext
  <1>5. NamedUpTo(g, k + 1) = NamedUpTo(g, k) \cup {x}
    BY <1>3, <1>4, NamedNext
  <1>6. names' = Tail(names) /\ queue' = KeepFirst(q, x) /\ Named(lists)' = g
    BY <1>1 DEF DedupPreserve, Named, Listing
  <1>7. PICK r : r = queue'
    OBVIOUS
  <1>8. ToSet(r) = NamedUpTo(g, k + 1) /\ OrderedAs(g, r)
    <2>1. CASE x \in ToSet(q)
      BY <1>2, <1>3, <1>5, <1>6, <1>7, <2>1 DEF KeepFirst
    <2>2. CASE x \notin ToSet(q)
      <3>1. r = Append(q, x)
        BY <1>6, <1>7, <2>2 DEF KeepFirst
      <3>2. \A y \in ToSet(q) : Earlier(g, y, x)
        BY <1>2, <1>3, <1>4, <2>2, NamedEarlier
      <3>3. q \in Seq(Repos) /\ OrderedAs(g, q)
        BY <1>3
      <3>4. OrderedAs(g, r) /\ ToSet(r) = ToSet(q) \cup {x}
        BY <3>1, <3>2, <3>3, OrderedAppend
      <3> QED
        BY <1>2, <1>5, <3>4
    <2> QED
      BY <2>1, <2>2
  <1>9. k + 1 \in Nat
    OBVIOUS
  <1>10. ToSet(queue)' = ToSet(r)
    BY <1>7 DEF ToSet
  <1> QED
    BY <1>4, <1>6, <1>7, <1>8, <1>9, <1>10 DEF QueueInv

(* The repos done, then those to come. *)
Visits(done, ahead) ==
    [k \in 1..(Len(done) + Len(ahead)) |->
        IF k <= Len(done) THEN done[k].repo ELSE ahead[k - Len(done)].repo]

Done == [repo : Repos, outcome : Outcomes]

LEMMA VisitsTyped ==
  ASSUME NEW done \in Seq(Done), NEW ahead \in Seq(Seed)
  PROVE  /\ Visits(done, ahead) \in Seq(Repos)
         /\ Len(Visits(done, ahead)) = Len(done) + Len(ahead)
         /\ DOMAIN Visits(done, ahead) = 1..(Len(done) + Len(ahead))
  <1>1. PICK m, n : m = Len(done) /\ n = Len(ahead) /\ m \in Nat /\ n \in Nat
    BY LenProperties
  <1>2. \A k \in 1..(m + n) : k <= m => done[k].repo \in Repos
    <2> SUFFICES ASSUME NEW k \in 1..(m + n), k <= m PROVE done[k].repo \in Repos
      OBVIOUS
    <2>1. k \in 1..Len(done)
      BY <1>1
    <2>2. done[k] \in Done
      BY <2>1, ElementOfSeq
    <2> QED
      BY <2>2 DEF Done
  <1>3. \A k \in 1..(m + n) : ~(k <= m) => ahead[k - m].repo \in Repos
    <2> SUFFICES ASSUME NEW k \in 1..(m + n), ~(k <= m) PROVE ahead[k - m].repo \in Repos
      OBVIOUS
    <2>1. k - m \in 1..Len(ahead)
      BY <1>1
    <2>2. ahead[k - m] \in Seed
      BY <2>1, ElementOfSeq
    <2> QED
      BY <2>2 DEF Seed
  <1>4. PICK v : v = Visits(done, ahead)
    OBVIOUS
  <1>5. v = [k \in 1..(m + n) |-> IF k <= m THEN done[k].repo ELSE ahead[k - m].repo]
    BY <1>1, <1>4 DEF Visits
  <1>6. m + n \in Nat /\ \A k \in 1..(m + n) : v[k] \in Repos
    BY <1>1, <1>2, <1>3, <1>5
  <1>7. v \in Seq(Repos) /\ DOMAIN v = 1..(m + n) /\ Len(v) = m + n
    BY <1>5, <1>6
  <1> QED
    BY <1>1, <1>4, <1>7

(* Before the first, a seed more is a visit more. *)
LEMMA VisitsGrow ==
  ASSUME NEW ahead \in Seq(Seed), NEW s \in Seed, NEW r, r = Append(ahead, s)
  PROVE  Visits(<<>>, r) = Append(Visits(<<>>, ahead), s.repo)
  <1>1. r \in Seq(Seed) /\ <<>> \in Seq(Done) /\ Len(<<>>) = 0 /\ s.repo \in Repos
    BY AppendProperties, EmptySeq DEF Seed
  <1>2. /\ Len(ahead) \in Nat /\ Len(r) = Len(ahead) + 1
        /\ \A i \in 1..Len(ahead) : r[i] = ahead[i]
        /\ r[Len(ahead) + 1] = s
    BY AppendProperties, LenProperties
  <1>3. PICK v, w, x, n : /\ v = Visits(<<>>, ahead) /\ w = Visits(<<>>, r) /\ x = Append(v, s.repo)
                          /\ n = Len(ahead)
    OBVIOUS
  <1>4. /\ v \in Seq(Repos) /\ Len(v) = n /\ w \in Seq(Repos) /\ Len(w) = n + 1 /\ n \in Nat
    <2>1. v \in Seq(Repos) /\ Len(v) = Len(<<>>) + Len(ahead)
      BY <1>1, <1>3, VisitsTyped
    <2>2. w \in Seq(Repos) /\ Len(w) = Len(<<>>) + Len(r)
      BY <1>1, <1>3, VisitsTyped
    <2>3. Len(v) = 0 + n /\ Len(w) = 0 + (n + 1) /\ n \in Nat
      BY <1>1, <1>2, <1>3, <2>1, <2>2
    <2> QED
      BY <2>1, <2>2, <2>3
  <1>5. /\ \A k \in 1..n : v[k] = ahead[k].repo
        /\ \A k \in 1..(n + 1) : w[k] = r[k].repo
    <2>1. v = [k \in 1..(0 + n) |-> IF k <= 0 THEN <<>>[k].repo ELSE ahead[k - 0].repo]
      BY <1>1, <1>3 DEF Visits
    <2>2. w = [k \in 1..(0 + (n + 1)) |-> IF k <= 0 THEN <<>>[k].repo ELSE r[k - 0].repo]
      BY <1>1, <1>2, <1>3 DEF Visits
    <2>3. \A k \in 1..(n + 1) : ~(k <= 0) /\ k - 0 = k /\ k \in 1..(0 + (n + 1))
      BY <1>4
    <2>4. \A k \in 1..n : ~(k <= 0) /\ k - 0 = k /\ k \in 1..(0 + n)
      BY <1>4
    <2> QED
      BY <2>1, <2>2, <2>3, <2>4
  <1>6. /\ x \in Seq(Repos) /\ Len(x) = n + 1
        /\ \A k \in 1..n : x[k] = v[k]
        /\ x[n + 1] = s.repo
    BY <1>1, <1>3, <1>4, AppendProperties
  <1>7. \A k \in 1..n : k \in 1..(n + 1) /\ r[k] = ahead[k]
    BY <1>2, <1>3, <1>4
  <1>8. n + 1 \in 1..(n + 1) /\ r[n + 1] = s
    BY <1>2, <1>3, <1>4
  <1>9. \A k \in 1..(n + 1) : k \in 1..n \/ k = n + 1
    BY <1>4
  <1>10. \A k \in 1..(n + 1) : w[k] = x[k]
    <2> SUFFICES ASSUME NEW k \in 1..(n + 1) PROVE w[k] = x[k]
      OBVIOUS
    <2>1. CASE k \in 1..n
      BY <1>5, <1>6, <1>7, <2>1
    <2>2. CASE k = n + 1
      BY <1>5, <1>6, <1>8, <2>2
    <2> QED
      BY <1>9, <2>1, <2>2
  <1>11. w = x
    BY <1>4, <1>6, <1>10, SeqEqual
  <1> QED
    BY <1>3, <1>11

(* A seed done is no longer to come. *)
LEMMA VisitsStay ==
  ASSUME NEW done \in Seq(Done), NEW ahead \in Seq(Seed), ahead # <<>>,
         NEW e \in Done, e.repo = ahead[1].repo
  PROVE  Visits(Append(done, e), Tail(ahead)) = Visits(done, ahead)
  <1>1. PICK m, n, d, a : m = Len(done) /\ n = Len(ahead) /\ d = Append(done, e) /\ a = Tail(ahead)
    OBVIOUS
  <1>2. /\ d \in Seq(Done) /\ m \in Nat /\ Len(d) = m + 1
        /\ \A i \in 1..m : d[i] = done[i]
        /\ d[m + 1] = e
    BY <1>1, AppendProperties, LenProperties
  <1>3. /\ a \in Seq(Seed) /\ n \in Nat /\ n >= 1 /\ Len(a) = n - 1
        /\ \A i \in 1..(n - 1) : a[i] = ahead[i + 1]
    BY <1>1, EmptySeq, LenProperties, HeadTailProperties
  <1>4. PICK v, w : v = Visits(done, ahead) /\ w = Visits(d, a)
    OBVIOUS
  <1>5. /\ v = [k \in 1..(m + n) |-> IF k <= m THEN done[k].repo ELSE ahead[k - m].repo]
        /\ w = [k \in 1..((m + 1) + (n - 1)) |->
                  IF k <= m + 1 THEN d[k].repo ELSE a[k - (m + 1)].repo]
    BY <1>1, <1>2, <1>3, <1>4 DEF Visits
  <1>6. (m + 1) + (n - 1) = m + n
    BY <1>2, <1>3
  <1>7. ASSUME NEW k \in 1..(m + n)
        PROVE  v[k] = w[k]
    <2>1. /\ v[k] = IF k <= m THEN done[k].repo ELSE ahead[k - m].repo
          /\ w[k] = IF k <= m + 1 THEN d[k].repo ELSE a[k - (m + 1)].repo
      BY <1>5, <1>6
    <2>2. CASE k <= m
      <3>1. k \in 1..m /\ k <= m + 1
        BY <1>2, <1>3, <2>2
      <3> QED
        BY <1>2, <2>1, <2>2, <3>1
    <2>3. CASE k = m + 1
      <3>1. ~(k <= m) /\ k <= m + 1 /\ k - m = 1
        BY <1>2, <2>3
      <3> QED
        BY <1>2, <2>1, <2>3, <3>1
    <2>4. CASE k > m + 1
      <3>1. ~(k <= m) /\ ~(k <= m + 1) /\ k - (m + 1) \in 1..(n - 1) /\ (k - (m + 1)) + 1 = k - m
        BY <1>2, <1>3, <2>4
      <3>2. a[k - (m + 1)] = ahead[k - m]
        BY <1>3, <3>1
      <3> QED
        BY <2>1, <3>1, <3>2
    <2> QED
      BY <1>2, <2>2, <2>3, <2>4
  <1>8. v = w
    BY <1>5, <1>6, <1>7
  <1> QED
    BY <1>1, <1>4, <1>8

(* What has been read of the lists is what there is to visit, in the order of
   the lists, and in what is left nothing of it is undone. *)
Wanted(l, r) == l.only = <<>> \/ r \in ToSet(l.only)

Taken(l, a, b) ==
    {r \in Repos :
       /\ Wanted(l, r)
       /\ \/ \E i \in 1..a : l.curated[i].repo = r
          \/ \E i \in 1..b : l.listed[i].repo = r /\ l.listed[i].size <= SizeCap}

ReadSoFar ==
    \E a, b \in Nat :
      /\ Rest(lists.curated, entries, a)
      /\ Rest(lists.listed, lines, b)
      /\ b = 0 \/ entries = <<>>
      /\ ToSet(Visits(log, seeds)) = Taken(lists, a, b)

SeedsInv ==
    /\ pc \in {"resolve", "load"} => log = <<>>
    /\ pc # "resolve" => names = <<>>
    /\ pc \notin {"resolve", "load"} => entries = <<>> /\ lines = <<>>
    /\ pc = "done" => seeds = <<>>
    /\ ReadSoFar
    /\ OrderedAs(Listing(lists), Visits(log, seeds))

LEMMA ListsTyped ==
  ASSUME Typed
  PROVE  /\ lists \in Lists /\ IsLists(lists)
         /\ lists.curated \in Seq(Seed) /\ lists.listed \in Seq(Candidate)
         /\ Listing(lists) \in Seq(Repos)
         /\ entries \in Seq(Seed) /\ lines \in Seq(Candidate) /\ seeds \in Seq(Seed)
         /\ log \in Seq(Done)
  BY ConnectorAssumption, ListingAt DEF Typed, TypeOK, IsLists, Done

LEMMA InitSeeds ==
  ASSUME Init
  PROVE  SeedsInv
  <1>1. /\ lists \in Lists /\ entries = lists.curated /\ lines = lists.listed
        /\ pc = "resolve" /\ seeds = <<>> /\ log = <<>>
    BY DEF Init
  <1>2. lists.curated \in Seq(Seed) /\ lists.listed \in Seq(Candidate)
    BY <1>1, ConnectorAssumption DEF IsLists
  <1>3. Rest(lists.curated, entries, 0) /\ Rest(lists.listed, lines, 0)
    BY <1>1, <1>2, RestAll
  <1>4. DOMAIN Visits(log, seeds) = {} /\ ToSet(Visits(log, seeds)) = {}
    <2>1. DOMAIN Visits(log, seeds) = 1..(0 + 0)
      BY <1>1 DEF Visits
    <2>2. DOMAIN Visits(log, seeds) = {}
      BY <2>1
    <2> QED
      BY <2>2 DEF ToSet
  <1>5. Taken(lists, 0, 0) = {}
    BY DEF Taken
  <1>6. ReadSoFar
    BY <1>3, <1>4, <1>5 DEF ReadSoFar
  <1>7. OrderedAs(Listing(lists), Visits(log, seeds))
    BY <1>4 DEF OrderedAs
  <1> QED
    BY <1>1, <1>6, <1>7 DEF SeedsInv

LEMMA StaySeeds ==
  ASSUME SeedsInv, UNCHANGED <<lists, entries, lines, seeds, log>>,
         pc' \in {"resolve", "load"} => pc \in {"resolve", "load"},
         pc' # "resolve" => names' = <<>>,
         pc' \notin {"resolve", "load"} => entries = <<>> /\ lines = <<>>,
         pc' = "done" => seeds = <<>>
  PROVE  SeedsInv'
  BY DEF SeedsInv, ReadSoFar, Listing, Visits

LEMMA NextSeeds ==
  ASSUME Typed, SeedsInv, seeds # <<>>, pc \in {"seeds", "root", "walk"},
         NEW outcome \in Outcomes, NextSeed(outcome), UNCHANGED <<lists, names, entries, lines>>
  PROVE  SeedsInv'
  <1>1. PICK e : e = [repo |-> repo, outcome |-> outcome]
    OBVIOUS
  <1>2. e \in Done /\ e.repo = seeds[1].repo
    BY <1>1, InHand DEF repo, Done
  <1>3. log' = Append(log, e) /\ seeds' = Tail(seeds) /\ pc' = "seeds"
    BY <1>1 DEF NextSeed
  <1>4. Visits(log, seeds)' = Visits(log, seeds)
    <2>1. PICK d, a, d2, a2 : d = log /\ a = seeds /\ d2 = log' /\ a2 = seeds'
      OBVIOUS
    <2>2. d \in Seq(Done) /\ a \in Seq(Seed) /\ a # <<>> /\ e.repo = a[1].repo
      BY <1>2, <2>1, ListsTyped
    <2>3. Visits(Append(d, e), Tail(a)) = Visits(d, a)
      BY <1>2, <2>2, VisitsStay
    <2>4. d2 = Append(d, e) /\ a2 = Tail(a)
      BY <1>3, <2>1
    <2>5. Visits(log, seeds)' = Visits(d2, a2)
      BY <2>1 DEF Visits
    <2> QED
      BY <2>1, <2>3, <2>4, <2>5
  <1> QED
    BY <1>3, <1>4 DEF SeedsInv, ReadSoFar, Listing

(* No repo is curated twice, and one whose first line is over the cap has no
   line that is not: the lists that write_discovered writes have one line of
   each repo. *)
CuratedOnce ==
    \A l \in Lists : \A i, j \in DOMAIN l.curated : l.curated[i].repo = l.curated[j].repo => i = j
FirstLineTells ==
    \A l \in Lists : \A i, j \in DOMAIN l.listed :
        i < j /\ l.listed[i].repo = l.listed[j].repo /\ l.listed[j].size <= SizeCap
            => l.listed[i].size <= SizeCap

(* A seed appended that no list names before is the last visit. *)
LEMMA AppendSeed ==
  ASSUME Typed, SeedsInv, log = <<>>, log' = log, NEW s \in Seed, seeds' = Append(seeds, s),
         NEW k \in 0..Len(Listing(lists)), ToSet(Visits(log, seeds)) \subseteq NamedUpTo(Listing(lists), k),
         s.repo \notin NamedUpTo(Listing(lists), k)
  PROVE  /\ OrderedAs(Listing(lists), Visits(log', seeds'))
         /\ ToSet(Visits(log', seeds')) = ToSet(Visits(log, seeds)) \cup {s.repo}
  <1>1. PICK g, a, r, v, w : /\ g = Listing(lists) /\ a = seeds /\ r = seeds'
                             /\ v = Visits(<<>>, a) /\ w = Visits(<<>>, r)
    OBVIOUS
  <1>2. g \in Seq(Repos) /\ a \in Seq(Seed) /\ <<>> \in Seq(Done) /\ k \in 0..Len(g)
    BY <1>1, ListsTyped, EmptySeq
  <1>3. r = Append(a, s)
    BY <1>1
  <1>4. w = Append(v, s.repo)
    BY <1>1, <1>2, <1>3, VisitsGrow
  <1>5. v \in Seq(Repos)
    BY <1>1, <1>2, VisitsTyped
  <1>6. v = Visits(log, seeds) /\ w = Visits(log', seeds')
    BY <1>1
  <1>7. \A y \in ToSet(v) : Earlier(g, y, s.repo)
    <2>1. s.repo \notin NamedUpTo(g, k) /\ ToSet(v) \subseteq NamedUpTo(g, k)
      BY <1>1, <1>6
    <2> QED
      BY <1>2, <2>1, NamedEarlier
  <1>8. OrderedAs(g, v)
    BY <1>1, <1>6 DEF SeedsInv
  <1>9. OrderedAs(g, w) /\ ToSet(w) = ToSet(v) \cup {s.repo}
    BY <1>4, <1>5, <1>7, <1>8, OrderedAppend
  <1> QED
    BY <1>1, <1>6, <1>9

LEMMA NamedByLists ==
  ASSUME NEW l, IsLists(l)
  PROVE  /\ \A a \in 0..Len(l.curated) :
              NamedUpTo(Listing(l), a) = {l.curated[i].repo : i \in 1..a}
         /\ \A b \in 0..Len(l.listed) :
              NamedUpTo(Listing(l), Len(l.curated) + b)
                = {l.curated[i].repo : i \in 1..Len(l.curated)} \cup {l.listed[i].repo : i \in 1..b}
  <1>1. PICK g, m, n : g = Listing(l) /\ m = Len(l.curated) /\ n = Len(l.listed)
    OBVIOUS
  <1>2. /\ m \in Nat /\ n \in Nat
        /\ \A i \in 1..m : g[i] = l.curated[i].repo
        /\ \A i \in 1..n : g[m + i] = l.listed[i].repo
    BY <1>1, ListingAt
  <1>3. ASSUME NEW a \in 0..m
        PROVE  NamedUpTo(g, a) = {l.curated[i].repo : i \in 1..a}
    <2>1. \A i \in 1..a : i \in 1..m
      BY <1>2
    <2> QED
      BY <1>2, <2>1 DEF NamedUpTo
  <1>4. ASSUME NEW b \in 0..n
        PROVE  NamedUpTo(g, m + b)
                 = {l.curated[i].repo : i \in 1..m} \cup {l.listed[i].repo : i \in 1..b}
    <2>1. \A i \in 1..b : i \in 1..n /\ m + i \in 1..(m + b)
      BY <1>2
    <2>2. \A i \in 1..m : i \in 1..(m + b)
      BY <1>2
    <2>3. ASSUME NEW i \in 1..(m + b), i \notin 1..m
          PROVE  i - m \in 1..b /\ m + (i - m) = i
      BY <1>2, <2>3
    <2>4. ASSUME NEW r \in NamedUpTo(g, m + b)
          PROVE  r \in {l.curated[i].repo : i \in 1..m} \cup {l.listed[i].repo : i \in 1..b}
      <3>1. PICK i \in 1..(m + b) : r = g[i]
        BY DEF NamedUpTo
      <3>2. CASE i \in 1..m
        BY <1>2, <3>1, <3>2
      <3>3. CASE i \notin 1..m
        BY <1>2, <2>1, <2>3, <3>1, <3>3
      <3> QED
        BY <3>2, <3>3
    <2>5. ASSUME NEW i \in 1..m
          PROVE  l.curated[i].repo \in NamedUpTo(g, m + b)
      BY <1>2, <2>2 DEF NamedUpTo
    <2>6. ASSUME NEW i \in 1..b
          PROVE  l.listed[i].repo \in NamedUpTo(g, m + b)
      BY <1>2, <2>1 DEF NamedUpTo
    <2> QED
      BY <2>4, <2>5, <2>6
  <1> QED
    BY <1>1, <1>3, <1>4

LEMMA LoadSeedSeeds ==
  ASSUME CuratedOnce, Typed, SeedsInv, LoadSeed
  PROVE  SeedsInv'
  <1>1. /\ pc = "load" /\ entries # <<>> /\ entries' = Tail(entries)
        /\ seeds' = IF Selected(Head(entries).repo) THEN Append(seeds, Head(entries)) ELSE seeds
        /\ UNCHANGED <<lists, names, lines, pc, log>>
    BY DEF LoadSeed, queueVars, walkVars
  <1>2. PICK l, c, x : l = lists /\ c = lists.curated /\ x = Head(entries)
    OBVIOUS
  <1>3. /\ l \in Lists /\ IsLists(l) /\ c \in Seq(Seed) /\ entries \in Seq(Seed) /\ seeds \in Seq(Seed)
        /\ log = <<>>
    BY <1>1, <1>2, ListsTyped DEF SeedsInv
  <1>4. PICK a \in Nat : /\ Rest(c, entries, a) /\ Rest(lists.listed, lines, 0)
                         /\ ToSet(Visits(log, seeds)) = Taken(l, a, 0)
    BY <1>1, <1>2 DEF SeedsInv, ReadSoFar
  <1>5. /\ a \in 0..Len(c) /\ a < Len(c) /\ x = c[a + 1] /\ Rest(c, Tail(entries), a + 1)
    <2>1. PICK q : q = entries
      OBVIOUS
    <2>2. c \in Seq(Seed) /\ q \in Seq(Seed) /\ q # <<>> /\ Rest(c, q, a) /\ x = Head(q)
      BY <1>1, <1>2, <1>3, <1>4, <2>1
    <2>3. /\ a \in 0..Len(c) /\ a < Len(c) /\ Head(q) = c[a + 1] /\ Rest(c, Tail(q), a + 1)
      BY <2>2, RestNext
    <2> QED
      BY <2>1, <2>2, <2>3
  <1>6. /\ Len(c) \in Nat /\ DOMAIN c = 1..Len(c) /\ a + 1 \in 1..Len(c) /\ a + 1 \in Nat
        /\ x \in Seed /\ x.repo \in Repos
    <2>1. Len(c) \in Nat /\ DOMAIN c = 1..Len(c)
      BY <1>3, LenProperties
    <2>2. a + 1 \in 1..Len(c)
      BY <1>5, <2>1
    <2>3. x \in Seed
      BY <1>3, <1>5, <2>2, ElementOfSeq
    <2> QED
      BY <2>1, <2>2, <2>3 DEF Seed
  <1>7. \A i : i \in 1..(a + 1) <=> i \in 1..a \/ i = a + 1
    OBVIOUS
  <1>8. Taken(l, a + 1, 0) = IF Wanted(l, x.repo) THEN Taken(l, a, 0) \cup {x.repo} ELSE Taken(l, a, 0)
    BY <1>2, <1>5, <1>6, <1>7 DEF Taken
  <1>9. Selected(x.repo) <=> Wanted(l, x.repo)
    BY <1>2 DEF Selected, Wanted
  <1>10. /\ OrderedAs(Listing(lists), Visits(log', seeds'))
         /\ ToSet(Visits(log', seeds')) = Taken(l, a + 1, 0)
    <2>1. CASE Selected(x.repo)
      <3>1. seeds' = Append(seeds, x)
        BY <1>1, <1>2, <2>1
      <3>2. NamedUpTo(Listing(l), a) = {c[i].repo : i \in 1..a}
        <4>1. IsLists(l) /\ a \in 0..Len(l.curated)
          BY <1>2, <1>3, <1>5
        <4>2. NamedUpTo(Listing(l), a) = {l.curated[i].repo : i \in 1..a}
          BY <4>1, NamedByLists
        <4> QED
          BY <1>2, <4>2
      <3>3. Taken(l, a, 0) \subseteq {c[i].repo : i \in 1..a}
        BY <1>2 DEF Taken
      <3>4. x.repo \notin {c[i].repo : i \in 1..a}
        <4>1. \A i \in 1..a : i \in DOMAIN c /\ a + 1 \in DOMAIN c /\ i # a + 1
          BY <1>6
        <4>2. \A i, j \in DOMAIN c : c[i].repo = c[j].repo => i = j
          BY <1>2, <1>3 DEF CuratedOnce
        <4> QED
          BY <1>5, <4>1, <4>2
      <3>5. a \in 0..Len(Listing(lists))
        <4>1. Len(Listing(l)) = Len(c) + Len(l.listed) /\ Len(l.listed) \in Nat
          BY <1>2, <1>3, ListingAt
        <4>2. PICK n, m : n = Len(l.listed) /\ m = Len(Listing(l))
          OBVIOUS
        <4>3. n \in Nat /\ m = Len(c) + n
          BY <4>1, <4>2
        <4>4. a \in 0..m
          BY <1>5, <1>6, <4>3
        <4> QED
          BY <1>2, <4>2, <4>4
      <3>6. /\ OrderedAs(Listing(lists), Visits(log', seeds'))
            /\ ToSet(Visits(log', seeds')) = ToSet(Visits(log, seeds)) \cup {x.repo}
        <4>1. /\ ToSet(Visits(log, seeds)) \subseteq NamedUpTo(Listing(lists), a)
              /\ x.repo \notin NamedUpTo(Listing(lists), a)
          BY <1>2, <1>4, <3>2, <3>3, <3>4
        <4>2. log' = log
          BY <1>1
        <4> QED
          BY <1>3, <1>6, <3>1, <3>5, <4>1, <4>2, AppendSeed
      <3> QED
        BY <1>4, <1>8, <1>9, <2>1, <3>6
    <2>2. CASE ~Selected(x.repo)
      <3>1. seeds' = seeds /\ log' = log
        BY <1>1, <1>2, <2>2
      <3> QED
        BY <1>4, <1>8, <1>9, <2>2, <3>1 DEF SeedsInv
    <2> QED
      BY <2>1, <2>2
  <1>11. ToSet(Visits(log, seeds))' = ToSet(Visits(log', seeds')) /\ Visits(log, seeds)' = Visits(log', seeds')
    BY DEF ToSet, Visits
  <1>12. ReadSoFar'
    <2>1. Rest(lists.curated, entries, a + 1)' /\ Rest(lists.listed, lines, 0)'
      BY <1>1, <1>2, <1>4, <1>5 DEF Rest
    <2>2. ToSet(Visits(log, seeds))' = Taken(lists, a + 1, 0)'
      BY <1>1, <1>2, <1>10, <1>11 DEF Taken, Wanted
    <2> QED
      BY <1>6, <2>1, <2>2 DEF ReadSoFar
  <1>13. OrderedAs(Listing(lists), Visits(log, seeds))'
    <2>1. PICK g, w : g = Listing(lists) /\ w = Visits(log', seeds')
      OBVIOUS
    <2>2. OrderedAs(g, w)
      BY <1>1, <1>10, <1>11, <2>1
    <2>3. Listing(lists)' = g
      BY <1>1, <2>1 DEF Listing
    <2>4. Visits(log, seeds)' = w
      BY <1>1, <1>10, <1>11, <2>1
    <2> QED
      BY <2>2, <2>3, <2>4 DEF OrderedAs, Earlier
  <1> QED
    BY <1>1, <1>12, <1>13 DEF SeedsInv

LEMMA LoadDiscoveredSeeds ==
  ASSUME FirstLineTells, Typed, SeedsInv, LoadDiscoveredSeed
  PROVE  SeedsInv'
  <1>1. /\ pc = "load" /\ entries = <<>> /\ lines # <<>> /\ lines' = Tail(lines)
        /\ seeds' = AddDiscovered(seeds, Head(lines))
        /\ UNCHANGED <<lists, names, entries, pc, log>>
    BY DEF LoadDiscoveredSeed, queueVars, walkVars
  <1>2. PICK l, d, x, m : l = lists /\ d = lists.listed /\ x = Head(lines) /\ m = Len(lists.curated)
    OBVIOUS
  <1>3. /\ l \in Lists /\ IsLists(l) /\ d \in Seq(Candidate) /\ lines \in Seq(Candidate)
        /\ seeds \in Seq(Seed) /\ log = <<>> /\ m \in Nat
    BY <1>1, <1>2, ListsTyped, LenProperties DEF SeedsInv
  <1>4. PICK b \in Nat : /\ Rest(lists.curated, entries, m) /\ Rest(d, lines, b)
                         /\ ToSet(Visits(log, seeds)) = Taken(l, m, b)
    <2>1. PICK a, b \in Nat : /\ Rest(lists.curated, entries, a) /\ Rest(d, lines, b)
                              /\ ToSet(Visits(log, seeds)) = Taken(l, a, b)
      BY <1>1, <1>2 DEF SeedsInv, ReadSoFar
    <2>2. a + 0 = m
      BY <1>1, <1>2, <2>1, EmptySeq DEF Rest
    <2>3. a = m
      BY <2>2
    <2> QED
      BY <2>1, <2>3
  <1>5. /\ b \in 0..Len(d) /\ b < Len(d) /\ x = d[b + 1] /\ Rest(d, Tail(lines), b + 1)
    BY <1>1, <1>2, <1>3, <1>4, RestNext
  <1>6. /\ Len(d) \in Nat /\ DOMAIN d = 1..Len(d) /\ b + 1 \in 1..Len(d) /\ b + 1 \in Nat
        /\ x \in Candidate /\ x.repo \in Repos
    <2>1. Len(d) \in Nat /\ DOMAIN d = 1..Len(d)
      BY <1>3, LenProperties
    <2>2. b + 1 \in 1..Len(d)
      BY <1>5, <2>1
    <2>3. x \in Candidate
      BY <1>3, <1>5, <2>2, ElementOfSeq
    <2> QED
      BY <2>1, <2>2, <2>3 DEF Candidate
  <1>7. \A i : i \in 1..(b + 1) <=> i \in 1..b \/ i = b + 1
    OBVIOUS
  <1>8. Taken(l, m, b + 1) = IF Wanted(l, x.repo) /\ x.size <= SizeCap
                             THEN Taken(l, m, b) \cup {x.repo} ELSE Taken(l, m, b)
    BY <1>2, <1>5, <1>6, <1>7 DEF Taken
  <1>9. Selected(x.repo) <=> Wanted(l, x.repo)
    BY <1>2 DEF Selected, Wanted
  <1>10. {s.repo : s \in ToSet(seeds)} = Taken(l, m, b)
    <2>1. /\ DOMAIN seeds = 1..Len(seeds) /\ Len(seeds) \in Nat /\ Len(<<>>) = 0
      BY <1>3, EmptySeq, LenProperties
    <2>2. PICK n, v : n = Len(seeds) /\ v = Visits(log, seeds)
      OBVIOUS
    <2>3. v = [k \in 1..(0 + n) |-> IF k <= 0 THEN log[k].repo ELSE seeds[k - 0].repo]
      BY <1>3, <2>1, <2>2 DEF Visits
    <2>4. /\ n \in Nat /\ 0 + n = n
          /\ \A k \in 1..n : ~(k <= 0) /\ k - 0 = k
      BY <2>1, <2>2
    <2>5. DOMAIN v = 1..n /\ \A k \in 1..n : v[k] = seeds[k].repo
      BY <2>3, <2>4
    <2>6. ToSet(v) = {s.repo : s \in ToSet(seeds)}
      BY <2>1, <2>2, <2>5 DEF ToSet
    <2> QED
      BY <1>4, <2>2, <2>6
  <1>11. /\ OrderedAs(Listing(lists), Visits(log', seeds'))
         /\ ToSet(Visits(log', seeds')) = Taken(l, m, b + 1)
    <2>1. CASE x.repo \in Taken(l, m, b) \/ ~Selected(x.repo) \/ x.size > SizeCap
      <3>1. seeds' = seeds /\ log' = log
        BY <1>1, <1>2, <1>10, <2>1 DEF AddDiscovered
      <3>2. x.size \in Nat /\ SizeCap \in Nat
        BY <1>6, ConnectorAssumption DEF Candidate
      <3>3. Taken(l, m, b + 1) = Taken(l, m, b)
        <4>1. CASE x.repo \in Taken(l, m, b)
          BY <1>8, <4>1
        <4>2. CASE ~Selected(x.repo)
          BY <1>8, <1>9, <4>2
        <4>3. CASE x.size > SizeCap
          <5>1. ~(x.size <= SizeCap)
            BY <3>2, <4>3
          <5> QED
            BY <1>8, <5>1
        <4> QED
          BY <2>1, <4>1, <4>2, <4>3
      <3> QED
        BY <1>4, <3>1, <3>3 DEF SeedsInv
    <2>2. CASE x.repo \notin Taken(l, m, b) /\ Selected(x.repo) /\ ~(x.size > SizeCap)
      <3>0. x.size <= SizeCap
        BY <1>6, <2>2, ConnectorAssumption DEF Candidate
      <3>1. seeds' = Append(seeds, DiscoveredSeed(x.repo))
        BY <1>1, <1>2, <1>10, <2>2 DEF AddDiscovered
      <3>2. DiscoveredSeed(x.repo) \in Seed /\ DiscoveredSeed(x.repo).repo = x.repo
        BY <1>6 DEF DiscoveredSeed, Seed
      <3>3. NamedUpTo(Listing(l), m + b) = {l.curated[i].repo : i \in 1..m} \cup {d[i].repo : i \in 1..b}
        <4>1. IsLists(l) /\ b \in 0..Len(l.listed)
          BY <1>2, <1>3, <1>5
        <4>2. NamedUpTo(Listing(l), Len(l.curated) + b)
                = {l.curated[i].repo : i \in 1..Len(l.curated)} \cup {l.listed[i].repo : i \in 1..b}
          BY <4>1, NamedByLists
        <4> QED
          BY <1>2, <4>2
      <3>4. Taken(l, m, b) \subseteq {l.curated[i].repo : i \in 1..m} \cup {d[i].repo : i \in 1..b}
        BY <1>2 DEF Taken
      <3>5. x.repo \notin {l.curated[i].repo : i \in 1..m}
        BY <1>6, <1>9, <2>2 DEF Taken
      <3>6. x.repo \notin {d[i].repo : i \in 1..b}
        <4> SUFFICES ASSUME NEW i \in 1..b, d[i].repo = x.repo PROVE FALSE
          OBVIOUS
        <4>1. i \in DOMAIN d /\ b + 1 \in DOMAIN d /\ i < b + 1
          BY <1>6
        <4>2. d[i].size <= SizeCap
          BY <1>2, <1>3, <1>5, <3>0, <4>1 DEF FirstLineTells
        <4> QED
          BY <1>2, <1>6, <1>9, <2>2, <4>2 DEF Taken
      <3>7. m + b \in 0..Len(Listing(lists))
        <4>1. Len(Listing(l)) = m + Len(d)
          BY <1>2, <1>3, ListingAt
        <4>2. PICK k : k = Len(Listing(l))
          OBVIOUS
        <4>3. m + b \in 0..k
          BY <1>3, <1>5, <1>6, <4>1, <4>2
        <4> QED
          BY <1>2, <4>2, <4>3
      <3>8. /\ OrderedAs(Listing(lists), Visits(log', seeds'))
            /\ ToSet(Visits(log', seeds')) = ToSet(Visits(log, seeds)) \cup {x.repo}
        <4>1. PICK s : s = DiscoveredSeed(x.repo)
          OBVIOUS
        <4>2. s \in Seed /\ s.repo = x.repo /\ seeds' = Append(seeds, s) /\ log' = log
          BY <1>1, <3>1, <3>2, <4>1
        <4>3. /\ ToSet(Visits(log, seeds)) \subseteq NamedUpTo(Listing(lists), m + b)
              /\ s.repo \notin NamedUpTo(Listing(lists), m + b)
          BY <1>2, <1>4, <3>3, <3>4, <3>5, <3>6, <4>2
        <4>4. /\ OrderedAs(Listing(lists), Visits(log', seeds'))
              /\ ToSet(Visits(log', seeds')) = ToSet(Visits(log, seeds)) \cup {s.repo}
          BY <1>3, <3>7, <4>2, <4>3, AppendSeed
        <4> QED
          BY <4>2, <4>4
      <3> QED
        BY <1>4, <1>8, <1>9, <2>2, <3>0, <3>8
    <2> QED
      BY <2>1, <2>2
  <1>12. ToSet(Visits(log, seeds))' = ToSet(Visits(log', seeds')) /\ Visits(log, seeds)' = Visits(log', seeds')
    BY DEF ToSet, Visits
  <1>13. ReadSoFar'
    <2>1. Rest(lists.curated, entries, m)' /\ Rest(lists.listed, lines, b + 1)' /\ entries' = <<>>
      BY <1>1, <1>2, <1>4, <1>5 DEF Rest
    <2>2. ToSet(Visits(log, seeds))' = Taken(lists, m, b + 1)'
      BY <1>1, <1>2, <1>11, <1>12 DEF Taken, Wanted
    <2> QED
      BY <1>3, <1>6, <2>1, <2>2 DEF ReadSoFar
  <1>14. OrderedAs(Listing(lists), Visits(log, seeds))'
    <2>1. PICK g, w : g = Listing(lists) /\ w = Visits(log', seeds')
      OBVIOUS
    <2>2. OrderedAs(g, w)
      BY <1>1, <1>11, <1>12, <2>1
    <2>3. Listing(lists)' = g
      BY <1>1, <2>1 DEF Listing
    <2>4. Visits(log, seeds)' = w
      BY <1>1, <1>11, <1>12, <2>1
    <2> QED
      BY <2>2, <2>3, <2>4 DEF OrderedAs, Earlier
  <1> QED
    BY <1>1, <1>13, <1>14 DEF SeedsInv

LEMMA StepQueue ==
  ASSUME Typed, QueueInv, [Next]_vars
  PROVE  QueueInv'
  <1>1. CASE DedupPreserve
    BY <1>1, DedupQueue
  <1>2. CASE UNCHANGED queueVars
    BY <1>2 DEF queueVars, QueueInv, Named, Listing
  <1>3. ASSUME ~DedupPreserve
        PROVE  UNCHANGED queueVars
    <2>1. CASE Resolved
      BY <2>1 DEF Resolved, listVars
    <2>2. CASE LoadSeed \/ LoadDiscoveredSeed
      BY <2>2 DEF LoadSeed, LoadDiscoveredSeed
    <2>3. CASE Discover \/ Clone \/ CloneFails \/ RootIsChallenge \/ EnterRoot
      BY <2>3 DEF Discover, Clone, CloneFails, RootIsChallenge, EnterRoot, listVars
    <2>4. CASE \E d \in pending : YieldChallenge(d) \/ Descend(d)
      BY <2>4 DEF YieldChallenge, Descend, listVars
    <2>5. CASE YieldRoot \/ EndWalk \/ EndDiscover
      BY <2>5 DEF YieldRoot, EndWalk, EndDiscover, listVars
    <2>6. CASE UNCHANGED vars
      BY <2>6 DEF vars, queueVars
    <2> QED
      BY <1>3, <2>1, <2>2, <2>3, <2>4, <2>5, <2>6 DEF Next, Over
  <1> QED
    BY <1>1, <1>2, <1>3

LEMMA StepSeeds ==
  ASSUME CuratedOnce, FirstLineTells, Typed, SeedsInv, [Next]_vars
  PROVE  SeedsInv'
  <1>1. CASE DedupPreserve
    <2>1. UNCHANGED <<lists, entries, lines, seeds, log, pc>> /\ pc = "resolve"
      BY <1>1 DEF DedupPreserve, walkVars
    <2> QED
      BY <2>1, StaySeeds
  <1>2. CASE Resolved
    <2>1. UNCHANGED <<lists, entries, lines, seeds, log>> /\ names' = <<>> /\ pc = "resolve" /\ pc' = "load"
      BY <1>2 DEF Resolved, listVars, queueVars, walkVars
    <2> QED
      BY <2>1, StaySeeds
  <1>3. CASE LoadSeed
    BY <1>3, LoadSeedSeeds
  <1>4. CASE LoadDiscoveredSeed
    BY <1>4, LoadDiscoveredSeeds
  <1>5. CASE Discover
    <2>1. /\ UNCHANGED <<lists, names, entries, lines, seeds, log>>
          /\ pc = "load" /\ pc' = "seeds" /\ entries = <<>> /\ lines = <<>>
      BY <1>5 DEF Discover, listVars, queueVars, walkVars
    <2>2. names' = <<>>
      BY <2>1 DEF SeedsInv
    <2> QED
      BY <2>1, <2>2, StaySeeds
  <1>6. ASSUME UNCHANGED <<lists, names, entries, lines, seeds, log>>,
               pc \in {"seeds", "root", "walk"}, pc' \in {"root", "walk"}
        PROVE  SeedsInv'
    <2>1. entries = <<>> /\ lines = <<>> /\ names' = <<>>
      BY <1>6 DEF SeedsInv
    <2> QED
      BY <1>6, <2>1, StaySeeds
  <1>7. CASE Clone
    BY <1>6, <1>7 DEF Clone, listVars, queueVars
  <1>8. CASE CloneFails
    <2>1. "skipped" \in Outcomes
      BY DEF Outcomes
    <2> QED
      BY <1>8, <2>1, NextSeeds DEF CloneFails, listVars, queueVars
  <1>9. CASE RootIsChallenge \/ YieldRoot \/ EndWalk
    <2>1. "walked" \in Outcomes
      BY DEF Outcomes
    <2>2. /\ pc \in {"root", "walk"} /\ seeds # <<>> /\ NextSeed("walked")
          /\ UNCHANGED <<lists, names, entries, lines>>
      BY <1>9 DEF RootIsChallenge, YieldRoot, EndWalk, listVars, queueVars, Typed, TypeOK
    <2> QED
      BY <2>1, <2>2, NextSeeds
  <1>10. CASE EnterRoot
    BY <1>6, <1>10 DEF EnterRoot, listVars, queueVars
  <1>11. ASSUME NEW d \in pending, YieldChallenge(d)
         PROVE  SeedsInv'
    <2>1. pc = "walk" /\ seeds # <<>> /\ UNCHANGED <<lists, names, entries, lines>>
      BY <1>11 DEF YieldChallenge, listVars, queueVars, Typed, TypeOK
    <2>2. CASE Cut
      <3>1. NextSeed("cut") /\ "cut" \in Outcomes
        BY <1>11, <2>2 DEF YieldChallenge, Outcomes
      <3> QED
        BY <2>1, <3>1, NextSeeds
    <2>3. CASE ~Cut
      <3>1. UNCHANGED <<seeds, log, pc>>
        BY <1>11, <2>3 DEF YieldChallenge
      <3> QED
        BY <1>6, <2>1, <3>1
    <2> QED
      BY <2>2, <2>3
  <1>12. ASSUME NEW d \in pending, Descend(d)
         PROVE  SeedsInv'
    BY <1>6, <1>12 DEF Descend, listVars, queueVars
  <1>13. CASE EndDiscover
    <2>1. /\ UNCHANGED <<lists, names, entries, lines, seeds, log>>
          /\ pc = "seeds" /\ pc' = "done" /\ seeds = <<>>
      BY <1>13 DEF EndDiscover, listVars, queueVars
    <2>2. entries = <<>> /\ lines = <<>> /\ names' = <<>>
      BY <2>1 DEF SeedsInv
    <2> QED
      BY <2>1, <2>2, StaySeeds
  <1>14. CASE UNCHANGED vars
    <2>1. UNCHANGED <<lists, names, entries, lines, seeds, log, pc>>
      BY <1>14 DEF vars
    <2> QED
      BY <2>1, StaySeeds DEF SeedsInv
  <1> QED
    BY <1>1, <1>2, <1>3, <1>4, <1>5, <1>7, <1>8, <1>9, <1>10, <1>11, <1>12, <1>13, <1>14
    DEF Next, Over

(* What a list names in all. *)
LEMMA NamedAll ==
  ASSUME NEW S, NEW g \in Seq(S)
  PROVE  NamedUpTo(g, Len(g)) = ToSet(g)
  <1>1. DOMAIN g = 1..Len(g)
    BY LenProperties
  <1> QED
    BY <1>1 DEF NamedUpTo, ToSet

LEMMA RestNone ==
  ASSUME NEW S, NEW g \in Seq(S), NEW k \in Nat, Rest(g, <<>>, k)
  PROVE  k = Len(g)
  <1>1. Len(<<>>) = 0 /\ Len(g) \in Nat /\ k + Len(<<>>) = Len(g)
    BY EmptySeq, LenProperties DEF Rest
  <1> QED
    BY <1>1

LEMMA DoneVisited ==
  ASSUME Typed, QueueInv, SeedsInv
  PROVE  ListedReposVisited
  <1> SUFFICES ASSUME pc = "done" PROVE ListedReposVisited
    BY DEF ListedReposVisited
  <1>1. /\ seeds = <<>> /\ names = <<>> /\ entries = <<>> /\ lines = <<>>
    BY DEF SeedsInv
  <1>2. PICK l, c, d, n : l = lists /\ c = lists.curated /\ d = lists.listed /\ n = Len(log)
    OBVIOUS
  <1>3. /\ l \in Lists /\ IsLists(l) /\ c \in Seq(Seed) /\ d \in Seq(Candidate)
        /\ Listing(l) \in Seq(Repos) /\ Named(l) \in Seq(Repos) /\ log \in Seq(Done) /\ n \in Nat
        /\ queue \in Seq(Repos)
    BY <1>2, ListsTyped, NamedTyped, LenProperties DEF Typed, TypeOK
  <1>4. /\ DOMAIN c = 1..Len(c) /\ DOMAIN d = 1..Len(d)
        /\ \A i \in DOMAIN c : c[i].repo \in Repos
        /\ \A i \in DOMAIN d : d[i].repo \in Repos /\ d[i].size \in Nat
    <2>1. DOMAIN c = 1..Len(c) /\ DOMAIN d = 1..Len(d)
      BY <1>3, LenProperties
    <2>2. \A i \in DOMAIN c : c[i] \in Seed
      BY <1>3, <2>1, ElementOfSeq
    <2>3. \A i \in DOMAIN d : d[i] \in Candidate
      BY <1>3, <2>1, ElementOfSeq
    <2> QED
      BY <2>1, <2>2, <2>3 DEF Seed, Candidate
  <1>5. PICK v : v = Visits(log, seeds)
    OBVIOUS
  <1>6. DOMAIN v = 1..n /\ \A k \in 1..n : v[k] = log[k].repo
    <2>1. v = [k \in 1..(n + 0) |-> IF k <= n THEN log[k].repo ELSE seeds[k - n].repo]
      BY <1>1, <1>2, <1>5, EmptySeq DEF Visits
    <2>2. n + 0 = n /\ \A k \in 1..n : k <= n
      BY <1>3
    <2> QED
      BY <2>1, <2>2
  <1>7. ToSet(v) = Taken(l, Len(c), Len(d)) /\ OrderedAs(Listing(l), v)
    <2>1. PICK a, b \in Nat :
            Rest(c, <<>>, a) /\ Rest(d, <<>>, b) /\ ToSet(v) = Taken(l, a, b)
      BY <1>1, <1>2, <1>5 DEF SeedsInv, ReadSoFar
    <2>2. a = Len(c)
      BY <1>3, <2>1, RestNone
    <2>3. b = Len(d)
      BY <1>3, <2>1, RestNone
    <2> QED
      BY <1>2, <1>5, <2>1, <2>2, <2>3 DEF SeedsInv
  <1>8. ToSet(queue) = ToSet(Named(l)) /\ OrderedAs(Named(l), queue)
    <2>1. PICK k \in Nat : Rest(Named(l), <<>>, k) /\ ToSet(queue) = NamedUpTo(Named(l), k)
      BY <1>1, <1>2 DEF QueueInv
    <2>2. k = Len(Named(l))
      BY <1>3, <2>1, RestNone
    <2> QED
      BY <1>2, <1>3, <2>1, <2>2, NamedAll DEF QueueInv
  <1>9. ToSet(Listing(l)) = Listed
    <2>1. NamedUpTo(Listing(l), Len(c) + Len(d))
            = {c[i].repo : i \in 1..Len(c)} \cup {d[i].repo : i \in 1..Len(d)}
      <3>1. Len(l.listed) \in 0..Len(l.listed)
        BY <1>3, ListingAt
      <3>2. NamedUpTo(Listing(l), Len(l.curated) + Len(l.listed))
              = {l.curated[i].repo : i \in 1..Len(l.curated)}
                  \cup {l.listed[i].repo : i \in 1..Len(l.listed)}
        BY <1>3, <3>1, NamedByLists
      <3> QED
        BY <1>2, <3>2
    <2>2. Len(Listing(l)) = Len(c) + Len(d)
      BY <1>2, <1>3, ListingAt
    <2>3. ToSet(Listing(l)) = {c[i].repo : i \in 1..Len(c)} \cup {d[i].repo : i \in 1..Len(d)}
      BY <1>3, <2>1, <2>2, NamedAll
    <2>4. \A r : r \in Listed <=> \/ \E i \in DOMAIN c : c[i].repo = r
                                  \/ \E i \in DOMAIN d : d[i].repo = r
      BY <1>2 DEF Listed, ToSet
    <2>5. \A r : r \in ToSet(Listing(l)) <=> \/ \E i \in DOMAIN c : c[i].repo = r
                                             \/ \E i \in DOMAIN d : d[i].repo = r
      BY <1>4, <2>3
    <2> QED
      BY <2>4, <2>5
  <1>10. \A r : Wanted(l, r) /\ r \in Listed <=> r \in ToSet(queue) /\ r \in Listed
    BY <1>8, <1>9 DEF Wanted, Named
  <1>11. \A r : r \in Taken(l, Len(c), Len(d)) <=> Wanted(l, r) /\ r \in Listed /\ ~TooBig(r)
    <2>1. \A r : r \in {s.repo : s \in ToSet(c)} <=> \E i \in DOMAIN c : c[i].repo = r
      BY DEF ToSet
    <2>2. \A r : r \in {s.repo : s \in ToSet(d)} <=> \E i \in DOMAIN d : d[i].repo = r
      BY DEF ToSet
    <2>3. \A r : (\A s \in ToSet(d) : s.repo = r => s.size > SizeCap)
                   <=> (\A i \in DOMAIN d : d[i].repo = r => d[i].size > SizeCap)
      BY DEF ToSet
    <2>4. \A i \in DOMAIN d : d[i].size > SizeCap <=> ~(d[i].size <= SizeCap)
      BY <1>4, ConnectorAssumption
    <2>5. \A r : ~TooBig(r) <=> \/ \E i \in DOMAIN c : c[i].repo = r
                                \/ \E i \in DOMAIN d : d[i].repo = r /\ d[i].size <= SizeCap
      BY <1>2, <2>1, <2>3, <2>4 DEF TooBig
    <2>6. \A r : r \in Listed <=> \/ \E i \in DOMAIN c : c[i].repo = r
                                  \/ \E i \in DOMAIN d : d[i].repo = r
      BY <1>2, <2>1, <2>2 DEF Listed
    <2>7. \A r : r \in Taken(l, Len(c), Len(d)) <=>
                   /\ Wanted(l, r)
                   /\ \/ \E i \in DOMAIN c : c[i].repo = r
                      \/ \E i \in DOMAIN d : d[i].repo = r /\ d[i].size <= SizeCap
      BY <1>2, <1>4 DEF Taken
    <2> QED
      BY <2>5, <2>6, <2>7
  <1>12. {log[k].repo : k \in Walks} = {r \in ToSet(queue) : r \in Listed /\ ~TooBig(r)}
    <2>1. ToSet(v) = {log[k].repo : k \in Walks}
      BY <1>2, <1>6 DEF ToSet, Walks
    <2> QED
      BY <1>7, <1>10, <1>11, <2>1
  <1>13. ASSUME NEW i \in Walks, NEW j \in Walks, i < j
         PROVE  /\ log[i].repo # log[j].repo
                /\ lists.only = <<>> =>
                     \A m, k \in DOMAIN queue :
                       queue[m] = log[i].repo /\ queue[k] = log[j].repo => m < k
    <2>1. PICK r, s : r = log[i].repo /\ s = log[j].repo
      OBVIOUS
    <2>2. Earlier(Listing(l), r, s)
      BY <1>2, <1>6, <1>7, <1>13, <2>1 DEF OrderedAs, Walks
    <2>3. r # s /\ ~Earlier(Listing(l), s, r)
      BY <1>3, <2>2, EarlierIsStrict
    <2>4. ASSUME lists.only = <<>>, NEW m \in DOMAIN queue, NEW k \in DOMAIN queue,
                 queue[m] = r, queue[k] = s
          PROVE  m < k
      <3>1. m \in Nat /\ k \in Nat
        BY <1>3, LenProperties
      <3>2. m # k
        BY <2>3, <2>4
      <3>3. ~(k < m)
        <4>1. Named(l) = Listing(l)
          BY <1>2, <2>4 DEF Named
        <4> QED
          BY <1>8, <2>3, <2>4, <4>1 DEF OrderedAs
      <3> QED
        BY <3>1, <3>2, <3>3
    <2> QED
      BY <2>1, <2>3, <2>4
  <1> QED
    BY <1>12, <1>13 DEF ListedReposVisited

(* The connector and mirror_all, which build their lists from the same files by
   code of their own (git_repo.py and pipeline.py), end up with the same repos:
   of any lists without a repo curated twice, every repo queued is visited once,
   in the order of the queue unless --only gives its own, but for discovered
   ones over the cap and those no list has. *)
THEOREM SameRepos ==
  ASSUME CuratedOnce, FirstLineTells
  PROVE  Spec => []ListedReposVisited
  <1>1. Init => QueueInv /\ SeedsInv
    BY InitQueue, InitSeeds
  <1>2. Typed /\ QueueInv /\ SeedsInv /\ [Next]_vars => QueueInv' /\ SeedsInv'
    BY StepQueue, StepSeeds
  <1>3. Typed /\ QueueInv /\ SeedsInv => ListedReposVisited
    BY DoneVisited
  <1> QED
    BY <1>1, <1>2, <1>3, TypedAlways, PTL DEF Spec

-----------------------------------------------------------------------------
(* What a path says of a challenge *)

LEMMA OneOf ==
  ASSUME NEW i \in Nat
  PROVE  Min({i}) = i /\ Max({i}) = i
  <1>1. i <= i /\ i >= i
    OBVIOUS
  <1> QED
    BY <1>1 DEF Min, Max

LEMMA KindsAre ==
  ASSUME NEW n
  PROVE  /\ "year" \in Kinds(n) <=> YearIn[n] # NoYear
         /\ "category" \in Kinds(n) <=> CategoryOf[n] # Unknown
         /\ "edition" \in Kinds(n) <=> n \in Editions
         /\ Kinds(n) \subseteq {"year", "category", "edition"}
  BY DEF Kinds

(* Above a challenge that is plainly named a kind is that of one ancestor at
   most. *)
OfKind(d, kind) == {i \in DOMAIN Front(d) : kind \in Kinds(Front(d)[i])}

LEMMA OneOfAKind ==
  ASSUME NEW t, NEW d \in Directory, PlainlyNamed(t, d),
         NEW kind \in {"year", "category", "edition"}
  PROVE  \/ OfKind(d, kind) = {} /\ Called(d, {kind}) = {}
         \/ \E i \in DOMAIN Front(d) :
              /\ i \in Nat /\ Front(d)[i] = d[i] /\ Kinds(d[i]) = {kind}
              /\ OfKind(d, kind) = {i} /\ Called(d, {kind}) = {d[i]}
  <1> DEFINE A == Front(d)
             S == OfKind(d, kind)
  <1>0. S = {i \in DOMAIN A : kind \in Kinds(A[i])}
    BY DEF OfKind
  <1> HIDE DEF S
  <1>1. DOMAIN A = 1..Len(A) /\ \A i \in DOMAIN A : A[i] = d[i] /\ i \in Nat
    <2>1. d # Root
      BY DEF PlainlyNamed
    <2>2. /\ A \in Directory /\ Len(A) = Len(d) - 1 /\ \A i \in 1..(Len(d) - 1) : A[i] = d[i]
      BY <2>1, Parent
    <2>3. DOMAIN A = 1..Len(A)
      BY <2>2, PathIndices
    <2> QED
      BY <2>2, <2>3
  <1>2. \A i \in S : i \in Telling(d) /\ Kinds(d[i]) = {kind}
    <2> SUFFICES ASSUME NEW i \in S PROVE i \in Telling(d) /\ Kinds(d[i]) = {kind}
      OBVIOUS
    <2>1. i \in DOMAIN A /\ kind \in Kinds(d[i])
      BY <1>0, <1>1
    <2>2. i \in Telling(d)
      BY <2>1 DEF Telling
    <2>3. Kinds(d[i]) \in {{}, {"year"}, {"category"}, {"edition"}}
      BY <2>2 DEF PlainlyNamed
    <2>4. Kinds(d[i]) = {kind}
      BY <2>1, <2>3
    <2> QED
      BY <2>2, <2>4
  <1>3. {j \in Telling(d) : Kinds(d[j]) = {kind}} = S
    <2>1. \A j \in Telling(d) : j \in DOMAIN A
      BY DEF Telling
    <2>2. \A j \in Telling(d) : Kinds(d[j]) = {kind} => j \in S
      BY <1>0, <1>1, <2>1
    <2> QED
      BY <1>2, <2>2
  <1>4. Called(d, {kind}) = {d[i] : i \in S}
    BY <1>3 DEF Called
  <1>5. \A i, j \in S : i = j
    BY <1>2 DEF PlainlyNamed
  <1>6. CASE S = {}
    BY <1>4, <1>6 DEF S
  <1>7. CASE S # {}
    <2>1. PICK i : i \in S
      BY <1>7
    <2>2. S = {i}
      BY <1>5, <2>1
    <2>3. Called(d, {kind}) = {d[i]}
      BY <1>4, <2>2
    <2>4. i \in DOMAIN A
      BY <1>0, <2>1
    <2>5. /\ i \in Nat /\ A[i] = d[i] /\ Kinds(d[i]) = {kind}
          /\ S = {i} /\ Called(d, {kind}) = {d[i]}
      BY <1>1, <1>2, <2>1, <2>2, <2>3, <2>4
    <2> QED
      BY <2>4, <2>5 DEF S
  <1> QED
    BY <1>6, <1>7 DEF S

(* Nor is there more than one event. *)
LEMMA OneEvent ==
  ASSUME NEW t, NEW d \in Directory, PlainlyNamed(t, d)
  PROVE  \/ EventSegment(Front(d)) = NoText /\ Called(d, {}) = {}
         \/ /\ Called(d, {}) = {EventSegment(Front(d))}
            /\ EventSegment(Front(d)) # NoText
  <1> DEFINE A == Front(d)
             Years == {i \in DOMAIN A : YearIn[A[i]] # NoYear}
             Naming == {i \in DOMAIN A : CategoryOf[A[i]] # Unknown}
             Edition == {i \in DOMAIN A : A[i] \in Editions}
             consumed == {Min(s) : s \in {Years} \ {{}}} \cup {Max(s) : s \in {Naming, Edition} \ {{}}}
             leftover == {i \in DOMAIN A \ consumed : A[i] \notin Wrappers}
             plain == {j \in Telling(d) : Kinds(d[j]) = {}}
  <1>1. d # Root /\ \A i, j \in Telling(d) : Kinds(d[i]) = Kinds(d[j]) => i = j
    BY DEF PlainlyNamed
  <1>2. DOMAIN A = 1..Len(A) /\ \A i \in DOMAIN A : A[i] = d[i] /\ i \in Nat /\ A[i] \in Names
    <2>1. /\ A \in Directory /\ Len(A) = Len(d) - 1 /\ \A i \in 1..(Len(d) - 1) : A[i] = d[i]
      BY <1>1, Parent
    <2>2. DOMAIN A = 1..Len(A) /\ \A i \in 1..Len(A) : A[i] \in Names
      BY <2>1, PathIndices
    <2> QED
      BY <2>1, <2>2
  <1>3. /\ Years = {i \in DOMAIN A : "year" \in Kinds(A[i])}
        /\ Naming = {i \in DOMAIN A : "category" \in Kinds(A[i])}
        /\ Edition = {i \in DOMAIN A : "edition" \in Kinds(A[i])}
    BY KindsAre
  <1>0. Years = OfKind(d, "year") /\ Naming = OfKind(d, "category") /\ Edition = OfKind(d, "edition")
    BY <1>3 DEF OfKind
  <1>4. EventSegment(A) = IF leftover # {} THEN A[Min(leftover)] ELSE NoText
    BY DEF EventSegment
  <1>5. /\ Years # {} => \E i \in Nat : Years = {i}
        /\ Naming # {} => \E i \in Nat : Naming = {i}
        /\ Edition # {} => \E i \in Nat : Edition = {i}
    <2> HIDE DEF Years, Naming, Edition
    <2>1. Years # {} => \E i \in Nat : Years = {i}
      BY <1>0, OneOfAKind
    <2>2. Naming # {} => \E i \in Nat : Naming = {i}
      BY <1>0, OneOfAKind
    <2>3. Edition # {} => \E i \in Nat : Edition = {i}
      BY <1>0, OneOfAKind
    <2> QED
      BY <2>1, <2>2, <2>3
  <1>6. consumed = Years \cup Naming \cup Edition
    <2> HIDE DEF Years, Naming, Edition
    <2>1. {Min(s) : s \in {Years} \ {{}}} = Years
      <3>1. CASE Years = {}
        BY <3>1
      <3>2. CASE Years # {}
        <4>1. PICK i \in Nat : Years = {i}
          BY <1>5, <3>2
        <4>2. Min(Years) = i
          BY <4>1, OneOf
        <4> QED
          BY <3>2, <4>1, <4>2
      <3> QED
        BY <3>1, <3>2
    <2>2. Naming # {} => {Max(Naming)} = Naming
      BY <1>5, OneOf
    <2>3. Edition # {} => {Max(Edition)} = Edition
      BY <1>5, OneOf
    <2>4. {Max(s) : s \in {Naming, Edition} \ {{}}} = Naming \cup Edition
      <3>1. \A x : x \in {Max(s) : s \in {Naming, Edition} \ {{}}}
                     <=> (Naming # {} /\ x = Max(Naming)) \/ (Edition # {} /\ x = Max(Edition))
        OBVIOUS
      <3>2. \A x : x \in Naming <=> Naming # {} /\ x = Max(Naming)
        BY <2>2
      <3>3. \A x : x \in Edition <=> Edition # {} /\ x = Max(Edition)
        BY <2>3
      <3> QED
        BY <3>1, <3>2, <3>3
    <2> QED
      BY <2>1, <2>4
  <1>7. \A i \in DOMAIN A : i \in consumed <=> Kinds(d[i]) # {}
    <2> HIDE DEF Years, Naming, Edition, consumed
    <2>1. \A i \in DOMAIN A : Kinds(A[i]) \subseteq {"year", "category", "edition"}
      BY KindsAre
    <2>2. \A i \in DOMAIN A : i \in consumed <=>
            "year" \in Kinds(A[i]) \/ "category" \in Kinds(A[i]) \/ "edition" \in Kinds(A[i])
      BY <1>3, <1>6
    <2> QED
      BY <1>2, <2>1, <2>2
  <1>8. leftover = plain
    <2> HIDE DEF consumed
    <2> QED
      BY <1>2, <1>7 DEF Telling
  <1>9. Called(d, {}) = {d[i] : i \in plain}
    BY DEF Called
  <1>10. \A i, j \in plain : i = j
    BY <1>1
  <1>11. plain \subseteq DOMAIN A
    BY DEF Telling
  <1> HIDE DEF leftover, plain
  <1>12. CASE plain = {}
    BY <1>4, <1>8, <1>9, <1>12
  <1>13. CASE plain # {}
    <2>1. PICK i : i \in plain
      BY <1>13
    <2>2. plain = {i} /\ i \in DOMAIN A /\ i \in Nat
      BY <1>2, <1>10, <1>11, <2>1
    <2>3. Min(plain) = i
      BY <2>2, OneOf
    <2>4. EventSegment(A) = A[i] /\ A[i] = d[i] /\ A[i] \in Names
      BY <1>2, <1>4, <1>8, <1>13, <2>2, <2>3
    <2>5. NoText \notin Names
      BY ConnectorAssumption
    <2>6. Called(d, {}) = {d[i]}
      BY <1>9, <2>2
    <2> QED
      BY <2>4, <2>5, <2>6
  <1> QED
    BY <1>12, <1>13

(* Year, category and event of a challenge plainly named are those its path
   tells, in whatever order. *)
PathMeta(r, d, name) == DeriveMeta(d, NoJson, name, RepoEvent(r))

Tells(r, d, m) ==
    /\ m.title = Last(d)
    /\ {YearIn[n] : n \in Called(d, {"year"})} = IF m.year = NoYear THEN {} ELSE {m.year}
    /\ {CategoryOf[n] : n \in Called(d, {"category"})}
         = IF m.category = Unknown THEN {} ELSE {m.category}
    /\ {Slug[n] : n \in Events(r, d)} = {Slug[m.event]}

LEMMA PlainMeta ==
  ASSUME NEW t, NEW r, NEW d \in Directory, PlainlyNamed(t, d),
         NEW name
  PROVE  Tells(r, d, PathMeta(r, d, name))
  <1> DEFINE A == Front(d)
             m == PathMeta(r, d, name)
  <1>1. A = Front(d) /\ m = DeriveMeta(d, NoJson, name, RepoEvent(r))
    BY DEF PathMeta
  <1> HIDE DEF A, m
  <1>2. d # <<>> /\ CategoryLabel[Last(d)] = NoText
    BY DEF PlainlyNamed, Root
  <1>3. Missing # NoText
    BY DEF Missing, NoText
  <1>4. /\ m.title = Last(d)
        /\ m.event = IF EventSegment(A) # NoText THEN EventSegment(A) ELSE RepoEvent(r)
        /\ m.year = YearOf(A)
        /\ m.category = Category(RawCategory(d, A))
    BY <1>1, <1>2 DEF DeriveMeta, NoJson
  <1>5. {YearIn[n] : n \in Called(d, {"year"})} = IF m.year = NoYear THEN {} ELSE {m.year}
    <2>1. PICK kind \in {"year", "category", "edition"} : kind = "year"
      OBVIOUS
    <2>2. PICK S : S = {i \in DOMAIN A : YearIn[A[i]] # NoYear}
      OBVIOUS
    <2>3. S = OfKind(d, kind)
      BY <1>1, <2>1, <2>2, KindsAre DEF OfKind
    <2>4. YearOf(A) = IF S # {} THEN YearIn[A[Min(S)]] ELSE NoYear
      BY <2>2 DEF YearOf
    <2>5. \/ S = {} /\ Called(d, {kind}) = {}
          \/ \E i \in DOMAIN A : /\ i \in Nat /\ A[i] = d[i] /\ Kinds(d[i]) = {kind}
                                 /\ S = {i} /\ Called(d, {kind}) = {d[i]}
      <3>1. \/ OfKind(d, kind) = {} /\ Called(d, {kind}) = {}
            \/ \E i \in DOMAIN Front(d) :
                 /\ i \in Nat /\ Front(d)[i] = d[i] /\ Kinds(d[i]) = {kind}
                 /\ OfKind(d, kind) = {i} /\ Called(d, {kind}) = {d[i]}
        BY OneOfAKind
      <3> QED
        BY <1>1, <2>3, <3>1
    <2>6. CASE S = {} /\ Called(d, {kind}) = {}
      BY <1>4, <2>1, <2>4, <2>6
    <2>7. ASSUME NEW i \in DOMAIN A, i \in Nat, A[i] = d[i], S = {i}, Called(d, {kind}) = {d[i]}
          PROVE  {YearIn[n] : n \in Called(d, {"year"})} = IF m.year = NoYear THEN {} ELSE {m.year}
      <3>1. Min(S) = i /\ YearIn[d[i]] # NoYear
        BY <2>2, <2>7, OneOf
      <3>2. m.year = YearIn[d[i]]
        BY <1>4, <2>4, <2>7, <3>1
      <3> QED
        BY <2>1, <2>7, <3>1, <3>2
    <2> QED
      BY <2>5, <2>6, <2>7
  <1>6. {CategoryOf[n] : n \in Called(d, {"category"})}
          = IF m.category = Unknown THEN {} ELSE {m.category}
    <2>1. PICK kind \in {"year", "category", "edition"} : kind = "category"
      OBVIOUS
    <2>2. PICK S : S = {i \in DOMAIN A : CategoryOf[A[i]] # Unknown}
      OBVIOUS
    <2>3. S = OfKind(d, kind)
      BY <1>1, <2>1, <2>2, KindsAre DEF OfKind
    <2>4. RawCategory(d, A) = IF S # {} THEN A[Max(S)] ELSE NoText
      BY <1>2, <2>2 DEF RawCategory
    <2>5. \/ S = {} /\ Called(d, {kind}) = {}
          \/ \E i \in DOMAIN A : /\ i \in Nat /\ A[i] = d[i] /\ Kinds(d[i]) = {kind}
                                 /\ S = {i} /\ Called(d, {kind}) = {d[i]}
      <3>1. \/ OfKind(d, kind) = {} /\ Called(d, {kind}) = {}
            \/ \E i \in DOMAIN Front(d) :
                 /\ i \in Nat /\ Front(d)[i] = d[i] /\ Kinds(d[i]) = {kind}
                 /\ OfKind(d, kind) = {i} /\ Called(d, {kind}) = {d[i]}
        BY OneOfAKind
      <3> QED
        BY <1>1, <2>3, <3>1
    <2>6. CASE S = {} /\ Called(d, {kind}) = {}
      <3>1. m.category = Unknown
        BY <1>4, <2>4, <2>6 DEF Category
      <3> QED
        BY <2>1, <2>6, <3>1
    <2>7. ASSUME NEW i \in DOMAIN A, i \in Nat, A[i] = d[i], S = {i}, Called(d, {kind}) = {d[i]}
          PROVE  {CategoryOf[n] : n \in Called(d, {"category"})}
                   = IF m.category = Unknown THEN {} ELSE {m.category}
      <3>1. Max(S) = i /\ CategoryOf[d[i]] # Unknown
        BY <2>2, <2>7, OneOf
      <3>2. RawCategory(d, A) = d[i]
        BY <2>4, <2>7, <3>1
      <3>3. d[i] # NoText
        <4>1. d # Root
          BY <1>2 DEF Root
        <4>2. A \in Directory
          BY <1>1, <4>1, Parent
        <4>3. A[i] \in Names
          BY <2>7, <4>2, PathIndices
        <4> QED
          BY <2>7, <4>3, ConnectorAssumption
      <3>4. m.category = CategoryOf[d[i]]
        BY <1>4, <3>2, <3>3 DEF Category
      <3> QED
        BY <2>1, <2>7, <3>1, <3>4
    <2> QED
      BY <2>5, <2>6, <2>7
  <1>7. {Slug[n] : n \in Events(r, d)} = {Slug[m.event]}
    <2>1. \/ EventSegment(A) = NoText /\ Called(d, {}) = {}
          \/ Called(d, {}) = {EventSegment(A)} /\ EventSegment(A) # NoText
      BY <1>1, OneEvent
    <2>2. Events(r, d) = {m.event}
      BY <1>4, <2>1 DEF Events
    <2> QED
      BY <2>2
  <1> QED
    BY <1>4, <1>5, <1>6, <1>7 DEF m, Tells

(* Two challenges of a repo that come to one place are alike in what tells. *)
LEMMA OnePlace ==
  ASSUME NEW t, NEW r, NEW origin, NEW name, NEW d \in Directory, NEW e \in Directory,
         PlaceOf(origin, DeriveMeta(d, IF d \in DOMAIN t.json THEN t.json[d] ELSE NoJson, name, RepoEvent(r)))
           = PlaceOf(origin, DeriveMeta(e, IF e \in DOMAIN t.json THEN t.json[e] ELSE NoJson, name, RepoEvent(r)))
  PROVE  Namesakes(t, r, d, e)
  <1> SUFFICES ASSUME PlainlyNamed(t, d), PlainlyNamed(t, e) PROVE Namesakes(t, r, d, e)
    BY DEF Namesakes
  <1>1. PICK m, n : m = DeriveMeta(d, NoJson, name, RepoEvent(r)) /\ n = DeriveMeta(e, NoJson, name, RepoEvent(r))
    OBVIOUS
  <1>2. PlaceOf(origin, m) = PlaceOf(origin, n)
    BY <1>1 DEF PlainlyNamed
  <1>3. /\ Or(Slug[m.title], "challenge") = Or(Slug[n.title], "challenge")
        /\ SynthesizeId(m.event, m.year, m.title, m.category)
             = SynthesizeId(n.event, n.year, n.title, n.category)
    BY <1>2 DEF PlaceOf, ChallengeRelpath
  <1>4. /\ Slug[m.event] = Slug[n.event] /\ m.year = n.year /\ m.category = n.category
        /\ (IF Slug[m.title] # NoSlug THEN <<Slug[m.title]>> ELSE <<"h", m.title>>)
             = (IF Slug[n.title] # NoSlug THEN <<Slug[n.title]>> ELSE <<"h", n.title>>)
    BY <1>3 DEF SynthesizeId
  <1>5. Slug[m.title] = Slug[n.title]
    <2>1. \A a, b, c : <<a>> # <<b, c>>
      OBVIOUS
    <2>2. \A a, b : <<a>> = <<b>> => a = b
      OBVIOUS
    <2> QED
      BY <1>4, <2>1, <2>2
  <1>6. Tells(r, d, m) /\ Tells(r, e, n)
    <2>1. m = PathMeta(r, d, name) /\ n = PathMeta(r, e, name)
      BY <1>1 DEF PathMeta
    <2>2. Tells(r, d, PathMeta(r, d, name)) /\ Tells(r, e, PathMeta(r, e, name))
      BY PlainMeta
    <2> QED
      BY <2>1, <2>2
  <1> QED
    BY <1>4, <1>5, <1>6 DEF Namesakes, Tells

-----------------------------------------------------------------------------
(* What becomes of an artifact *)

(* Every artifact is under a challenge that a walk finds, but for those where a
   walk may not go and those of the root of a repo with other challenges. *)
LEMMA Covered ==
  ASSUME NEW t, IsTree(t), NEW a \in t.artifacts, \A i \in DOMAIN a : a[i] \notin Noise
  PROVE  \/ \E d \in ChallengeDirs(t) : IsPrefix(d, a)
         \/ a = Root /\ ChallengeDirs(t) # {}
         \/ a # Root /\ a[1] \in Components
  <1>1. a \in t.dirs /\ a \in Directory /\ Root \in Directory /\ Len(Root) = 0
    BY EmptySeq DEF IsTree, Root, Directory
  <1>2. CASE Root \in DOMAIN t.json
    <2>1. Len(a) \in Nat /\ IsPrefix(Root, a)
      BY <1>1, PathIndices, PrefixByIndex
    <2> QED
      BY <1>2, <2>1 DEF ChallengeDirs
  <1>3. CASE Root \notin DOMAIN t.json /\ a = Root
    <2>1. IsChallenge(t, Root)
      BY <1>3 DEF IsChallenge
    <2> QED
      BY <1>3, <2>1 DEF ChallengeDirs
  <1>4. CASE Root \notin DOMAIN t.json /\ a # Root /\ a[1] \notin Components
    <2> DEFINE above == {e \in t.dirs \ {Root} : IsPrefix(e, a) /\ IsChallenge(t, e)}
               depths == {Len(e) : e \in above}
    <2>1. a \in above
      <3>1. IsChallenge(t, a)
        BY DEF IsChallenge
      <3>2. IsPrefix(a, a)
        BY <1>1, PathIndices, PrefixByIndex
      <3> QED
        BY <1>1, <1>4, <3>1, <3>2
    <2>2. \A e \in above : e \in Directory /\ Len(e) \in Nat \ {0} /\ Len(a) \in Nat
      <3>1. \A e \in above : e \in Directory /\ e # Root
        BY DEF IsTree
      <3>2. \A e \in above : Len(e) \in Nat \ {0}
        BY <3>1, PathIndices, EmptySeq DEF Root, Directory
      <3> QED
        BY <1>1, <3>1, <3>2, PathIndices
    <2> HIDE DEF above
    <2>3. depths \subseteq Nat /\ depths # {}
      BY <2>1, <2>2
    <2>4. Min(depths) \in depths /\ \A n \in depths : Min(depths) <= n
      BY <2>3, MinIsMember
    <2>5. PICK d \in above : \A e \in above : Len(d) <= Len(e)
      BY <2>4
    <2>6. d \in t.dirs /\ d # Root /\ IsPrefix(d, a) /\ IsChallenge(t, d)
      BY DEF above
    <2>7. d \in Visitable(t)
      <3>1. Len(d) <= Len(a) /\ \A i \in 1..Len(d) : d[i] = a[i]
        BY <1>1, <2>2, <2>6, PrefixByIndex
      <3>2. DOMAIN d = 1..Len(d) /\ DOMAIN a = 1..Len(a) /\ 1 \in 1..Len(d)
        BY <1>1, <2>2, PathIndices
      <3>3. \A i \in 1..Len(d) : i \in 1..Len(a)
        BY <2>2, <3>1
      <3> QED
        BY <1>4, <2>6, <3>1, <3>2, <3>3 DEF Visitable
    <2>8. ASSUME NEW e \in t.dirs \ {Root}, IsStrictPrefix(e, d), IsChallenge(t, e)
          PROVE  FALSE
      <3>1. e \in Directory /\ IsPrefix(e, d) /\ e # d
        BY <2>8 DEF IsTree, IsStrictPrefix
      <3>2. IsPrefix(e, a)
        BY <1>1, <2>2, <2>6, <3>1, PrefixTransitive
      <3>3. e \in above
        BY <2>8, <3>2 DEF above
      <3>4. Len(e) <= Len(d) /\ \A i \in 1..Len(e) : e[i] = d[i]
        BY <2>2, <3>1, PrefixByIndex
      <3>5. Len(e) = Len(d)
        BY <2>2, <2>5, <3>3, <3>4
      <3> QED
        BY <2>2, <3>1, <3>4, <3>5, SamePath
    <2>9. d \in Topmost(t)
      BY <2>6, <2>7, <2>8 DEF Topmost
    <2> QED
      BY <1>4, <2>6, <2>9 DEF ChallengeDirs
  <1> QED
    BY <1>2, <1>3, <1>4

(* A record has the place that its repo's names and its checkout give its path,
   and is of the repo of its walk. *)
MetaAt(r, t, d) ==
    DeriveMeta(d, IF d \in DOMAIN t.json THEN t.json[d] ELSE NoJson, RepoName[r], RepoEvent(r))

InPlace(y) ==
    y.repo \in DOMAIN clones /\ y.place = PlaceOf(OriginOf[y.repo], MetaAt(y.repo, clones[y.repo], y.path))

OfItsWalk(y) ==
    /\ y.walk \in Walks => y.repo = log[y.walk].repo
    /\ y.walk = Len(log) + 1 => y.repo = repo

PlacesInv == \A y \in ToSet(yielded) : InPlace(y) /\ OfItsWalk(y)

LEMMA PlaceStays ==
  ASSUME NEW y, InPlace(y), \A r \in DOMAIN clones : r \in DOMAIN clones' /\ clones'[r] = clones[r]
  PROVE  InPlace(y)'
  <1>1. y.repo \in DOMAIN clones' /\ clones'[y.repo] = clones[y.repo]
    BY DEF InPlace
  <1> QED
    BY <1>1 DEF InPlace

LEMMA PlacesStay ==
  ASSUME Typed, WalksInv, PlacesInv, UNCHANGED <<yielded, log>>, pc = "walk" => seeds' = seeds,
         \A r \in DOMAIN clones : r \in DOMAIN clones' /\ clones'[r] = clones[r]
  PROVE  PlacesInv'
  <1>1. SUFFICES ASSUME NEW y \in ToSet(yielded) PROVE InPlace(y)' /\ OfItsWalk(y)'
    BY DEF PlacesInv, ToSet
  <1>2. InPlace(y) /\ OfItsWalk(y)
    BY DEF PlacesInv
  <1>3. y.walk = Len(log) + 1 => pc = "walk"
    BY DEF WalksInv, Found
  <1>4. OfItsWalk(y)'
    BY <1>2, <1>3 DEF OfItsWalk, Walks, repo
  <1> QED
    BY <1>2, <1>4, PlaceStays

LEMMA PlacesGrow ==
  ASSUME Typed, PlacesInv, pc \in {"root", "walk"}, NEW d, Yield(d)
  PROVE  \A y \in ToSet(yielded)' : InPlace(y) /\ OfItsWalk(y)
  <1>1. PICK z : /\ z.walk = Len(log) + 1 /\ z.repo = repo /\ z.path = d
                 /\ z.place = PlaceOf(OriginOf[repo], MetaOf(d))
                 /\ ToSet(yielded)' = ToSet(yielded) \cup {z}
    BY Yielded
  <1>2. InPlace(z)
    BY <1>1 DEF InPlace, MetaAt, MetaOf, Typed, tree
  <1>3. OfItsWalk(z)
    <2>1. Len(log) \in Nat
      BY LenProperties DEF Typed, TypeOK
    <2> QED
      BY <1>1, <2>1 DEF OfItsWalk, Walks
  <1> QED
    BY <1>1, <1>2, <1>3 DEF PlacesInv

LEMMA PlacesEnd ==
  ASSUME Typed, PlacesInv, seeds # <<>>, NEW outcome \in Outcomes, NextSeed(outcome),
         clones' = clones,
         yielded' = yielded \/ (pc \in {"root", "walk"} /\ \E d \in Directory : Yield(d))
  PROVE  PlacesInv'
  <1>1. /\ Len(log) \in Nat /\ Len(log') = Len(log) + 1
        /\ \A k \in 1..Len(log) : log'[k] = log[k]
        /\ log'[Len(log) + 1] = [repo |-> repo, outcome |-> outcome]
    BY Logged
  <1>2. \A y \in ToSet(yielded)' : InPlace(y) /\ OfItsWalk(y) /\ y.walk \in 1..(Len(log) + 1)
    <2>1. \A y \in ToSet(yielded) : y.walk \in 1..(Len(log) + 1)
      BY DEF Typed, TypeOK, ToSet
    <2>2. CASE yielded' = yielded
      BY <2>1, <2>2 DEF PlacesInv, ToSet
    <2>3. CASE pc \in {"root", "walk"} /\ \E d \in Directory : Yield(d)
      <3>1. PICK d \in Directory : Yield(d)
        BY <2>3
      <3>2. PICK z : z.walk = Len(log) + 1 /\ ToSet(yielded)' = ToSet(yielded) \cup {z}
        BY <3>1, Yielded
      <3>3. \A y \in ToSet(yielded)' : y.walk \in 1..(Len(log) + 1)
        BY <1>1, <2>1, <3>2
      <3> QED
        BY <2>3, <3>1, <3>3, PlacesGrow
    <2> QED
      BY <2>2, <2>3
  <1>3. ASSUME NEW y \in ToSet(yielded)'
        PROVE  InPlace(y)' /\ OfItsWalk(y)'
    <2>1. InPlace(y) /\ OfItsWalk(y) /\ y.walk \in 1..(Len(log) + 1)
      BY <1>2, <1>3
    <2>2. y.repo = log'[y.walk].repo
      BY <1>1, <2>1 DEF OfItsWalk, Walks
    <2>3. y.walk # Len(log') + 1
      BY <1>1, <2>1
    <2> QED
      BY <2>1, <2>2, <2>3, PlaceStays DEF OfItsWalk
  <1> QED
    BY <1>3 DEF PlacesInv

LEMMA StepPlaces ==
  ASSUME Typed, WalksInv, PlacesInv, [Next]_vars
  PROVE  PlacesInv'
  <1>0. Root \in Directory /\ {"walked", "cut", "skipped"} = Outcomes
    BY EmptySeq DEF Root, Directory, Outcomes
  <1>1. CASE DedupPreserve \/ Resolved \/ LoadSeed \/ LoadDiscoveredSeed \/ Discover \/ EndDiscover \/ EnterRoot
    BY <1>1, PlacesStay
    DEF DedupPreserve, Resolved, LoadSeed, LoadDiscoveredSeed, Discover, EndDiscover, EnterRoot,
        listVars, queueVars, walkVars
  <1>2. CASE Clone
    <2>1. \A r \in DOMAIN clones : r \in DOMAIN clones' /\ clones'[r] = clones[r]
      BY <1>2, CloneTyped
    <2> QED
      BY <1>2, <2>1, PlacesStay DEF Clone
  <1>3. CASE CloneFails
    BY <1>0, <1>3, PlacesEnd DEF CloneFails
  <1>4. CASE RootIsChallenge
    <2>1. /\ pc = "root" /\ seeds # <<>> /\ Yield(Root) /\ NextSeed("walked") /\ clones' = clones
      BY <1>4 DEF RootIsChallenge, Typed, TypeOK
    <2> QED
      BY <1>0, <2>1, PlacesEnd
  <1>5. ASSUME NEW d \in pending, YieldChallenge(d)
        PROVE  PlacesInv'
    <2>1. pc = "walk" /\ seeds # <<>> /\ Yield(d) /\ clones' = clones /\ d \in Directory
      BY <1>5 DEF YieldChallenge, Typed, TypeOK
    <2>2. CASE Cut
      <3>1. NextSeed("cut")
        BY <1>5, <2>2 DEF YieldChallenge
      <3> QED
        BY <1>0, <2>1, <3>1, PlacesEnd
    <2>3. CASE ~Cut
      <3>1. UNCHANGED <<seeds, log>>
        BY <1>5, <2>3 DEF YieldChallenge
      <3>2. \A y \in ToSet(yielded)' : InPlace(y) /\ OfItsWalk(y)
        BY <2>1, PlacesGrow
      <3>3. \A y : InPlace(y) /\ OfItsWalk(y) => InPlace(y)' /\ OfItsWalk(y)'
        BY <2>1, <3>1 DEF InPlace, OfItsWalk, Walks, repo
      <3> QED
        BY <3>2, <3>3 DEF PlacesInv
    <2> QED
      BY <2>2, <2>3
  <1>6. ASSUME NEW d \in pending, Descend(d)
        PROVE  PlacesInv'
    BY <1>6, PlacesStay DEF Descend
  <1>7. CASE YieldRoot
    <2>1. /\ pc = "walk" /\ seeds # <<>> /\ Yield(Root) /\ NextSeed("walked") /\ clones' = clones
      BY <1>7 DEF YieldRoot, Typed, TypeOK
    <2> QED
      BY <1>0, <2>1, PlacesEnd
  <1>8. CASE EndWalk
    <2>1. /\ seeds # <<>> /\ NextSeed("walked") /\ clones' = clones /\ yielded' = yielded
      BY <1>8 DEF EndWalk, Typed, TypeOK
    <2> QED
      BY <1>0, <2>1, PlacesEnd
  <1>9. CASE UNCHANGED vars
    BY <1>9, PlacesStay DEF vars
  <1> QED
    BY <1>1, <1>2, <1>3, <1>4, <1>5, <1>6, <1>7, <1>8, <1>9 DEF Next, Over

LEMMA PlacesAlways == Spec => []PlacesInv
  <1>1. Init => PlacesInv
    BY DEF Init, PlacesInv, ToSet
  <1>2. Typed /\ WalksInv /\ PlacesInv /\ [Next]_vars => PlacesInv'
    BY StepPlaces
  <1> QED
    BY <1>1, <1>2, TypedAlways, WalksAlways, PTL DEF Spec

(* Whatever the trees, a walk that ran to its end has every artifact in the
   place of a challenge of its own, but for the losses that are known. *)
THEOREM KnownLosses == Spec => []OnlyKnownLosses
  <1>1. Typed /\ WalksInv /\ PlacesInv => OnlyKnownLosses
    <2> SUFFICES ASSUME Typed, WalksInv, PlacesInv, NEW k \in Walks, log[k].outcome = "walked",
                        NEW a \in clones[log[k].repo].artifacts,
                        NEW Records, Records = {i \in DOMAIN yielded : yielded[i].walk = k}
                 PROVE  \/ \E i \in Records :
                             /\ IsPrefix(yielded[i].path, a)
                             /\ \A j \in Records : i < j /\ yielded[j].place = yielded[i].place =>
                                   Namesakes(clones[log[k].repo], log[k].repo, yielded[i].path, yielded[j].path)
                        \/ \E i \in DOMAIN a : a[i] \in Noise
                        \/ a = Root /\ Records # {}
                        \/ a # Root /\ a[1] \in Components
      BY DEF OnlyKnownLosses
    <2>1. PICK r, t : r = log[k].repo /\ t = clones[r]
      OBVIOUS
    <2>2. r \in DOMAIN clones /\ Found(k) = ChallengeDirs(t) /\ IsTree(t)
      <3>1. Settled(k)
        BY DEF WalksInv
      <3>2. r \in DOMAIN clones /\ Found(k) = ChallengeDirs(t)
        BY <2>1, <3>1 DEF Settled, There
      <3>3. r \in Repos /\ t \in Checkouts[r]
        BY <2>1, <3>2 DEF Typed, TypeOK
      <3> QED
        BY <3>2, <3>3, ConnectorAssumption
    <2>3. \A d \in Found(k) : \E i \in Records : yielded[i].path = d
      BY DEF Found, ToSet
    <2>4. ASSUME NEW d \in ChallengeDirs(t), IsPrefix(d, a)
          PROVE  \E i \in Records :
                   /\ IsPrefix(yielded[i].path, a)
                   /\ \A j \in Records : i < j /\ yielded[j].place = yielded[i].place =>
                         Namesakes(clones[log[k].repo], log[k].repo, yielded[i].path, yielded[j].path)
      <3>1. PICK i \in Records : yielded[i].path = d
        BY <2>2, <2>3
      <3>2. \A j \in Records : /\ yielded[j].path \in Directory
                               /\ yielded[j].place = PlaceOf(OriginOf[r], MetaAt(r, t, yielded[j].path))
        <4> SUFFICES ASSUME NEW j \in Records
                     PROVE  /\ yielded[j].path \in Directory
                            /\ yielded[j].place = PlaceOf(OriginOf[r], MetaAt(r, t, yielded[j].path))
          OBVIOUS
        <4>1. j \in DOMAIN yielded /\ yielded[j] \in ToSet(yielded) /\ yielded[j].walk = k
          BY DEF ToSet
        <4>2. yielded[j].repo = r
          BY <2>1, <4>1 DEF PlacesInv, OfItsWalk
        <4> QED
          BY <2>1, <4>1, <4>2 DEF PlacesInv, InPlace, Typed, TypeOK
      <3>3. ASSUME NEW j \in Records, yielded[j].place = yielded[i].place
            PROVE  Namesakes(t, r, yielded[i].path, yielded[j].path)
        <4>1. PICK e, f : e = yielded[i].path /\ f = yielded[j].path
          OBVIOUS
        <4>2. e \in Directory /\ f \in Directory
              /\ PlaceOf(OriginOf[r], MetaAt(r, t, e)) = PlaceOf(OriginOf[r], MetaAt(r, t, f))
          BY <3>2, <3>3, <4>1
        <4>3. Namesakes(t, r, e, f)
          BY <4>2, OnePlace DEF MetaAt
        <4> QED
          BY <4>1, <4>3
      <3> QED
        BY <2>1, <2>4, <3>1, <3>3
    <2>5. a = Root /\ ChallengeDirs(t) # {} => Records # {}
      BY <2>2, <2>3
    <2>6. \/ \E d \in ChallengeDirs(t) : IsPrefix(d, a)
          \/ \E i \in DOMAIN a : a[i] \in Noise
          \/ a = Root /\ ChallengeDirs(t) # {}
          \/ a # Root /\ a[1] \in Components
      BY <2>1, <2>2, Covered
    <2> QED
      BY <2>4, <2>5, <2>6
  <1> QED
    BY <1>1, TypedAlways, WalksAlways, PlacesAlways, PTL

=============================================================================
