---------------------- MODULE HackropoleDownloadProofs ----------------------
(***************************************************************************)
(* Theorems about HackropoleDownload for any sitemaps, pages and handouts, *)
(* any limit and cap, and any number of runs.                              *)
(***************************************************************************)
EXTENDS HackropoleDownload, SequenceTheorems, FiniteSetTheorems, TLAPS

-----------------------------------------------------------------------------
(* The sequences worked off *)

LEMMA SeqOfItsElements ==
  ASSUME NEW S, NEW q \in Seq(S)
  PROVE  ToSet(q) \subseteq S /\ q \in Seq(ToSet(q))
  BY DEF ToSet

LEMMA HeadAndTail ==
  ASSUME NEW S, NEW q \in Seq(S), q # <<>>
  PROVE  /\ Head(q) \in S
         /\ Tail(q) \in Seq(S)
         /\ ToSet(q) = {Head(q)} \cup ToSet(Tail(q))
  <1>1. Head(q) \in S /\ Tail(q) \in Seq(S)
    BY HeadTailProperties
  <1>2. Head(q) = q[1] /\ Len(q) \in Nat /\ Len(q) >= 1 /\ DOMAIN q = 1..Len(q)
    BY EmptySeq, LenProperties
  <1>3. DOMAIN Tail(q) = 1..(Len(q) - 1) /\ \A i \in 1..(Len(q) - 1) : Tail(q)[i] = q[i + 1]
    BY HeadTailProperties, LenProperties
  <1>4. ASSUME NEW e \in ToSet(q) PROVE e \in {Head(q)} \cup ToSet(Tail(q))
    <2>1. PICK i \in 1..Len(q) : e = q[i]
      BY <1>2 DEF ToSet
    <2>2. CASE i = 1
      BY <1>2, <2>1, <2>2
    <2>3. CASE i # 1
      <3>1. i - 1 \in 1..(Len(q) - 1) /\ (i - 1) + 1 = i
        BY <1>2, <2>1, <2>3
      <3>2. Tail(q)[i - 1] = e
        BY <1>3, <2>1, <3>1
      <3> QED
        BY <1>3, <3>1, <3>2 DEF ToSet
    <2> QED
      BY <2>2, <2>3
  <1>5. ASSUME NEW e \in ToSet(Tail(q)) PROVE e \in ToSet(q)
    <2>1. PICK i \in 1..(Len(q) - 1) : e = q[i + 1]
      BY <1>3, <1>5 DEF ToSet
    <2> QED
      BY <1>2, <2>1 DEF ToSet
  <1>6. Head(q) \in ToSet(q)
    BY <1>2 DEF ToSet
  <1> QED
    BY <1>1, <1>4, <1>5, <1>6

LEMMA Appended ==
  ASSUME NEW S, NEW q \in Seq(S), NEW e \in S
  PROVE  Append(q, e) \in Seq(S) /\ ToSet(Append(q, e)) = ToSet(q) \cup {e}
  <1>1. /\ Append(q, e) \in Seq(S)
        /\ DOMAIN Append(q, e) = 1..(Len(q) + 1)
        /\ Append(q, e)[Len(q) + 1] = e
        /\ \A i \in 1..Len(q) : Append(q, e)[i] = q[i]
    BY AppendProperties, LenProperties
  <1>2. Len(q) \in Nat /\ DOMAIN q = 1..Len(q)
    BY LenProperties
  <1>3. ASSUME NEW i \in 1..(Len(q) + 1) PROVE i \in 1..Len(q) \/ i = Len(q) + 1
    BY <1>2
  <1>4. 1..Len(q) \subseteq 1..(Len(q) + 1) /\ Len(q) + 1 \in 1..(Len(q) + 1)
    BY <1>2
  <1> QED
    BY <1>1, <1>2, <1>3, <1>4 DEF ToSet

LEMMA EmptySequence == <<>> \in Seq({}) /\ ToSet(<<>>) = {}
  <1>1. \A S : <<>> \in Seq(S)
    BY EmptySeq
  <1> QED
    BY <1>1 DEF ToSet

(* What the sitemap is turned into: challenge pages only, within the limit. *)
LEMMA VisitsWithinLimit ==
  ASSUME NEW locs, NEW q \in ChallengeUrls(locs)
  PROVE  /\ q \in Seq(ToSet(q))
         /\ ToSet(q) \subseteq ChallengePages
         /\ Cardinality(ToSet(q)) <= Limit
  <1>1. PICK at \in SeqOf(Firsts(locs), Limit) : q = [k \in DOMAIN at |-> locs[at[k]]]
    BY DEF ChallengeUrls
  <1>2. PICK m \in 0..Limit : at \in [1..m -> Firsts(locs)]
    BY DEF SeqOf
  <1>3. m \in Nat /\ m <= Limit /\ Limit \in Nat
    BY DownloadAssumption
  <1>4. q \in [1..m -> ChallengePages]
    BY <1>1, <1>2 DEF Firsts
  <1>5. q \in Seq(ChallengePages)
    BY <1>3, <1>4, SeqDef
  <1>6. q \in Surjection(1..m, ToSet(q))
    BY <1>4 DEF Surjection, ToSet
  <1>7. IsFiniteSet(1..m) /\ Cardinality(1..m) = m
    BY <1>3, FS_Interval
  <1>8. Cardinality(ToSet(q)) <= m /\ Cardinality(ToSet(q)) \in Nat
    BY <1>6, <1>7, FS_Surjection, FS_CardinalityType
  <1> QED
    BY <1>3, <1>5, <1>8, SeqOfItsElements

-----------------------------------------------------------------------------
(* Types, and what the connector has in hand *)

AtPage == {"link", "request", "body"}

(* The handout in hand is one its page offers, and the .part being written is
   its own and no more than its body. *)
InHand ==
    /\ pc \in AtPage => offered \in Seq(OfferedBy(Head(pages)))
    /\ pc = "body" => /\ part[target] # Nothing
                      /\ part[target].of = url
                      /\ part[target].got <= Size[url]

TypeInv == TypeOK /\ InHand

LEMMA InitTypeInv == Init => TypeInv
  <1> SUFFICES ASSUME Init PROVE TypeInv
    OBVIOUS
  <1>1. pages \in Seq(listed) /\ links \in Seq(ToSet(offered)) /\ offered \in Seq(Handouts)
    BY EmptySeq DEF Init
  <1>2. Cardinality(listed) <= Limit
    BY FS_EmptySet, DownloadAssumption DEF Init
  <1> QED
    BY <1>1, <1>2, DownloadAssumption DEF Init, TypeInv, TypeOK, InHand, AtPage, Stored

LEMMA PageInHand ==
  ASSUME TypeOK, pages # <<>>
  PROVE  Head(pages) \in ChallengePages /\ Head(pages) \in listed /\ Tail(pages) \in Seq(listed)
  BY HeadAndTail DEF TypeOK

LEMMA HandoutInHand ==
  ASSUME TypeInv, pc \in AtPage, links # <<>>
  PROVE  /\ Head(links) \in OfferedBy(Head(pages))
         /\ target \in Targets
         /\ url \in Urls
         /\ Tail(links) \in Seq(ToSet(offered))
         /\ ToSet(links) = {Head(links)} \cup ToSet(Tail(links))
         /\ ToSet(links) \subseteq ToSet(offered)
  <1>1. /\ Head(links) \in ToSet(offered)
        /\ Tail(links) \in Seq(ToSet(offered))
        /\ ToSet(links) = {Head(links)} \cup ToSet(Tail(links))
        /\ ToSet(links) \subseteq ToSet(offered)
    BY HeadAndTail, SeqOfItsElements DEF TypeInv, TypeOK
  <1>2. ToSet(offered) \subseteq OfferedBy(Head(pages))
    BY SeqOfItsElements DEF TypeInv, InHand
  <1>3. Head(pages) \in ChallengePages
    BY PageInHand DEF TypeInv, TypeOK, AtPage
  <1>4. Head(links) \in Handouts
    BY <1>1, <1>2, <1>3 DEF Handouts, OfferedBy
  <1> QED
    BY <1>1, <1>2, <1>3, <1>4 DEF Targets, Urls, target, url

(* A store of files within the cap, and what writing one entry of it keeps. *)
Capped(store) ==
    /\ store \in [Targets -> Stored]
    /\ \A t \in Targets : store[t] # Nothing => store[t].got <= MaxFile

LEMMA StoreWritten ==
  ASSUME NEW store, Capped(store), NEW t \in Targets,
         NEW v \in Stored, v # Nothing => v.got <= MaxFile
  PROVE  Capped([store EXCEPT ![t] = v])
  BY DEF Capped

LEMMA StoresCapped == TypeOK => Capped(file) /\ Capped(part)
  BY DEF TypeOK, Capped

(* The handout in hand is done with, and the next one is looked at. *)
LEMMA NextLinkTypeInv ==
  ASSUME TypeInv, pc \in AtPage, links # <<>>, NextLink, UNCHANGED runs,
         Capped(file'), Capped(part')
  PROVE  TypeInv'
  <1>1. Tail(links) \in Seq(ToSet(offered))
    BY HandoutInHand
  <1> QED
    BY <1>1 DEF NextLink, TypeInv, TypeOK, InHand, AtPage, Capped

LEMMA DropTypeInv ==
  ASSUME TypeInv, pc \in {"request", "body"}, Drop
  PROVE  TypeInv'
  <1>1. pc \in AtPage /\ links # <<>>
    BY DEF AtPage, TypeInv, TypeOK
  <1>2. Nothing \in Stored /\ target \in Targets
    BY <1>1, HandoutInHand DEF Stored
  <1>3. Capped(file') /\ Capped(part')
    BY <1>2, StoreWritten, StoresCapped DEF Drop, TypeInv
  <1> QED
    BY <1>1, <1>3, NextLinkTypeInv DEF Drop, NextLink

LEMMA PromoteTypeInv ==
  ASSUME TypeInv, pc = "body", Promote
  PROVE  TypeInv'
  <1>1. pc \in AtPage /\ links # <<>>
    BY DEF AtPage, TypeInv, TypeOK
  <1>2. Nothing \in Stored /\ target \in Targets
    BY <1>1, HandoutInHand DEF Stored
  <1>3. part[target] \in Stored /\ (part[target] # Nothing => part[target].got <= MaxFile)
    BY <1>2 DEF TypeInv, TypeOK
  <1>4. Capped(file') /\ Capped(part')
    BY <1>2, <1>3, StoreWritten, StoresCapped DEF Promote, TypeInv
  <1> QED
    BY <1>1, <1>4, NextLinkTypeInv DEF Promote, NextLink

LEMMA ChunkTypeInv ==
  ASSUME TypeInv, Chunk
  PROVE  TypeInv'
  <1>1. pc = "body" /\ pc \in AtPage /\ links # <<>>
    BY DEF Chunk, AtPage, TypeInv, TypeOK
  <1>2. target \in Targets /\ url \in Urls /\ Size[url] \in Nat
    BY <1>1, HandoutInHand, DownloadAssumption
  <1>3. part[target] \in [of : Urls, got : Nat] /\ part[target].of = url
    BY <1>1, <1>2 DEF TypeInv, TypeOK, InHand, Stored
  <1>4. CASE Fits(part[target].got + 1)
    <2>1. part' = [part EXCEPT ![target].got = @ + 1] /\ UNCHANGED <<pc, links>>
      BY <1>4 DEF Chunk
    <2> DEFINE v == [part[target] EXCEPT !.got = @ + 1]
    <2>2. v \in [of : Urls, got : Nat] /\ v.of = url /\ v.got = part[target].got + 1
      BY <1>3
    <2>3. v \in Stored /\ v # Nothing /\ v.got <= MaxFile
      <3> HIDE DEF v
      <3>1. v.got \in Nat /\ ~(v.got > MaxFile)
        BY <1>4, <2>2 DEF Fits, TooLarge
      <3>2. v.got <= MaxFile
        BY <3>1, DownloadAssumption
      <3> QED
        BY <2>2, <3>2, DownloadAssumption DEF Stored
    <2>4. part' = [part EXCEPT ![target] = v]
      BY <1>2, <2>1 DEF TypeInv, TypeOK
    <2>5. v.got <= Size[url]
      BY <1>2, <1>3, <2>2 DEF Chunk
    <2> HIDE DEF v
    <2>6. Capped(part')
      BY <1>2, <2>3, <2>4, StoreWritten, StoresCapped DEF TypeInv
    <2>7. UNCHANGED <<pc, pages, offered, links, file, listed, runs, target, url>>
      BY <2>1 DEF Chunk, target, url
    <2>8. part'[target] = v
      BY <1>2, <2>4 DEF TypeInv, TypeOK
    <2>9. TypeOK'
      BY <2>6, <2>7 DEF Capped, TypeInv, TypeOK
    <2>10. InHand'
      BY <2>2, <2>3, <2>5, <2>7, <2>8 DEF TypeInv, InHand
    <2> QED
      BY <2>9, <2>10 DEF TypeInv
  <1>5. CASE ~Fits(part[target].got + 1)
    <2>1. Nothing \in Stored
      BY DEF Stored
    <2>2. Capped(file') /\ Capped(part')
      BY <1>2, <1>5, <2>1, StoreWritten, StoresCapped DEF Chunk, TypeInv
    <2> QED
      BY <1>1, <1>5, <2>2, NextLinkTypeInv DEF Chunk, NextLink
  <1> QED
    BY <1>4, <1>5

LEMMA NextTypeInv ==
  ASSUME TypeInv, [Next]_vars
  PROVE  TypeInv'
  <1> USE DEF AtPage
  <1>1. CASE SitemapArrives
    <2>1. PICK locs \in Sitemaps : pages' \in ChallengeUrls(locs)
      BY <1>1 DEF SitemapArrives
    <2>2. pages' \in Seq(listed') /\ listed' \subseteq ChallengePages /\ Cardinality(listed') <= Limit
      BY <1>1, <2>1, VisitsWithinLimit DEF SitemapArrives
    <2> QED
      BY <1>1, <2>2 DEF SitemapArrives, TypeInv, TypeOK, InHand
  <1>2. CASE PageArrives
    <2>1. Head(pages) \in ChallengePages
      BY <1>2, PageInHand DEF PageArrives, TypeInv
    <2>2. offered' \in Seq(OfferedBy(Head(pages)))
      BY <1>2, <2>1, DownloadAssumption DEF PageArrives
    <2>3. OfferedBy(Head(pages)) \subseteq Handouts
      BY <2>1 DEF OfferedBy, Handouts
    <2>4. offered' \in Seq(Handouts) /\ offered' \in Seq(ToSet(offered'))
      BY <2>2, <2>3, SeqMonotonic, SeqOfItsElements
    <2> QED
      BY <1>2, <2>2, <2>4 DEF PageArrives, TypeInv, TypeOK, InHand
  <1>3. CASE PageFails
    <2>1. Tail(pages) \in Seq(listed)
      BY <1>3, PageInHand DEF PageFails, TypeInv
    <2> QED
      BY <1>3, <2>1 DEF PageFails, TypeInv, TypeOK, InHand
  <1>4. CASE YieldRecord
    <2>1. Tail(pages) \in Seq(listed)
      BY <1>4, PageInHand DEF YieldRecord, TypeInv, TypeOK
    <2>2. links' \in Seq(ToSet(offered')) /\ offered' \in Seq(Handouts)
      BY <1>4, EmptySequence, EmptySeq DEF YieldRecord
    <2> QED
      BY <1>4, <2>1, <2>2 DEF YieldRecord, TypeInv, TypeOK, InHand
  <1>5. CASE Finish
    BY <1>5 DEF Finish, TypeInv, TypeOK, InHand
  <1>6. CASE Resume
    BY <1>6, NextLinkTypeInv, StoresCapped DEF Resume, NextLink, TypeInv
  <1>7. CASE Request
    <2>1. target \in Targets /\ Nothing \in Stored
      BY <1>7, HandoutInHand DEF Request, Stored
    <2>2. Capped(part')
      BY <1>7, <2>1, StoreWritten, StoresCapped DEF Request, TypeInv
    <2> QED
      BY <1>7, <2>2 DEF Request, Capped, TypeInv, TypeOK, InHand
  <1>8. CASE RequestFails
    BY <1>8, DropTypeInv DEF RequestFails
  <1>9. CASE DeclaredTooLarge
    <2>1. pc \in AtPage /\ links # <<>>
      BY <1>9 DEF DeclaredTooLarge, TypeInv, TypeOK
    <2> QED
      BY <1>9, <2>1, NextLinkTypeInv, StoresCapped DEF DeclaredTooLarge, NextLink, TypeInv
  <1>10. CASE BodyStarts
    <2> DEFINE v == [of |-> url, got |-> 0]
    <2>0. pc \in AtPage /\ links # <<>>
      BY <1>10 DEF BodyStarts, TypeInv, TypeOK
    <2>1. target \in Targets /\ url \in Urls /\ Size[url] \in Nat
      BY <2>0, HandoutInHand, DownloadAssumption
    <2>2. v \in Stored /\ v # Nothing /\ v.got <= MaxFile /\ v.of = url /\ v.got <= Size[url]
      BY <2>1, DownloadAssumption DEF Stored
    <2>3. part' = [part EXCEPT ![target] = v]
      BY <1>10 DEF BodyStarts
    <2> HIDE DEF v
    <2>4. Capped(part')
      BY <2>1, <2>2, <2>3, StoreWritten, StoresCapped DEF TypeInv
    <2>5. UNCHANGED <<pages, offered, links, file, listed, runs, target, url>> /\ pc' = "body"
      BY <1>10 DEF BodyStarts, target, url
    <2>6. part'[target] = v
      BY <2>1, <2>3 DEF TypeInv, TypeOK
    <2>7. TypeOK'
      BY <2>0, <2>4, <2>5 DEF Capped, TypeInv, TypeOK
    <2>8. InHand'
      BY <2>0, <2>2, <2>5, <2>6 DEF TypeInv, InHand
    <2> QED
      BY <2>7, <2>8 DEF TypeInv
  <1>11. CASE Chunk
    BY <1>11, ChunkTypeInv
  <1>12. CASE BodyEnds
    BY <1>12, PromoteTypeInv, DropTypeInv DEF BodyEnds
  <1>13. CASE BodyRaises
    BY <1>13, DropTypeInv DEF BodyRaises
  <1>14. CASE Crash
    BY <1>14 DEF Crash, TypeInv, TypeOK, InHand
  <1>15. CASE Restart
    <2>1. pages' \in Seq(listed') /\ links' \in Seq(ToSet(offered')) /\ offered' \in Seq(Handouts)
      BY <1>15, EmptySeq DEF Restart
    <2>2. Cardinality(listed') <= Limit
      BY <1>15, FS_EmptySet, DownloadAssumption DEF Restart
    <2>3. runs' \in 1..MaxRuns
      BY <1>15, DownloadAssumption DEF Restart, TypeInv, TypeOK
    <2> QED
      BY <1>15, <2>1, <2>2, <2>3 DEF Restart, TypeInv, TypeOK, InHand
  <1>16. CASE UNCHANGED vars
    BY <1>16 DEF vars, TypeInv, TypeOK, InHand, target, url
  <1> QED
    BY <1>1, <1>2, <1>3, <1>4, <1>5, <1>6, <1>7, <1>8, <1>9, <1>10, <1>11, <1>12, <1>13,
       <1>14, <1>15, <1>16 DEF Next, Connector, Over

LEMMA Typing == Spec => []TypeInv
  BY InitTypeInv, NextTypeInv, PTL DEF Spec

(* Every variable has its type, no more pages than the limit are visited, and
   no file or .part outgrows the cap. *)
THEOREM TypeCorrect == Spec => []TypeOK
  <1>1. TypeInv => TypeOK
    BY DEF TypeInv
  <1> QED
    BY <1>1, Typing, PTL

-----------------------------------------------------------------------------
(* What a final name stands for *)

(* The handout in hand had no final file when it was asked for, so what the
   transfer writes or unlinks is never one. *)
InHandNotFinal == pc \in {"request", "body"} => ~Final(target)

LEMMA NextInHandNotFinal ==
  ASSUME TypeInv, InHandNotFinal, [Next]_vars
  PROVE  InHandNotFinal'
  <1>1. CASE Request
    <2>1. UNCHANGED <<file, target>>
      BY <1>1 DEF Request, target
    <2> QED
      BY <1>1, <2>1 DEF Request, InHandNotFinal, Final
  <1>2. CASE BodyStarts
    <2>1. UNCHANGED <<file, target>>
      BY <1>2 DEF BodyStarts, target
    <2> QED
      BY <1>2, <2>1 DEF BodyStarts, InHandNotFinal, Final
  <1>3. CASE Chunk
    <2>1. pc' = "link" \/ UNCHANGED <<pc, file, target>>
      BY <1>3 DEF Chunk, target
    <2> QED
      BY <2>1 DEF InHandNotFinal, Final
  <1>4. CASE UNCHANGED vars
    BY <1>4 DEF vars, InHandNotFinal, Final, target
  <1>5. CASE ~(Request \/ BodyStarts \/ Chunk \/ UNCHANGED vars)
    <2>1. pc' \notin {"request", "body"}
      <3> USE DEF NextLink, Drop, Promote
      <3>1. ASSUME SitemapArrives \/ PageArrives \/ PageFails \/ YieldRecord \/ Finish
            PROVE  pc' \notin {"request", "body"}
        BY <3>1 DEF SitemapArrives, PageArrives, PageFails, YieldRecord, Finish
      <3>2. ASSUME Resume \/ RequestFails \/ DeclaredTooLarge \/ BodyEnds \/ BodyRaises
            PROVE  pc' \notin {"request", "body"}
        BY <3>2 DEF Resume, RequestFails, DeclaredTooLarge, BodyEnds, BodyRaises
      <3>3. ASSUME Crash \/ Restart PROVE pc' \notin {"request", "body"}
        BY <3>3 DEF Crash, Restart
      <3> QED
        BY <1>5, <3>1, <3>2, <3>3 DEF Next, Connector, Over
    <2> QED
      BY <2>1 DEF InHandNotFinal
  <1> QED
    BY <1>1, <1>2, <1>3, <1>4, <1>5

(* How a step changes the files: not, or that of the handout in hand, which is
   dropped or becomes the whole body that lay in its .part. *)
LEMMA FileSteps ==
  ASSUME TypeInv, [Next]_vars
  PROVE  \/ UNCHANGED file
         \/ pc \in {"request", "body"} /\ Drop
         \/ /\ pc = "body" /\ Promote
            /\ part[target].got = Size[url] \/ url \in CloseEnds
  <1>1. ASSUME SitemapArrives \/ PageArrives \/ PageFails \/ YieldRecord \/ Finish
        PROVE  UNCHANGED file
    BY <1>1 DEF SitemapArrives, PageArrives, PageFails, YieldRecord, Finish
  <1>2. ASSUME Resume \/ Request \/ DeclaredTooLarge \/ BodyStarts \/ Chunk \/ Crash \/ Restart
        PROVE  UNCHANGED file
    BY <1>2 DEF Resume, Request, DeclaredTooLarge, BodyStarts, Chunk, Crash, Restart
  <1>3. ASSUME RequestFails \/ BodyRaises PROVE pc \in {"request", "body"} /\ Drop
    BY <1>3 DEF RequestFails, BodyRaises
  <1>4. UNCHANGED vars => UNCHANGED file
    BY DEF vars
  <1> QED
    BY <1>1, <1>2, <1>3, <1>4 DEF Next, Connector, Over, BodyEnds

(* Once a handout is final, no failure, retry, namesake or later run takes it
   away or replaces it. *)
THEOREM Stays == Spec => FinalStays
  <1>1. Init => InHandNotFinal
    BY DEF Init, InHandNotFinal
  <1>2. TypeInv /\ InHandNotFinal /\ [Next]_vars =>
          [\A t \in Targets : file[t] # Nothing /\ file[t].got > 0 => file'[t] = file[t]]_vars
    <2> SUFFICES ASSUME TypeInv, InHandNotFinal, [Next]_vars,
                        NEW t \in Targets, Final(t)
                 PROVE  file'[t] = file[t]
      BY DEF Final
    <2>1. ASSUME pc \in {"request", "body"}, Drop \/ Promote PROVE file'[t] = file[t]
      <3>1. t # target
        BY <2>1 DEF InHandNotFinal
      <3> QED
        BY <2>1, <3>1 DEF Drop, Promote, TypeInv, TypeOK
    <2> QED
      BY <2>1, FileSteps
  <1>3. TypeInv /\ InHandNotFinal /\ [Next]_vars => InHandNotFinal'
    BY NextInHandNotFinal
  <1> QED
    BY <1>1, <1>2, <1>3, Typing, PTL DEF Spec, FinalStays

(* A file under a final name is of a URL offered under that name, and whole
   unless the URL's bodies end with the connection. *)
OfferedAs(t, u) ==
    \E p \in ChallengePages : \E l \in OfferedBy(p) : l.url = u /\ Target(p, l) = t
Whole ==
    \A t \in Targets : file[t] # Nothing =>
      /\ file[t].got = Size[file[t].of] \/ file[t].of \in CloseEnds
      /\ OfferedAs(t, file[t].of)

LEMMA NextWhole ==
  ASSUME TypeInv, Whole, [Next]_vars
  PROVE  Whole'
  <1>1. CASE UNCHANGED file
    BY <1>1 DEF Whole
  <1>2. CASE Drop
    BY <1>2 DEF Drop, Whole, TypeInv, TypeOK
  <1>3. CASE /\ pc = "body" /\ Promote
             /\ part[target].got = Size[url] \/ url \in CloseEnds
    <2>1. links # <<>> /\ pages # <<>> /\ pc \in AtPage
      BY <1>3 DEF TypeInv, TypeOK, AtPage
    <2>2. target \in Targets /\ OfferedAs(target, url)
      BY <2>1, HandoutInHand, PageInHand DEF OfferedAs, target, url, TypeInv
    <2>3. part[target].of = url
      BY <1>3 DEF TypeInv, InHand
    <2>4. file' = [file EXCEPT ![target] = part[target]]
      BY <1>3 DEF Promote
    <2>5. ASSUME NEW t \in Targets, file'[t] # Nothing
          PROVE  /\ file'[t].got = Size[file'[t].of] \/ file'[t].of \in CloseEnds
                 /\ OfferedAs(t, file'[t].of)
      <3>1. CASE t = target
        BY <1>3, <2>2, <2>3, <2>4, <3>1 DEF TypeInv, TypeOK
      <3>2. CASE t # target
        BY <2>4, <2>5, <3>2 DEF Whole, TypeInv, TypeOK
      <3> QED
        BY <3>1, <3>2
    <2> QED
      BY <2>5 DEF Whole, OfferedAs
  <1> QED
    BY <1>1, <1>2, <1>3, FileSteps

(* A finalized file on disk is always complete, and one of those offered under
   its name: as long as every body has an end to see. *)
THEOREM Complete ==
  ASSUME CloseEnds = {}
  PROVE  Spec => []FinalIsComplete
  <1>1. Init => Whole
    BY DEF Init, Whole
  <1>2. TypeInv /\ Whole /\ [Next]_vars => Whole'
    BY NextWhole
  <1>3. Whole => FinalIsComplete
    BY DEF Whole, FinalIsComplete, OfferedAs
  <1> QED
    BY <1>1, <1>2, <1>3, Typing, PTL DEF Spec

-----------------------------------------------------------------------------
(* What a record lists *)

PartNotFinal == \A t \in Targets : part[t] # Nothing => ~Final(t)

(* What is left of the handouts already gone through is under final names, but
   for a namesake of theirs that is being written. *)
PartsGone ==
    /\ pc \in AtPage =>
         \A l \in ToSet(offered) \ ToSet(links) :
           \/ pc = "body" /\ Target(Head(pages), l) = target
           \/ part[Target(Head(pages), l)] = Nothing
    /\ pc = "request" => part[target] = Nothing

Record ==
    [page : ChallengePages, offered : SUBSET Handouts,
     files : SUBSET (Targets \X Urls), parts : SUBSET Targets]

PartsInv ==
    /\ records \in Seq(Record)
    /\ PartNotFinal
    /\ PartsGone
    /\ RecordsListFinalFiles

LEMMA OfferedTargets ==
  ASSUME TypeInv, pc \in AtPage, NEW l \in ToSet(offered)
  PROVE  Target(Head(pages), l) \in Targets
  <1>1. l \in OfferedBy(Head(pages))
    BY SeqOfItsElements DEF TypeInv, InHand
  <1>2. Head(pages) \in ChallengePages
    BY PageInHand DEF TypeInv, TypeOK, AtPage
  <1> QED
    BY <1>1, <1>2 DEF Targets

(* The handout in hand is done with, without a .part of it. *)
LEMMA NextLinkPartsGone ==
  ASSUME TypeInv, PartsInv, pc \in AtPage, links # <<>>, links' = Tail(links), pc' = "link",
         UNCHANGED <<pages, offered>>,
         part'[target] = Nothing,
         \A t \in Targets \ {target} : part'[t] = part[t]
  PROVE  PartsGone'
  <1>1. ASSUME NEW l \in ToSet(offered), l \notin ToSet(Tail(links))
        PROVE  part'[Target(Head(pages), l)] = Nothing
    <2>1. Target(Head(pages), l) \in Targets
      BY OfferedTargets
    <2>2. CASE Target(Head(pages), l) = target
      BY <2>2
    <2>3. CASE Target(Head(pages), l) # target
      <3>1. l # Head(links)
        BY <2>3 DEF target
      <3>2. l \notin ToSet(links)
        BY <1>1, <3>1, HandoutInHand
      <3> QED
        BY <2>1, <2>3, <3>2 DEF PartsInv, PartsGone
    <2> QED
      BY <2>2, <2>3
  <1> QED
    BY <1>1 DEF PartsGone

LEMMA DropPartsInv ==
  ASSUME TypeInv, PartsInv, pc \in {"request", "body"}, Drop
  PROVE  PartsInv'
  <1>1. pc \in AtPage /\ links # <<>>
    BY DEF AtPage, TypeInv, TypeOK
  <1>2. target \in Targets
    BY <1>1, HandoutInHand
  <1>3. /\ part'[target] = Nothing /\ file'[target] = Nothing
        /\ \A t \in Targets \ {target} : part'[t] = part[t] /\ file'[t] = file[t]
    BY <1>2 DEF Drop, TypeInv, TypeOK
  <1>4. PartNotFinal'
    BY <1>3 DEF PartsInv, PartNotFinal, Final
  <1>5. PartsGone'
    BY <1>1, <1>3, NextLinkPartsGone DEF Drop, NextLink
  <1> QED
    BY <1>4, <1>5 DEF Drop, NextLink, PartsInv, RecordsListFinalFiles

LEMMA PromotePartsInv ==
  ASSUME TypeInv, PartsInv, pc = "body", Promote
  PROVE  PartsInv'
  <1>1. pc \in AtPage /\ links # <<>>
    BY DEF AtPage, TypeInv, TypeOK
  <1>2. target \in Targets
    BY <1>1, HandoutInHand
  <1>3. /\ part'[target] = Nothing
        /\ \A t \in Targets \ {target} : part'[t] = part[t] /\ file'[t] = file[t]
    BY <1>2 DEF Promote, TypeInv, TypeOK
  <1>4. PartNotFinal'
    BY <1>3 DEF PartsInv, PartNotFinal, Final
  <1>5. PartsGone'
    BY <1>1, <1>3, NextLinkPartsGone DEF Promote, NextLink
  <1> QED
    BY <1>4, <1>5 DEF Promote, NextLink, PartsInv, RecordsListFinalFiles

LEMMA NextPartsInv ==
  ASSUME TypeInv, InHandNotFinal, PartsInv, [Next]_vars
  PROVE  PartsInv'
  <1> USE DEF AtPage
  <1>1. CASE PageArrives
    <2>1. ToSet(offered') \ ToSet(links') = {}
      BY <1>1 DEF PageArrives
    <2> QED
      BY <1>1, <2>1 DEF PageArrives, PartsInv, PartNotFinal, PartsGone, RecordsListFinalFiles, Final
  <1>2. CASE SitemapArrives \/ PageFails \/ Finish \/ Crash
    BY <1>2 DEF SitemapArrives, PageFails, Finish, Crash, PartsInv, PartNotFinal, PartsGone,
       RecordsListFinalFiles, Final
  <1>3. CASE YieldRecord
    <2> DEFINE r == [page |-> Head(pages), offered |-> ToSet(offered),
                     files |-> {<<t, file[t].of>> : t \in {u \in InDir(Head(pages)) : file[u] # Nothing}},
                     parts |-> {t \in InDir(Head(pages)) : part[t] # Nothing}]
    <2>1. \A l \in r.offered : Target(r.page, l) \notin r.parts
      BY <1>3, EmptySequence DEF YieldRecord, PartsInv, PartsGone
    <2>2. r \in Record
      <3>1. Head(pages) \in ChallengePages
        BY <1>3, PageInHand DEF YieldRecord, TypeInv, TypeOK
      <3>2. ToSet(offered) \subseteq Handouts
        BY SeqOfItsElements DEF TypeInv, TypeOK
      <3>3. \A t \in Targets : file[t] # Nothing => file[t].of \in Urls
        BY DEF TypeInv, TypeOK, Stored
      <3> QED
        BY <3>1, <3>2, <3>3 DEF Record, InDir
    <2>3. records' = Append(records, r)
      BY <1>3 DEF YieldRecord
    <2> HIDE DEF r
    <2>4. records' \in Seq(Record) /\ ToSet(records') = ToSet(records) \cup {r}
      BY <2>2, <2>3, Appended DEF PartsInv
    <2>5. RecordsListFinalFiles'
      BY <2>1, <2>4 DEF PartsInv, RecordsListFinalFiles
    <2> QED
      BY <1>3, <2>4, <2>5 DEF YieldRecord, PartsInv, PartNotFinal, PartsGone, Final
  <1>4. CASE Resume
    <2>1. target \in Targets
      BY <1>4, HandoutInHand DEF Resume
    <2>2. part[target] = Nothing
      BY <1>4, <2>1 DEF Resume, PartsInv, PartNotFinal
    <2>3. PartsGone'
      BY <1>4, <2>2, NextLinkPartsGone DEF Resume
    <2> QED
      BY <1>4, <2>3 DEF Resume, PartsInv, PartNotFinal, RecordsListFinalFiles, Final
  <1>5. CASE Request
    <2>1. target \in Targets /\ target' = target
      BY <1>5, HandoutInHand DEF Request, target
    <2>2. part'[target] = Nothing /\ \A t \in Targets \ {target} : part'[t] = part[t]
      BY <1>5, <2>1 DEF Request, TypeInv, TypeOK
    <2>3. PartNotFinal'
      BY <1>5, <2>2 DEF Request, PartsInv, PartNotFinal, Final
    <2>4. PartsGone'
      BY <1>5, <2>1, <2>2, OfferedTargets DEF Request, PartsInv, PartsGone
    <2> QED
      BY <1>5, <2>3, <2>4 DEF Request, PartsInv, RecordsListFinalFiles
  <1>6. CASE DeclaredTooLarge
    <2>1. links # <<>> /\ part[target] = Nothing
      BY <1>6 DEF DeclaredTooLarge, TypeInv, TypeOK, PartsInv, PartsGone
    <2>2. PartsGone'
      BY <1>6, <2>1, NextLinkPartsGone DEF DeclaredTooLarge, NextLink
    <2> QED
      BY <1>6, <2>2 DEF DeclaredTooLarge, NextLink, PartsInv, PartNotFinal, RecordsListFinalFiles,
         Final
  <1>7. CASE BodyStarts
    <2>1. links # <<>>
      BY <1>7 DEF BodyStarts, TypeInv, TypeOK
    <2>2. target \in Targets /\ target' = target
      BY <1>7, <2>1, HandoutInHand DEF BodyStarts, target
    <2>3. \A t \in Targets \ {target} : part'[t] = part[t]
      BY <1>7, <2>2 DEF BodyStarts, TypeInv, TypeOK
    <2>4. PartNotFinal'
      BY <1>7, <2>3 DEF BodyStarts, InHandNotFinal, PartsInv, PartNotFinal, Final
    <2>5. PartsGone'
      BY <1>7, <2>2, <2>3, OfferedTargets DEF BodyStarts, PartsInv, PartsGone
    <2> QED
      BY <1>7, <2>4, <2>5 DEF BodyStarts, PartsInv, RecordsListFinalFiles
  <1>8. CASE Chunk
    <2>1. pc = "body" /\ links # <<>>
      BY <1>8 DEF Chunk, TypeInv, TypeOK
    <2>2. target \in Targets
      BY <2>1, HandoutInHand
    <2>3. \A t \in Targets \ {target} : part'[t] = part[t]
      BY <1>8, <2>2 DEF Chunk, TypeInv, TypeOK
    <2>4. PartNotFinal'
      BY <1>8, <2>1, <2>3 DEF Chunk, InHandNotFinal, PartsInv, PartNotFinal, Final
    <2>5. CASE Fits(part[target].got + 1)
      <3>1. UNCHANGED <<pc, pages, offered, links, target>>
        BY <1>8, <2>5 DEF Chunk, target
      <3>2. PartsGone'
        BY <2>1, <2>3, <3>1, OfferedTargets DEF PartsInv, PartsGone
      <3> QED
        BY <1>8, <2>4, <3>2 DEF Chunk, PartsInv, RecordsListFinalFiles
    <2>6. CASE ~Fits(part[target].got + 1)
      <3>1. /\ UNCHANGED <<pages, offered>> /\ links' = Tail(links) /\ pc' = "link"
            /\ part'[target] = Nothing
        BY <1>8, <2>2, <2>6 DEF Chunk, TypeInv, TypeOK
      <3>2. PartsGone'
        BY <2>1, <2>3, <3>1, NextLinkPartsGone
      <3> QED
        BY <1>8, <2>4, <3>2 DEF Chunk, PartsInv, RecordsListFinalFiles
    <2> QED
      BY <2>5, <2>6
  <1>9. CASE RequestFails \/ BodyRaises
    BY <1>9, DropPartsInv DEF RequestFails, BodyRaises
  <1>10. CASE BodyEnds
    BY <1>10, DropPartsInv, PromotePartsInv DEF BodyEnds
  <1>11. CASE Restart
    BY <1>11, EmptySequence, EmptySeq DEF Restart, PartsInv, PartNotFinal, PartsGone, RecordsListFinalFiles, Final
  <1>12. CASE UNCHANGED vars
    BY <1>12 DEF vars, PartsInv, PartNotFinal, PartsGone, RecordsListFinalFiles, Final, target
  <1> QED
    BY <1>1, <1>2, <1>3, <1>4, <1>5, <1>6, <1>7, <1>8, <1>9, <1>10, <1>11, <1>12
       DEF Next, Connector, Over

(* A record lists no .part of a handout its page offers, though a dead run may
   have left one behind. *)
THEOREM NoPartsListed == Spec => []RecordsListFinalFiles
  <1>1. Init => InHandNotFinal /\ PartsInv
    BY EmptySequence, EmptySeq DEF Init, InHandNotFinal, PartsInv, PartNotFinal, PartsGone,
       RecordsListFinalFiles, AtPage
  <1>2. TypeInv /\ InHandNotFinal /\ PartsInv /\ [Next]_vars => (InHandNotFinal /\ PartsInv)'
    BY NextInHandNotFinal, NextPartsInv
  <1>3. PartsInv => RecordsListFinalFiles
    BY DEF PartsInv
  <1> QED
    BY <1>1, <1>2, <1>3, Typing, PTL DEF Spec

-----------------------------------------------------------------------------
(* Failures cost only themselves.  Three things about the site are needed for  *)
(* it, as unlinking the target of a failed transfer, the directory named for   *)
(* the last part of a page's URL and a length that is the encoded body's show. *)

SlugsDistinct == \A p, q \in ChallengePages : Slug[p] = Slug[q] => p = q

LengthsHonest ==
    \A u \in Urls : Declared[u] # NoLength /\ Size[u] <= MaxFile => Declared[u] <= MaxFile

NamesakesNotEmpty ==
    \A p \in ChallengePages : \A l, m \in OfferedBy(p) :
      l.name = m.name /\ l # m => Size[l.url] > 0 /\ Size[m.url] > 0

(* A body the page offers under the handout's name is there. *)
Had(p, l) ==
    /\ file[Target(p, l)] # Nothing
    /\ \E m \in OfferedBy(p) : m.name = l.name /\ m.url = file[Target(p, l)].of

Owed(p, l) == <<p, l.url>> \notin failed /\ Size[l.url] <= MaxFile

HandoutsHad ==
    pc \in AtPage =>
      \A l \in ToSet(offered) \ ToSet(links) : Owed(Head(pages), l) => Had(Head(pages), l)

RecordsHave ==
    \A i \in DOMAIN records : \A l \in records[i].offered : Owed(records[i].page, l) =>
      \E m \in OfferedBy(records[i].page) :
        m.name = l.name /\ <<Target(records[i].page, l), m.url>> \in records[i].files

(* Every page listed is still to come, could not be had or has its record. *)
PagesOnce ==
    /\ \A i, j \in DOMAIN pages : pages[i] = pages[j] => i = j
    /\ \A i, j \in DOMAIN records : records[i].page = records[j].page => i = j
    /\ \A i \in DOMAIN records : records[i].page \notin ToSet(pages)
    /\ \A p \in listed : \/ p \in ToSet(pages)
                        \/ <<p>> \in failed
                        \/ \E i \in DOMAIN records : records[i].page = p
    /\ pc = "done" => pages = <<>>
    /\ pc = "sitemap" => records = <<>>

LEMMA VisitsOnce ==
  ASSUME NEW locs \in Sitemaps, NEW q \in ChallengeUrls(locs),
         NEW i \in DOMAIN q, NEW j \in DOMAIN q, q[i] = q[j]
  PROVE  i = j
  <1>1. PICK at \in SeqOf(Firsts(locs), Limit) :
          /\ q = [k \in DOMAIN at |-> locs[at[k]]]
          /\ \A m, n \in DOMAIN at : m < n => at[m] < at[n]
    BY DEF ChallengeUrls
  <1>2. PICK m \in 0..Limit : at \in [1..m -> Firsts(locs)]
    BY DEF SeqOf
  <1>3. Firsts(locs) \subseteq Nat \ {0}
    BY DownloadAssumption, LenProperties DEF Firsts
  <1>4. /\ i \in 1..m /\ j \in 1..m
        /\ at[i] \in Firsts(locs) /\ at[j] \in Firsts(locs)
        /\ locs[at[i]] = locs[at[j]]
    BY <1>1, <1>2
  <1>5. ~(at[i] < at[j]) /\ ~(at[j] < at[i])
    BY <1>3, <1>4 DEF Firsts
  <1>6. ~(i < j) /\ ~(j < i)
    BY <1>1, <1>2, <1>4, <1>5
  <1> QED
    BY <1>4, <1>6

OnceInv == PagesOnce /\ RecordsHave /\ HandoutsHad

(* Nothing of what a page's record needs changes, but that more has failed. *)
LEMMA RecordsStillHave ==
  ASSUME RecordsHave, UNCHANGED records, failed \subseteq failed'
  PROVE  RecordsHave'
  BY DEF RecordsHave, Owed

LEMMA PagesStillOnce ==
  ASSUME PagesOnce, UNCHANGED <<pages, records, listed>>, failed \subseteq failed',
         pc' \notin {"done", "sitemap"}
  PROVE  PagesOnce'
  BY DEF PagesOnce

(* The page in hand goes, and none of those that come is it. *)
LEMMA HeadOnce ==
  ASSUME TypeInv, PagesOnce, pages # <<>>
  PROVE  /\ ToSet(pages) = {Head(pages)} \cup ToSet(Tail(pages))
         /\ Head(pages) \notin ToSet(Tail(pages))
         /\ \A i, j \in DOMAIN Tail(pages) : Tail(pages)[i] = Tail(pages)[j] => i = j
  <1>1. /\ pages \in Seq(listed) /\ Head(pages) = pages[1]
        /\ Len(pages) \in Nat /\ Len(pages) >= 1 /\ DOMAIN pages = 1..Len(pages)
    BY EmptySeq, LenProperties DEF TypeInv, TypeOK
  <1>2. /\ DOMAIN Tail(pages) = 1..(Len(pages) - 1)
        /\ \A i \in 1..(Len(pages) - 1) : Tail(pages)[i] = pages[i + 1]
    BY <1>1, HeadTailProperties, LenProperties
  <1>3. ToSet(pages) = {Head(pages)} \cup ToSet(Tail(pages))
    BY <1>1, HeadAndTail
  <1>4. ASSUME NEW i \in DOMAIN Tail(pages)
        PROVE  i \in Nat /\ i # 0 /\ i + 1 \in DOMAIN pages /\ Tail(pages)[i] = pages[i + 1]
    BY <1>1, <1>2
  <1>5. \A i \in DOMAIN Tail(pages) : Tail(pages)[i] # Head(pages)
    BY <1>1, <1>4 DEF PagesOnce
  <1>6. \A i, j \in DOMAIN Tail(pages) : Tail(pages)[i] = Tail(pages)[j] => i = j
    BY <1>1, <1>4 DEF PagesOnce
  <1> QED
    BY <1>3, <1>5, <1>6 DEF ToSet

(* A handout is gone through; those before it are as they were. *)
LEMMA NextLinkHad ==
  ASSUME TypeInv, HandoutsHad, pc \in AtPage, links # <<>>, links' = Tail(links),
         UNCHANGED <<pages, offered>>, failed \subseteq failed',
         \A l \in ToSet(offered) \ ToSet(links) :
           Owed(Head(pages), l)' /\ Had(Head(pages), l) => Had(Head(pages), l)',
         NEW h, h = Head(links), Owed(Head(pages), h)' => Had(Head(pages), h)'
  PROVE  HandoutsHad'
  <1> DEFINE p == Head(pages)
  <1>1. ASSUME NEW l \in ToSet(offered), l \notin ToSet(Tail(links)), Owed(p, l)'
        PROVE  Had(p, l)'
    <2>1. CASE l = Head(links)
      BY <1>1, <2>1
    <2>2. CASE l # Head(links)
      <3>1. l \notin ToSet(links)
        BY <1>1, <2>2, HandoutInHand
      <3>2. Owed(p, l)
        BY <1>1 DEF Owed
      <3> QED
        BY <1>1, <3>1, <3>2 DEF HandoutsHad
    <2> QED
      BY <2>1, <2>2
  <1> QED
    BY <1>1 DEF HandoutsHad

LEMMA DropHad ==
  ASSUME TypeInv, Whole, InHandNotFinal, HandoutsHad, CloseEnds = {}, NamesakesNotEmpty,
         pc \in {"request", "body"}, Drop
  PROVE  HandoutsHad'
  <1> DEFINE p == Head(pages)
  <1>1. pc \in AtPage /\ links # <<>> /\ p \in ChallengePages
    BY PageInHand DEF AtPage, TypeInv, TypeOK
  <1>2. PICK h : h = Head(links)
    OBVIOUS
  <1>3. h \in OfferedBy(p) /\ target \in Targets /\ target = Target(p, h) /\ url = h.url
    BY <1>1, <1>2, HandoutInHand DEF target, url
  <1>4. ~Owed(p, h)'
    BY <1>3 DEF Drop, NextLink, Owed
  <1>5. ASSUME NEW l \in ToSet(offered) \ ToSet(links), Had(p, l)
        PROVE  Had(p, l)'
    <2>1. Target(p, l) \in Targets /\ l \in OfferedBy(p)
      BY <1>1, OfferedTargets, SeqOfItsElements DEF TypeInv, InHand
    <2>2. l # h
      BY <1>1, <1>2, HandoutInHand
    <2>3. Target(p, l) # target
      <3> SUFFICES ASSUME Target(p, l) = target PROVE FALSE
        OBVIOUS
      <3>1. PICK m \in OfferedBy(p) : m.name = l.name /\ m.url = file[target].of
        BY <1>5 DEF Had
      <3>2. l.name = h.name
        BY <1>3 DEF Target
      <3>3. Size[m.url] > 0
        BY <1>1, <1>3, <2>1, <2>2, <3>1, <3>2 DEF NamesakesNotEmpty
      <3>4. file[target] # Nothing /\ file[target].got = Size[m.url]
        BY <1>3, <1>5, <3>1 DEF Had, Whole
      <3> QED
        BY <3>3, <3>4 DEF InHandNotFinal, Final
    <2>4. file'[Target(p, l)] = file[Target(p, l)]
      BY <2>1, <2>3 DEF Drop, TypeInv, TypeOK
    <2>5. p' = p
      BY DEF Drop, NextLink
    <2> QED
      BY <1>5, <2>4, <2>5 DEF Had, Target
  <1>6. links' = Tail(links) /\ UNCHANGED <<pages, offered>> /\ failed \subseteq failed'
    BY DEF Drop, NextLink
  <1> QED
    BY <1>1, <1>2, <1>4, <1>5, <1>6, NextLinkHad

LEMMA PromoteHad ==
  ASSUME TypeInv, HandoutsHad, pc = "body", Promote
  PROVE  HandoutsHad'
  <1> DEFINE p == Head(pages)
  <1>1. pc \in AtPage /\ links # <<>>
    BY DEF AtPage, TypeInv, TypeOK
  <1>2. PICK h : h = Head(links)
    OBVIOUS
  <1>3. h \in OfferedBy(p) /\ target \in Targets /\ target = Target(p, h) /\ url = h.url
    BY <1>1, <1>2, HandoutInHand DEF target, url
  <1>4. file'[target] # Nothing /\ file'[target].of = url
    BY <1>3 DEF Promote, TypeInv, TypeOK, InHand
  <1>5. p' = p /\ UNCHANGED <<pages, offered, failed>> /\ links' = Tail(links)
    BY DEF Promote, NextLink
  <1>6. ASSUME NEW l \in OfferedBy(p), Target(p, l) = target
        PROVE  Had(p, l)'
    <2>1. l.name = h.name
      BY <1>3, <1>6 DEF Target
    <2> QED
      BY <1>3, <1>4, <1>5, <1>6, <2>1 DEF Had, Target
  <1>7. ASSUME NEW l \in ToSet(offered) \ ToSet(links), Had(p, l)
        PROVE  Had(p, l)'
    <2>1. Target(p, l) \in Targets /\ l \in OfferedBy(p)
      BY <1>1, OfferedTargets, SeqOfItsElements DEF TypeInv, InHand
    <2>2. CASE Target(p, l) # target
      <3>1. file'[Target(p, l)] = file[Target(p, l)]
        BY <2>1, <2>2 DEF Promote, TypeInv, TypeOK
      <3> QED
        BY <1>5, <1>7, <3>1 DEF Had, Target
    <2> QED
      BY <1>6, <2>1, <2>2
  <1>8. Had(p, h)'
    BY <1>3, <1>6
  <1> QED
    BY <1>1, <1>2, <1>5, <1>7, <1>8, NextLinkHad

(* Nothing was written for a handout that is final already or too large. *)
LEMMA SkipHad ==
  ASSUME TypeInv, HandoutsHad, pc \in AtPage, links # <<>>, links' = Tail(links),
         UNCHANGED <<pages, offered, file, failed>>,
         Had(Head(pages), Head(links)) \/ Size[url] > MaxFile
  PROVE  HandoutsHad'
  <1> DEFINE p == Head(pages)
  <1>1. PICK h : h = Head(links)
    OBVIOUS
  <1>2. p' = p
    OBVIOUS
  <1>3. \A l : Had(p, l) => Had(p, l)'
    BY <1>2 DEF Had, Target
  <1>4. Size[url] \in Nat /\ MaxFile \in Nat
    BY HandoutInHand, DownloadAssumption
  <1>5. Owed(p, h)' => Had(p, h)'
    BY <1>1, <1>3, <1>4 DEF Owed, url
  <1> QED
    BY <1>1, <1>3, <1>5, NextLinkHad

LEMMA NextHad ==
  ASSUME TypeInv, Whole, InHandNotFinal, HandoutsHad, [Next]_vars,
         CloseEnds = {}, SlugsDistinct, LengthsHonest, NamesakesNotEmpty
  PROVE  HandoutsHad'
  <1> DEFINE p == Head(pages)
  <1>1. CASE PageArrives
    <2>1. ToSet(offered') \ ToSet(links') = {}
      BY <1>1 DEF PageArrives
    <2> QED
      BY <2>1 DEF HandoutsHad
  <1>2. ASSUME SitemapArrives \/ PageFails \/ YieldRecord \/ Finish \/ Crash \/ Restart
        PROVE  HandoutsHad'
    <2>1. pc' \notin AtPage
      BY <1>2 DEF SitemapArrives, PageFails, YieldRecord, Finish, Crash, Restart, AtPage
    <2> QED
      BY <2>1 DEF HandoutsHad
  <1>3. CASE Resume
    <2>1. /\ target \in Targets /\ file[target] # Nothing /\ p \in ChallengePages
          /\ pc \in AtPage /\ links # <<>>
      BY <1>3, HandoutInHand, PageInHand DEF Resume, Final, AtPage, TypeInv, TypeOK
    <2>2. PICK q \in ChallengePages : \E m \in OfferedBy(q) :
            m.url = file[target].of /\ Target(q, m) = target
      BY <2>1 DEF Whole, OfferedAs
    <2>3. PICK m \in OfferedBy(q) : m.url = file[target].of /\ Target(q, m) = target
      BY <2>2
    <2>4. q = p /\ m.name = Head(links).name
      BY <2>1, <2>3 DEF Target, target, SlugsDistinct
    <2>5. Had(p, Head(links))
      BY <2>1, <2>3, <2>4 DEF Had, target
    <2> QED
      BY <1>3, <2>1, <2>5, SkipHad DEF Resume
  <1>4. ASSUME Request \/ BodyStarts
        PROVE  HandoutsHad'
    <2>1. UNCHANGED <<pages, offered, links, file, failed>> /\ pc \in AtPage
      BY <1>4 DEF Request, BodyStarts, AtPage
    <2> QED
      BY <2>1 DEF HandoutsHad, Owed, Had, Target
  <1>5. CASE DeclaredTooLarge
    <2>1. pc \in AtPage /\ links # <<>>
      BY <1>5 DEF DeclaredTooLarge, AtPage, TypeInv, TypeOK
    <2>2. /\ url \in Urls /\ Size[url] \in Nat /\ Declared[url] \in Nat /\ MaxFile \in Nat
          /\ Declared[url] > MaxFile
      BY <1>5, <2>1, HandoutInHand, DownloadAssumption DEF DeclaredTooLarge, TooLarge
    <2>3. Size[url] > MaxFile
      BY <1>5, <2>2 DEF LengthsHonest, DeclaredTooLarge
    <2> QED
      BY <1>5, <2>1, <2>3, SkipHad DEF DeclaredTooLarge, NextLink
  <1>6. CASE Chunk
    <2>1. pc \in AtPage /\ links # <<>>
      BY <1>6 DEF Chunk, AtPage, TypeInv, TypeOK
    <2>2. CASE Fits(part[target].got + 1)
      <3>1. UNCHANGED <<pages, offered, links, file, failed>>
        BY <1>6, <2>2 DEF Chunk
      <3> QED
        BY <2>1, <3>1 DEF HandoutsHad, Owed, Had, Target
    <2>3. CASE ~Fits(part[target].got + 1)
      <3>1. /\ target \in Targets /\ Size[url] \in Nat /\ MaxFile \in Nat
            /\ part[target].got < Size[url] /\ part[target].got + 1 > MaxFile
        BY <1>6, <2>1, <2>3, HandoutInHand, DownloadAssumption DEF Chunk, Fits, TooLarge
      <3>2. part[target].got \in Nat
        BY <1>6, <3>1 DEF Chunk, TypeInv, TypeOK, InHand, Stored
      <3>3. Size[url] > MaxFile
        BY <3>1, <3>2
      <3> QED
        BY <1>6, <2>1, <2>3, <3>3, SkipHad DEF Chunk
    <2> QED
      BY <2>2, <2>3
  <1>7. CASE RequestFails \/ BodyRaises
    BY <1>7, DropHad DEF RequestFails, BodyRaises
  <1>8. CASE BodyEnds
    BY <1>8, DropHad, PromoteHad DEF BodyEnds
  <1>9. CASE UNCHANGED vars
    BY <1>9 DEF vars, HandoutsHad, Owed, Had, Target
  <1> QED
    BY <1>1, <1>2, <1>3, <1>4, <1>5, <1>6, <1>7, <1>8, <1>9 DEF Next, Connector, Over

(* The page in hand gets its record. *)
LEMMA YieldOnce ==
  ASSUME TypeInv, OnceInv, records \in Seq(Record), YieldRecord
  PROVE  PagesOnce' /\ RecordsHave'
  <1> DEFINE p == Head(pages)
             r == [page |-> p, offered |-> ToSet(offered),
                   files |-> {<<t, file[t].of>> : t \in {u \in InDir(p) : file[u] # Nothing}},
                   parts |-> {t \in InDir(p) : part[t] # Nothing}]
  <1>1. /\ pc \in AtPage /\ pages # <<>> /\ ToSet(links) = {}
        /\ pages' = Tail(pages) /\ UNCHANGED <<listed, failed>> /\ pc' = "page"
    BY EmptySequence DEF YieldRecord, AtPage, TypeInv, TypeOK
  <1>2. records' = Append(records, r)
    BY DEF YieldRecord
  <1>3. r.page = p
    OBVIOUS
  <1>4. ASSUME NEW l \in r.offered, Owed(p, l)
        PROVE  \E m \in OfferedBy(p) : m.name = l.name /\ <<Target(p, l), m.url>> \in r.files
    <2>1. Had(p, l)
      BY <1>1, <1>4 DEF OnceInv, HandoutsHad
    <2>2. PICK m \in OfferedBy(p) : m.name = l.name /\ m.url = file[Target(p, l)].of
      BY <2>1 DEF Had
    <2>3. Target(p, l) \in InDir(p)
      BY <1>1, <1>4, OfferedTargets DEF InDir, Target
    <2> QED
      BY <2>1, <2>2, <2>3 DEF Had
  <1> HIDE DEF r
  <1>5. /\ DOMAIN records = 1..Len(records)
        /\ DOMAIN records' = 1..(Len(records) + 1)
        /\ Len(records) \in Nat
        /\ records'[Len(records) + 1] = r
        /\ \A i \in DOMAIN records : records'[i] = records[i]
    <2>1. Len(records) \in Nat /\ DOMAIN records = 1..Len(records)
      BY LenProperties
    <2>2. DOMAIN Append(records, r) = 1..(Len(records) + 1)
      BY <2>1
    <2>3. \A i \in 1..Len(records) : Append(records, r)[i] = records[i]
      BY <2>1
    <2>4. Append(records, r)[Len(records) + 1] = r
      BY <2>1
    <2> QED
      BY <1>2, <2>1, <2>2, <2>3, <2>4
  <1>6. ASSUME NEW i \in DOMAIN records' PROVE i \in DOMAIN records \/ i = Len(records) + 1
    BY <1>5
  <1>7. Len(records) + 1 \in DOMAIN records' /\ DOMAIN records \subseteq DOMAIN records'
    BY <1>5
  <1>8. p \in ToSet(pages) /\ p \notin ToSet(pages') /\ ToSet(pages) = {p} \cup ToSet(pages')
    BY <1>1, HeadOnce DEF OnceInv
  <1>9. \A i, j \in DOMAIN pages' : pages'[i] = pages'[j] => i = j
    BY <1>1, HeadOnce DEF OnceInv
  <1>10. PagesOnce'
    <2>1. \A i \in DOMAIN records : records'[i].page \notin ToSet(pages)
      BY <1>5 DEF OnceInv, PagesOnce
    <2>2. \A i, j \in DOMAIN records' : records'[i].page = records'[j].page => i = j
      BY <1>3, <1>5, <1>6, <1>8, <2>1 DEF OnceInv, PagesOnce
    <2>3. \A i \in DOMAIN records' : records'[i].page \notin ToSet(pages')
      BY <1>3, <1>5, <1>6, <1>8, <2>1
    <2>4. ASSUME NEW q \in listed', q \notin ToSet(pages'), <<q>> \notin failed'
          PROVE  \E i \in DOMAIN records' : records'[i].page = q
      BY <1>1, <1>3, <1>5, <1>7, <1>8, <2>4 DEF OnceInv, PagesOnce
    <2> QED
      BY <1>1, <1>9, <2>2, <2>3, <2>4 DEF PagesOnce
  <1>11. RecordsHave'
    <2> SUFFICES ASSUME NEW i \in DOMAIN records', NEW l \in records'[i].offered,
                        Owed(records'[i].page, l)
                 PROVE  \E m \in OfferedBy(records'[i].page) :
                          /\ m.name = l.name
                          /\ <<Target(records'[i].page, l), m.url>> \in records'[i].files
      BY <1>1 DEF RecordsHave, Owed, Target
    <2>1. CASE i \in DOMAIN records
      BY <1>5, <2>1 DEF OnceInv, RecordsHave
    <2>2. CASE i = Len(records) + 1
      BY <1>3, <1>4, <1>5, <2>2
    <2> QED
      BY <1>6, <2>1, <2>2
  <1> QED
    BY <1>10, <1>11

LEMMA NextOnceInv ==
  ASSUME TypeInv, Whole, InHandNotFinal, PartsInv, OnceInv, [Next]_vars,
         CloseEnds = {}, SlugsDistinct, LengthsHonest, NamesakesNotEmpty
  PROVE  OnceInv'
  <1>0. HandoutsHad'
    BY NextHad DEF OnceInv
  <1>1. SUFFICES PagesOnce' /\ RecordsHave'
    BY <1>0 DEF OnceInv
  <1>2. CASE SitemapArrives
    <2>1. PICK locs \in Sitemaps : pages' \in ChallengeUrls(locs)
      BY <1>2 DEF SitemapArrives
    <2>2. \A i, j \in DOMAIN pages' : pages'[i] = pages'[j] => i = j
      BY <2>1, VisitsOnce
    <2>3. DOMAIN records = {} /\ records' = records /\ failed' = failed /\ pc' = "page"
      BY <1>2 DEF SitemapArrives, OnceInv, PagesOnce
    <2> QED
      BY <1>2, <2>2, <2>3 DEF SitemapArrives, PagesOnce, RecordsHave
  <1>3. CASE PageFails
    <2>1. /\ ToSet(pages) = {Head(pages)} \cup ToSet(Tail(pages))
          /\ Head(pages) \notin ToSet(Tail(pages))
          /\ \A i, j \in DOMAIN Tail(pages) : Tail(pages)[i] = Tail(pages)[j] => i = j
      BY <1>3, HeadOnce DEF PageFails, OnceInv
    <2>2. PagesOnce'
      BY <1>3, <2>1 DEF PageFails, OnceInv, PagesOnce
    <2>3. RecordsHave'
      BY <1>3, RecordsStillHave DEF PageFails, OnceInv
    <2> QED
      BY <2>2, <2>3
  <1>4. CASE YieldRecord
    BY <1>4, YieldOnce DEF PartsInv
  <1>5. CASE Finish
    BY <1>5, RecordsStillHave DEF Finish, OnceInv, PagesOnce
  <1>6. CASE Restart
    <2>1. /\ DOMAIN pages' = {} /\ DOMAIN records' = {} /\ records' = <<>>
          /\ listed' = {} /\ pc' = "sitemap"
      BY <1>6 DEF Restart
    <2> QED
      BY <2>1 DEF PagesOnce, RecordsHave
  <1>7. ASSUME PageArrives \/ Resume \/ Request \/ RequestFails \/ DeclaredTooLarge \/ BodyStarts
               \/ Chunk \/ BodyEnds \/ BodyRaises \/ Crash
        PROVE  PagesOnce' /\ RecordsHave'
    <2>1. /\ UNCHANGED <<pages, records, listed>> /\ failed \subseteq failed'
          /\ pc' \notin {"done", "sitemap"}
      <3>1. ASSUME PageArrives \/ Resume \/ Request \/ DeclaredTooLarge \/ BodyStarts \/ Crash
            PROVE  /\ UNCHANGED <<pages, records, listed, failed>>
                   /\ pc' \notin {"done", "sitemap"}
        BY <3>1 DEF PageArrives, Resume, Request, DeclaredTooLarge, BodyStarts, Crash, NextLink
      <3>2. CASE Chunk
        BY <3>2 DEF Chunk
      <3>3. ASSUME Drop \/ Promote
            PROVE  /\ UNCHANGED <<pages, records, listed>> /\ failed \subseteq failed'
                   /\ pc' \notin {"done", "sitemap"}
        BY <3>3 DEF Drop, Promote, NextLink
      <3> QED
        BY <1>7, <3>1, <3>2, <3>3 DEF RequestFails, BodyEnds, BodyRaises
    <2> QED
      BY <2>1, PagesStillOnce, RecordsStillHave DEF OnceInv
  <1>8. CASE UNCHANGED vars
    BY <1>8, RecordsStillHave DEF vars, OnceInv, PagesOnce
  <1> QED
    BY <1>2, <1>3, <1>4, <1>5, <1>6, <1>7, <1>8 DEF Next, Connector, Over

(* A run that goes through yields every page listed that arrived, once, with
   every handout on it that arrived and is within the cap: where pages have
   directories of their own, a declared length over the cap means a body over
   it, and like-named handouts of a page are not empty. *)
THEOREM FailuresStayLocal ==
  ASSUME CloseEnds = {}, SlugsDistinct, LengthsHonest, NamesakesNotEmpty
  PROVE  Spec => []OnlyFailuresMissing
  <1> DEFINE Inv == Whole /\ InHandNotFinal /\ PartsInv /\ OnceInv
  <1>1. Init => Inv
    <2> SUFFICES ASSUME Init PROVE Inv
      OBVIOUS
    <2>1. /\ DOMAIN pages = {} /\ DOMAIN records = {} /\ records = <<>>
          /\ listed = {} /\ pc = "sitemap"
      BY DEF Init
    <2>2. OnceInv
      BY <2>1 DEF OnceInv, PagesOnce, RecordsHave, HandoutsHad, AtPage
    <2>3. Whole /\ InHandNotFinal
      BY DEF Init, Whole, InHandNotFinal
    <2>4. PartsInv
      BY EmptySequence, EmptySeq DEF Init, PartsInv, PartNotFinal, PartsGone,
         RecordsListFinalFiles, AtPage
    <2> QED
      BY <2>2, <2>3, <2>4
  <1>2. TypeInv /\ Inv /\ [Next]_vars => Inv'
    BY NextWhole, NextInHandNotFinal, NextPartsInv, NextOnceInv
  <1>3. Inv => OnlyFailuresMissing
    <2> SUFFICES ASSUME Inv, pc = "done", NEW p \in listed, <<p>> \notin failed
                 PROVE  \E i \in DOMAIN records :
                          /\ \A j \in DOMAIN records : records[j].page = p <=> j = i
                          /\ \A l \in records[i].offered :
                               <<p, l.url>> \notin failed /\ Size[l.url] <= MaxFile =>
                                 \E m \in OfferedBy(p) :
                                   m.name = l.name /\ <<Target(p, l), m.url>> \in records[i].files
      BY DEF OnlyFailuresMissing
    <2>1. PICK i \in DOMAIN records : records[i].page = p
      BY EmptySequence DEF OnceInv, PagesOnce
    <2>2. \A j \in DOMAIN records : records[j].page = p <=> j = i
      BY <2>1 DEF OnceInv, PagesOnce
    <2> QED
      BY <2>1, <2>2 DEF OnceInv, RecordsHave, Owed
  <1> HIDE DEF Inv
  <1> QED
    BY <1>1, <1>2, <1>3, Typing, PTL DEF Spec
=============================================================================
