------------------------- MODULE PoliteClientProofs --------------------------
(***************************************************************************)
(* Theorems about PoliteClient for any number of threads, any rate, cost,  *)
(* capacity and interval, and a history of any length.                     *)
(***************************************************************************)
EXTENDS PoliteClient, SequenceTheorems, TLAPS

-----------------------------------------------------------------------------
(* Products, which the provers take for opaque beyond these facts *)

LEMMA TimesType ==
  ASSUME NEW a \in Nat, NEW b \in Nat
  PROVE  a * b \in Nat
  OBVIOUS

LEMMA TimesMonotonic ==
  ASSUME NEW a \in Nat, NEW b \in Nat, NEW c \in Nat, a <= b
  PROVE  a * c <= b * c
  <1>1. PICK d \in Nat : b = a + d
    <2>1. b - a \in Nat /\ b = a + (b - a)
      OBVIOUS
    <2> QED
      BY <2>1
  <1>2. b * c = a * c + d * c
    BY <1>1
  <1> QED
    BY <1>2, TimesType

LEMMA TimesSuccessor ==
  ASSUME NEW a \in Nat, NEW c \in Nat
  PROVE  (a + 1) * c = a * c + c /\ c * (a + 1) = c * a + c
  OBVIOUS

-----------------------------------------------------------------------------
(* Types *)

LEMMA TicksType == Ticks(Capacity) \in Nat
  BY PoliteAssumption DEF Ticks

LEMMA RefilledType ==
  ASSUME TypeOK
  PROVE  /\ Refilled \in 0..Capacity
         /\ sinceRefill * Rate \in Nat
         /\ Refilled <= tokens + sinceRefill * Rate
  <1>1. /\ tokens \in Nat /\ sinceRefill \in Nat /\ Rate \in Nat /\ Capacity \in Nat
        /\ tokens <= Capacity
    BY PoliteAssumption, TicksType DEF TypeOK
  <1>2. sinceRefill * Rate \in Nat
    BY <1>1
  <1> QED
    BY <1>1, <1>2 DEF Refilled, Least

LEMMA WaitType ==
  ASSUME TypeOK
  PROVE  WaitInterval \in Nat /\ WaitTokens \in Nat
  <1>1. Monus(Cost, Refilled) \in Nat
    BY RefilledType, PoliteAssumption DEF Monus
  <1>2. WaitTokens \in Nat
    BY <1>1, PoliteAssumption DEF WaitTokens, Ticks
  <1> QED
    BY <1>2, PoliteAssumption DEF TypeOK, WaitInterval, Monus

(* A tick ages the grants and forgets the oldest. *)
LEMMA TickGrants ==
  ASSUME TypeOK, Tick
  PROVE  \E n \in 0..Len(grants) :
           /\ n \in Nat
           /\ grants' \in Seq(0..Horizon)
           /\ DOMAIN grants = 1..Len(grants)
           /\ DOMAIN grants' = 1..(Len(grants) - n)
           /\ Len(grants') = Len(grants) - n
           /\ \A i \in DOMAIN grants' :
                /\ i \in Nat
                /\ i + n \in DOMAIN grants
                /\ grants[i + n] \in Nat
                /\ grants'[i] = grants[i + n] + 1
  <1>1. PICK n \in 0..Len(grants) :
          /\ \A i \in DOMAIN grants : i <= n <=> grants[i] >= Horizon
          /\ grants' = [i \in 1..(Len(grants) - n) |-> grants[i + n] + 1]
    BY DEF Tick
  <1> DEFINE m == Len(grants) - n
  <1>2. /\ Len(grants) \in Nat
        /\ DOMAIN grants = 1..Len(grants)
        /\ \A i \in DOMAIN grants : grants[i] \in 0..Horizon
    <2>1. grants \in Seq(0..Horizon)
      BY DEF TypeOK
    <2> QED
      BY <2>1, LenProperties
  <1>3. m \in Nat
    BY <1>1, <1>2
  <1>4. ASSUME NEW i \in 1..m
        PROVE  i + n \in DOMAIN grants /\ grants[i + n] + 1 \in 0..Horizon /\ grants[i + n] \in Nat
    <2>1. i + n \in DOMAIN grants /\ ~(i + n <= n)
      BY <1>1, <1>2
    <2>2. ~(grants[i + n] >= Horizon)
      BY <1>1, <2>1
    <2> QED
      BY <1>2, <2>1, <2>2, PoliteAssumption
  <1>5. grants' = [i \in 1..m |-> grants[i + n] + 1]
    BY <1>1
  <1> HIDE DEF m
  <1>6. grants' \in [1..m -> 0..Horizon]
    BY <1>4, <1>5
  <1>7. grants' \in Seq(0..Horizon) /\ Len(grants') = m
    <2>1. grants' \in Seq(0..Horizon)
      BY ONLY <1>3, <1>6, SeqDef
    <2> QED
      BY ONLY <1>3, <1>6, <2>1, LenProperties
  <1>8. n \in Nat /\ DOMAIN grants' = 1..m
    BY <1>2, <1>5
  <1>9. \A i \in 1..m : /\ i \in Nat
                       /\ i + n \in DOMAIN grants
                       /\ grants[i + n] \in Nat
                       /\ grants'[i] = grants[i + n] + 1
    BY <1>3, <1>4, <1>5
  <1> QED
    BY <1>2, <1>7, <1>8, <1>9 DEF m

(* TypeOK is not inductive: whoever waits to retry has an attempt left. *)
RetriesLeft == \A t \in Threads : pc[t] = "backoff" => attempt[t] < MaxAttempts

TypeInv == TypeOK /\ RetriesLeft

LEMMA InitTypeInv == Init => TypeInv
  BY PoliteAssumption, TicksType DEF Init, TypeInv, RetriesLeft, TypeOK, States

LEMMA GrantType ==
  ASSUME TypeOK, NEW t \in Threads, Refilled >= Cost, Grant(t)
  PROVE  TypeOK'
  <1>1. tokens' \in 0..Capacity
    BY RefilledType, PoliteAssumption DEF Grant, Refill
  <1>2. grants' \in Seq(0..Horizon)
    BY PoliteAssumption DEF Grant, TypeOK
  <1> QED
    BY <1>1, <1>2, TicksType, PoliteAssumption DEF Grant, Refill, TypeOK, States

LEMMA NextTypeInv ==
  ASSUME TypeInv, [Next]_vars
  PROVE  TypeInv'
  <1> USE DEF TypeInv, RetriesLeft, TypeOK, States, limiterVars
  <1>1. CASE Tick
    <2>1. grants' \in Seq(0..Horizon)
      BY <1>1, TickGrants
    <2>2. sinceRefill' \in 0..Ticks(Capacity) /\ sinceAcquire' \in 0..MinInterval
      BY <1>1, TicksType, PoliteAssumption DEF Tick, Least
    <2>3. rest' \in [Threads -> Nat]
      BY <1>1 DEF Tick, Monus
    <2> QED
      BY <1>1, <2>1, <2>2, <2>3 DEF Tick
  <1>2. ASSUME NEW t \in Threads, AcquireAtOnce(t) PROVE TypeInv'
    BY <1>2, GrantType DEF AcquireAtOnce, Grant
  <1>3. ASSUME NEW t \in Threads, AcquireLater(t) PROVE TypeInv'
    <2>1. tokens' \in 0..Capacity /\ sinceRefill' \in 0..Ticks(Capacity)
      BY <1>3, RefilledType, TicksType DEF AcquireLater, Refill
    <2>2. rest' \in [Threads -> Nat]
      BY <1>3, WaitType DEF AcquireLater
    <2> QED
      BY <1>3, <2>1, <2>2 DEF AcquireLater
  <1>4. ASSUME NEW t \in Threads, Wake(t) PROVE TypeInv'
    BY <1>4 DEF Wake
  <1>5. ASSUME NEW t \in Threads, Redirect(t) PROVE TypeInv'
    BY <1>5 DEF Redirect
  <1>6. ASSUME NEW t \in Threads, Get(t) PROVE TypeInv'
    BY <1>6, PoliteAssumption DEF Get, Begin
  <1>7. ASSUME NEW t \in Threads, Answered(t) PROVE TypeInv'
    BY <1>7, PoliteAssumption DEF Answered, Finish
  <1>8. ASSUME NEW t \in Threads, Failed(t) PROVE TypeInv'
    <2>1. CASE Again(t)
      <3>1. PICK wait \in Backoff :
              /\ pc' = [pc EXCEPT ![t] = "backoff"]
              /\ rest' = [rest EXCEPT ![t] = wait]
              /\ UNCHANGED <<limiterVars, attempt, hops>>
        BY <1>8, <2>1 DEF Failed
      <3>2. rest' \in [Threads -> Nat]
        BY <3>1, PoliteAssumption
      <3> QED
        BY <2>1, <3>1, <3>2 DEF Again
    <2>2. CASE ~Again(t)
      <3>1. Finish(t) /\ UNCHANGED <<limiterVars, rest, hops>>
        BY <1>8, <2>2 DEF Failed
      <3> QED
        BY <3>1, PoliteAssumption DEF Finish
    <2> QED
      BY <2>1, <2>2
  <1>9. ASSUME NEW t \in Threads, Retry(t) PROVE TypeInv'
    BY <1>9, PoliteAssumption DEF Retry, Begin
  <1>10. CASE UNCHANGED vars
    BY <1>10 DEF vars
  <1> QED
    BY <1>1, <1>2, <1>3, <1>4, <1>5, <1>6, <1>7, <1>8, <1>9, <1>10
       DEF Next, Thread

LEMMA Typing == Spec => []TypeInv
  BY InitTypeInv, NextTypeInv, PTL DEF Spec

(* Every variable has its type, and nobody makes more attempts than MaxAttempts. *)
THEOREM TypeCorrect == Spec => []TypeOK
  <1>1. TypeInv => TypeOK
    BY DEF TypeInv
  <1> QED
    BY <1>1, Typing, PTL

-----------------------------------------------------------------------------
(* The interval *)

(* No grant is younger than the last, whose age the limiter keeps as far as it
   matters. *)
SinceLast == \A i \in DOMAIN grants : grants[i] >= sinceAcquire

IntervalInv == SinceLast /\ IntervalKept

LEMMA InitIntervalInv == Init => IntervalInv
  BY DEF Init, IntervalInv, SinceLast, IntervalKept

LEMMA GrantIsLast ==
  ASSUME TypeOK, NEW t \in Threads, Grant(t)
  PROVE  /\ DOMAIN grants = 1..Len(grants)
         /\ DOMAIN grants' = 1..(Len(grants) + 1)
         /\ Len(grants') = Len(grants) + 1
         /\ grants'[Len(grants) + 1] = 0
         /\ \A i \in DOMAIN grants : grants'[i] = grants[i] /\ grants[i] \in Nat
  <1>1. grants \in Seq(0..Horizon) /\ 0 \in 0..Horizon /\ grants' = Append(grants, 0)
    BY PoliteAssumption DEF TypeOK, Grant
  <1>2. DOMAIN grants = 1..Len(grants) /\ Len(grants) \in Nat
    BY ONLY <1>1, LenProperties
  <1>3. /\ grants' \in Seq(0..Horizon)
        /\ Len(grants') = Len(grants) + 1
        /\ grants'[Len(grants) + 1] = 0
        /\ \A i \in 1..Len(grants) : grants'[i] = grants[i]
    BY ONLY <1>1, AppendProperties
  <1>4. DOMAIN grants' = 1..Len(grants')
    BY ONLY <1>3, LenProperties
  <1>5. \A i \in 1..Len(grants) : grants[i] \in Nat
    <2>1. \A i \in 1..Len(grants) : grants[i] \in 0..Horizon
      BY ONLY <1>1, ElementOfSeq
    <2> QED
      BY <2>1, PoliteAssumption
  <1> QED
    BY <1>2, <1>3, <1>4, <1>5

LEMMA NextIntervalInv ==
  ASSUME TypeOK, IntervalInv, [Next]_vars
  PROVE  IntervalInv'
  <1> USE DEF IntervalInv, SinceLast, IntervalKept
  <1>1. CASE Tick
    <2>1. PICK n \in 0..Len(grants) :
            /\ n \in Nat
            /\ \A i \in DOMAIN grants' :
                /\ i \in Nat
                /\ i + n \in DOMAIN grants
                /\ grants[i + n] \in Nat
                /\ grants'[i] = grants[i + n] + 1
      BY <1>1, TickGrants
    <2>2. sinceAcquire \in Nat /\ sinceAcquire' <= sinceAcquire + 1
      BY <1>1, PoliteAssumption DEF Tick, Least, TypeOK
    <2>3. SinceLast'
      <3> SUFFICES ASSUME NEW i \in DOMAIN grants' PROVE grants'[i] >= sinceAcquire'
        OBVIOUS
      <3>1. sinceAcquire' \in Nat
        BY <1>1, PoliteAssumption DEF Tick, Least, TypeOK
      <3> QED
        BY <2>1, <2>2, <3>1
    <2>4. IntervalKept'
      <3> SUFFICES ASSUME NEW i \in DOMAIN grants', NEW j \in DOMAIN grants', i < j
                   PROVE  grants'[i] >= grants'[j] + MinInterval
        OBVIOUS
      <3>1. i \in Nat /\ j \in Nat /\ n \in Nat
        BY <2>1
      <3>2. grants[i + n] >= grants[j + n] + MinInterval
        BY <2>1, <3>1
      <3> QED
        BY <2>1, <3>2, PoliteAssumption
    <2> QED
      BY <2>3, <2>4
  <1>2. ASSUME NEW t \in Threads, AcquireAtOnce(t) PROVE IntervalInv'
    <2>1. Grant(t)
      BY <1>2 DEF AcquireAtOnce
    <2>2. sinceAcquire >= MinInterval /\ sinceAcquire \in Nat
      BY <1>2, PoliteAssumption DEF AcquireAtOnce, WaitInterval, Monus, TypeOK
    <2>3. \A i \in DOMAIN grants : grants[i] \in Nat /\ grants[i] >= MinInterval
      BY <2>1, <2>2, GrantIsLast, PoliteAssumption
    <2>4. sinceAcquire' = 0
      BY <2>1 DEF Grant
    <2>5. Len(grants) \in Nat
      BY LenProperties DEF TypeOK
    <2> QED
      BY <2>1, <2>3, <2>4, <2>5, GrantIsLast, PoliteAssumption
  <1>3. ASSUME NEW t \in Threads, Thread(t), ~AcquireAtOnce(t) PROVE IntervalInv'
    <2>1. UNCHANGED <<sinceAcquire, grants>>
      BY <1>3 DEF Thread, AcquireLater, Wake, Get, Redirect, Answered, Failed, Retry, limiterVars
    <2> QED
      BY <2>1
  <1>4. CASE UNCHANGED vars
    BY <1>4 DEF vars
  <1> QED
    BY <1>1, <1>2, <1>3, <1>4 DEF Next

(* Any two grants of the history are at least MinInterval apart, whichever
   threads they went to and however long each overslept. *)
THEOREM Interval == Spec => []IntervalKept
  <1>1. TypeInv /\ IntervalInv /\ [Next]_vars => IntervalInv'
    BY NextIntervalInv DEF TypeInv
  <1>2. IntervalInv => IntervalKept
    BY DEF IntervalInv
  <1> QED
    BY <1>1, <1>2, InitIntervalInv, Typing, PTL DEF Spec

-----------------------------------------------------------------------------
(* The rate *)

(* What the grants since the i-th cost, and what the bucket holds now, is no
   more than a full bucket and what was refilled since. *)
Since(i) == Len(grants) - i + 1
Accounted ==
    \A i \in DOMAIN grants : Since(i) * Cost + Refilled <= Capacity + Rate * grants[i]

RateInv == Accounted /\ RateKept

LEMMA InitRateInv == Init => RateInv
  BY DEF Init, RateInv, Accounted, RateKept

(* A tick refills what a tick may. *)
LEMMA TickRefills ==
  ASSUME TypeOK, Tick
  PROVE  Refilled' <= Refilled + Rate /\ Refilled' \in Nat
  <1>1. /\ tokens \in Nat /\ sinceRefill \in Nat /\ Rate \in Nat /\ Capacity \in Nat
        /\ tokens' = tokens /\ sinceRefill' \in Nat /\ sinceRefill' <= sinceRefill + 1
    BY PoliteAssumption, TicksType DEF TypeOK, Tick, Least
  <1>2. sinceRefill' * Rate <= (sinceRefill + 1) * Rate
    <2> DEFINE a == sinceRefill'
               b == sinceRefill + 1
    <2>1. a \in Nat /\ b \in Nat /\ a <= b
      BY <1>1
    <2> HIDE DEF a, b
    <2>2. a * Rate <= b * Rate
      BY ONLY <1>1, <2>1, TimesMonotonic
    <2> QED
      BY <2>2 DEF a, b
  <1>3. (sinceRefill + 1) * Rate = sinceRefill * Rate + Rate
    BY <1>1, TimesSuccessor
  <1>4. sinceRefill * Rate \in Nat /\ sinceRefill' * Rate \in Nat
    BY <1>1, TimesType
  <1> QED
    <2> DEFINE before == sinceRefill * Rate
               after == sinceRefill' * Rate
    <2>1. before \in Nat /\ after \in Nat /\ after <= before + Rate
      BY <1>2, <1>3, <1>4
    <2>2. /\ Refilled = IF Capacity <= tokens + before THEN Capacity ELSE tokens + before
          /\ Refilled' = IF Capacity <= tokens + after THEN Capacity ELSE tokens + after
      BY <1>1 DEF Refilled, Least
    <2> HIDE DEF before, after
    <2> QED
      BY <1>1, <2>1, <2>2

LEMMA GrantPays ==
  ASSUME TypeOK, NEW t \in Threads, Grant(t), Refilled >= Cost
  PROVE  Refilled' = Refilled - Cost
  <1>1. /\ tokens' = Refilled - Cost /\ sinceRefill' = 0
        /\ Refilled \in 0..Capacity /\ Capacity \in Nat /\ Rate \in Nat /\ Cost \in Nat
    BY RefilledType, PoliteAssumption DEF Grant, Refill
  <1>2. Refilled' = Least(Capacity, tokens' + 0 * Rate)
    BY <1>1 DEF Refilled
  <1> QED
    BY <1>1, <1>2 DEF Least

LEMMA AskingKeepsRefilled ==
  ASSUME TypeOK, NEW t \in Threads, AcquireLater(t)
  PROVE  Refilled' = Refilled
  <1>1. /\ tokens' = Refilled /\ sinceRefill' = 0
        /\ Refilled \in 0..Capacity /\ Capacity \in Nat /\ Rate \in Nat
    BY RefilledType, PoliteAssumption DEF AcquireLater, Refill
  <1>2. Refilled' = Least(Capacity, tokens' + 0 * Rate)
    BY <1>1 DEF Refilled
  <1> QED
    BY <1>1, <1>2 DEF Least

LEMMA NextRateInv ==
  ASSUME TypeOK, RateInv, [Next]_vars
  PROVE  RateInv'
  <1>0. /\ Capacity \in Nat /\ Rate \in Nat /\ Cost \in Nat /\ Refilled \in Nat
        /\ Len(grants) \in Nat
    <2>1. Len(grants) \in Nat
      BY LenProperties DEF TypeOK
    <2> QED
      BY <2>1, PoliteAssumption, RefilledType
  <1>1. CASE Tick
    <2>1. PICK n \in 0..Len(grants) :
            /\ n \in Nat
            /\ DOMAIN grants = 1..Len(grants)
            /\ DOMAIN grants' = 1..(Len(grants) - n)
            /\ Len(grants') = Len(grants) - n
            /\ \A i \in DOMAIN grants' :
                /\ i \in Nat
                /\ i + n \in DOMAIN grants
                /\ grants[i + n] \in Nat
                /\ grants'[i] = grants[i + n] + 1
      BY <1>1, TickGrants
    <2>2. ASSUME NEW i \in DOMAIN grants'
          PROVE  Since(i)' * Cost + Refilled' <= Capacity + Rate * grants'[i]
      <3> DEFINE g == grants[i + n]
                 owed == Since(i + n) * Cost
                 earned == Rate * g
      <3>1. g \in Nat /\ grants'[i] = g + 1 /\ Since(i)' = Since(i + n) /\ Since(i + n) \in Nat
        BY <1>0, <2>1 DEF Since
      <3>2. owed + Refilled <= Capacity + earned
        BY <2>1 DEF RateInv, Accounted
      <3>3. owed \in Nat /\ earned \in Nat
        BY <1>0, <3>1, TimesType
      <3>4. Rate * grants'[i] = earned + Rate
        BY <1>0, <3>1, TimesSuccessor
      <3>5. Since(i)' * Cost = owed
        BY <3>1
      <3>6. Refilled' <= Refilled + Rate /\ Refilled' \in Nat
        BY <1>1, TickRefills
      <3> HIDE DEF g, owed, earned
      <3> QED
        BY <1>0, <3>2, <3>3, <3>4, <3>5, <3>6
    <2>3. ASSUME NEW i \in DOMAIN grants', NEW j \in DOMAIN grants', i <= j
          PROVE  (j - i + 1) * Cost <= Capacity + Rate * (grants'[i] - grants'[j])
      <3>1. /\ i + n \in DOMAIN grants /\ j + n \in DOMAIN grants /\ i + n <= j + n
            /\ (j + n) - (i + n) + 1 = j - i + 1
            /\ grants'[i] - grants'[j] = grants[i + n] - grants[j + n]
        BY <2>1, <2>3
      <3>2. ((j + n) - (i + n) + 1) * Cost <= Capacity + Rate * (grants[i + n] - grants[j + n])
        BY <3>1 DEF RateInv, RateKept
      <3> QED
        BY <3>1, <3>2
    <2> QED
      BY <2>2, <2>3 DEF RateInv, Accounted, RateKept
  <1>2. ASSUME NEW t \in Threads, AcquireAtOnce(t) PROVE RateInv'
    <2>0. PICK m \in Nat : m = Len(grants)
      BY <1>0
    <2>1. Grant(t) /\ Refilled >= Cost
      BY <1>2 DEF AcquireAtOnce
    <2>2. /\ DOMAIN grants = 1..m
          /\ DOMAIN grants' = 1..(m + 1)
          /\ Len(grants') = m + 1
          /\ grants'[m + 1] = 0
          /\ \A i \in DOMAIN grants : grants'[i] = grants[i] /\ grants[i] \in Nat
      BY <2>0, <2>1, GrantIsLast
    <2>3. Refilled' = Refilled - Cost
      BY <2>1, GrantPays
    <2>4. ASSUME NEW i \in DOMAIN grants
          PROVE  /\ Since(i)' * Cost + Refilled' <= Capacity + Rate * grants[i]
                 /\ Since(i)' * Cost <= Capacity + Rate * grants[i]
      <3> DEFINE owed == Since(i) * Cost
                 earned == Rate * grants[i]
      <3>1. Since(i) \in Nat /\ Since(i)' = Since(i) + 1 /\ grants[i] \in Nat
        BY <1>0, <2>0, <2>2 DEF Since
      <3>2. owed + Refilled <= Capacity + earned
        BY DEF RateInv, Accounted
      <3>3. owed \in Nat /\ earned \in Nat
        BY <1>0, <3>1, TimesType
      <3>4. Since(i)' * Cost = owed + Cost
        BY <1>0, <3>1, TimesSuccessor
      <3> HIDE DEF owed
      <3>5. Since(i)' * Cost + Refilled' <= Capacity + earned /\ Since(i)' * Cost <= Capacity + earned
        <4> HIDE DEF earned
        <4> QED
          BY <1>0, <2>1, <2>3, <3>2, <3>3, <3>4
      <3> QED
        BY <3>5
    <2>5. Since(m + 1)' = 1 /\ 1 * Cost = Cost /\ Rate * grants'[m + 1] = 0 /\ Refilled <= Capacity
      <3>1. Since(m + 1)' = 1 /\ 1 * Cost = Cost /\ Rate * 0 = 0
        BY <1>0, <2>2 DEF Since
      <3>2. Refilled <= Capacity
        BY RefilledType
      <3> QED
        BY <2>2, <3>1, <3>2
    <2>6. Accounted'
      <3> SUFFICES ASSUME NEW i \in DOMAIN grants'
                   PROVE  Since(i)' * Cost + Refilled' <= Capacity + Rate * grants'[i]
        BY DEF Accounted
      <3>1. CASE i = m + 1
        <4>1. Since(i)' * Cost = Cost /\ Rate * grants'[i] = 0
          BY <2>5, <3>1
        <4> QED
          BY <1>0, <2>1, <2>3, <2>5, <4>1
      <3>2. CASE i # m + 1
        <4>1. i \in DOMAIN grants
          BY <1>0, <2>2, <3>2
        <4> QED
          BY <2>2, <2>4, <4>1
      <3> QED
        BY <3>1, <3>2
    <2>7. RateKept'
      <3> SUFFICES ASSUME NEW i \in DOMAIN grants', NEW j \in DOMAIN grants', i <= j
                   PROVE  (j - i + 1) * Cost <= Capacity + Rate * (grants'[i] - grants'[j])
        BY DEF RateKept
      <3>1. CASE j # m + 1
        <4>1. i \in DOMAIN grants /\ j \in DOMAIN grants
          BY <1>0, <2>2, <3>1
        <4>2. (j - i + 1) * Cost <= Capacity + Rate * (grants[i] - grants[j])
          BY <4>1 DEF RateInv, RateKept
        <4> QED
          BY <2>2, <4>1, <4>2
      <3>2. CASE j = m + 1 /\ i # m + 1
        <4>1. i \in DOMAIN grants
          BY <1>0, <2>2, <3>2
        <4>2. j - i + 1 = Since(i)' /\ grants'[i] - grants'[j] = grants[i]
          BY <1>0, <2>2, <3>2, <4>1 DEF Since
        <4> QED
          BY <2>4, <4>1, <4>2
      <3>3. CASE i = m + 1 /\ j = m + 1
        <4>1. j - i + 1 = 1 /\ grants'[i] - grants'[j] = 0 /\ Rate * 0 = 0
          BY <1>0, <2>2, <3>3
        <4> QED
          BY <1>0, <2>1, <2>5, <4>1
      <3> QED
        BY <3>1, <3>2, <3>3
    <2> QED
      BY <2>6, <2>7 DEF RateInv
  <1>3. ASSUME NEW t \in Threads, AcquireLater(t) PROVE RateInv'
    <2>1. Refilled' = Refilled /\ grants' = grants
      BY <1>3, AskingKeepsRefilled DEF AcquireLater
    <2> QED
      BY <2>1 DEF RateInv, Accounted, RateKept, Since
  <1>4. ASSUME NEW t \in Threads, Thread(t), ~AcquireAtOnce(t), ~AcquireLater(t) PROVE RateInv'
    <2>1. UNCHANGED limiterVars
      BY <1>4 DEF Thread, Wake, Get, Redirect, Answered, Failed, Retry
    <2> QED
      BY <2>1 DEF RateInv, Accounted, RateKept, Since, Refilled, limiterVars
  <1>5. CASE UNCHANGED vars
    BY <1>5 DEF vars, RateInv, Accounted, RateKept, Since, Refilled
  <1> QED
    BY <1>1, <1>2, <1>3, <1>4, <1>5 DEF Next

(* Over any stretch of time between two grants, the grants cost no more than a
   full bucket and what the stretch refilled. *)
THEOREM RateBound == Spec => []RateKept
  <1>1. TypeInv /\ RateInv /\ [Next]_vars => RateInv'
    BY NextRateInv DEF TypeInv
  <1>2. RateInv => RateKept
    BY DEF RateInv
  <1> QED
    BY <1>1, <1>2, InitRateInv, Typing, PTL DEF Spec
=============================================================================
