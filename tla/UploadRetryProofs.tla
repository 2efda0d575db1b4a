------------------------- MODULE UploadRetryProofs --------------------------
(* Theorems about UploadRetry for any number of attempts. *)
EXTENDS UploadRetry, TLAPS

Inv ==
    /\ TypeOK
    /\ \A k \in Attempts : queue[k] = "ok" => k \in landed
    /\ AnswerIsFresh

LEMMA InitInv == Init => Inv
  BY MaxAttemptsAssumption DEF Init, Inv, TypeOK, AnswerIsFresh, Attempts, ParentStates,
     ChildStates

LEMMA NextInv ==
  ASSUME Inv, [Next]_vars
  PROVE  Inv'
  <1> USE MaxAttemptsAssumption
          DEF Inv, TypeOK, AnswerIsFresh, Attempts, ParentStates, ChildStates
  <1>1. ASSUME NEW k \in Attempts, Child(k) PROVE Inv'
    BY <1>1 DEF Child, Commit, ReportOk, ReportErr, Exit, Alive
  <1>2. CASE Spawn
    BY <1>2 DEF Spawn
  <1>3. CASE ChildExited
    BY <1>3 DEF ChildExited, Answer, AfterFailure, MoreAttempts
  <1>4. CASE JoinTimesOut
    BY <1>4 DEF JoinTimesOut
  <1>5. CASE GiveUpChild
    BY <1>5 DEF GiveUpChild, AfterFailure, MoreAttempts
  <1>6. CASE Wake
    BY <1>6 DEF Wake
  <1>7. CASE UNCHANGED vars
    BY <1>7 DEF vars
  <1> QED
    BY <1>1, <1>2, <1>3, <1>4, <1>5, <1>6, <1>7 DEF Next, Parent, Over

LEMMA Invariant == Spec => []Inv
  BY InitInv, NextInv, PTL DEF Spec

(* Every variable has its type: no child, answer or commit of an attempt that
   has not begun. *)
THEOREM TypeCorrect == Spec => []TypeOK
  <1>1. Inv => TypeOK
    BY DEF Inv
  <1> QED
    BY <1>1, Invariant, PTL

(* The caller is given the answer of the attempt it waits for, and only when
   that attempt's commit is in the dataset. *)
THEOREM FreshAnswer == Spec => []AnswerIsFresh
  <1>1. Inv => AnswerIsFresh
    BY DEF Inv
  <1> QED
    BY <1>1, Invariant, PTL

(* The retry loop with its hanging, dying and late children implements the one
   call that either succeeds after its commit landed or fails. *)
THEOREM Refinement == Spec => ImplementsOutcome
  <1>1. Init => Outcome!Init
    BY DEF Init, Outcome!Init
  <1>2. ASSUME Inv, [Next]_vars
        PROVE  [Outcome!Next]_(Outcome!vars)
    <2> USE <1>2 DEF Outcome!vars, Outcome!Next
    <2>1. ASSUME NEW k \in Attempts, Child(k) PROVE [Outcome!Next]_(Outcome!vars)
      <3>1. UNCHANGED parent /\ landed \subseteq landed'
        BY <2>1 DEF Child, Commit, ReportOk, ReportErr, Exit
      <3>2. CASE landed = {} /\ landed' # {}
        BY <3>1, <3>2 DEF Outcome!Land
      <3>3. CASE landed # {} \/ landed' = {}
        <4>1. (landed # {}) <=> (landed' # {})
          BY <3>1, <3>3
        <4> QED
          BY <3>1, <4>1
      <3> QED
        BY <3>2, <3>3
    <2>2. CASE ChildExited
      <3>1. parent = "join" /\ UNCHANGED landed
        BY <2>2 DEF ChildExited
      <3>2. CASE parent' = "returned"
        <4>1. landed # {}
          BY <2>2, <3>2 DEF ChildExited, Answer, AfterFailure, MoreAttempts, Inv, TypeOK,
             Attempts
        <4> QED
          BY <3>1, <3>2, <4>1 DEF Outcome!Succeed
      <3>3. CASE parent' = "raised"
        BY <3>1, <3>3 DEF Outcome!Fail
      <3>4. CASE parent' = "sleep"
        BY <3>1, <3>4
      <3> QED
        BY <2>2, <3>2, <3>3, <3>4 DEF ChildExited, AfterFailure
    <2>3. CASE GiveUpChild
      <3>1. parent = "terminate" /\ UNCHANGED landed /\ parent' \in {"sleep", "raised"}
        BY <2>3 DEF GiveUpChild, AfterFailure
      <3> QED
        BY <3>1 DEF Outcome!Fail
    <2>4. CASE Spawn \/ JoinTimesOut \/ Wake
      <3>1. /\ parent \in {"spawn", "join", "sleep"}
            /\ parent' \in {"join", "terminate", "spawn"}
            /\ UNCHANGED landed
        BY <2>4 DEF Spawn, JoinTimesOut, Wake
      <3> QED
        BY <3>1
    <2>5. CASE UNCHANGED vars
      BY <2>5 DEF vars
    <2> QED
      BY <2>1, <2>2, <2>3, <2>4, <2>5 DEF Next, Parent, Over
  <1> QED
    BY <1>1, <1>2, Invariant, PTL DEF Spec, ImplementsOutcome, Outcome!Spec
=============================================================================
