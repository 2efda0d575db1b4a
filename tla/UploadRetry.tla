---------------------------- MODULE UploadRetry -----------------------------
(***************************************************************************)
(* src/ctfhoard/hf.py: `_upload_folder_with_retry` and the child        *)
(* process of each attempt, `_upload_worker`.                               *)
(*                                                                          *)
(* The parent spawns a child with a queue of its own, joins it for at most  *)
(* _UPLOAD_TIMEOUT_S, terminates and at last kills a child that is still    *)
(* alive, and starts over up to MaxAttempts times.  The child may hang at   *)
(* any point, die without an answer, report an error after its commit went  *)
(* through, and, killed but not joined, act a moment longer.                *)
(***************************************************************************)
EXTENDS Naturals

CONSTANT MaxAttempts  \* _MAX_UPLOAD_ATTEMPTS

ASSUME MaxAttemptsAssumption == MaxAttempts \in Nat \ {0}

Attempts == 1..MaxAttempts

VARIABLES
    parent,   \* "spawn", "join", "terminate", "sleep", "returned", "raised"
    attempt,  \* 0 before the first
    child,    \* each attempt's process
    queue,    \* each attempt's result queue
    landed    \* attempts whose commit is in the dataset

vars == <<parent, attempt, child, queue, landed>>

ParentStates == {"spawn", "join", "terminate", "sleep", "returned", "raised"}
ChildStates == {"none", "running", "doomed", "dead"}

Init ==
    /\ parent = "spawn"
    /\ attempt = 0
    /\ child = [k \in Attempts |-> "none"]
    /\ queue = [k \in Attempts |-> "empty"]
    /\ landed = {}

-----------------------------------------------------------------------------
(* Child.  A doomed child has been sent its signal and may not yet be gone. *)

Alive(k) == child[k] \in {"running", "doomed"}

Commit(k) ==
    /\ Alive(k)
    /\ k \notin landed
    /\ landed' = landed \cup {k}
    /\ UNCHANGED <<parent, attempt, child, queue>>

ReportOk(k) ==
    /\ Alive(k)
    /\ k \in landed
    /\ queue[k] = "empty"
    /\ queue' = [queue EXCEPT ![k] = "ok"]
    /\ UNCHANGED <<parent, attempt, child, landed>>

(* upload_folder raised: the commit may have gone through all the same. *)
ReportErr(k) ==
    /\ Alive(k)
    /\ queue[k] = "empty"
    /\ queue' = [queue EXCEPT ![k] = "err"]
    /\ UNCHANGED <<parent, attempt, child, landed>>

(* It exits after its report, or dies without one. *)
Exit(k) ==
    /\ Alive(k)
    /\ child' = [child EXCEPT ![k] = "dead"]
    /\ UNCHANGED <<parent, attempt, queue, landed>>

-----------------------------------------------------------------------------
(* Parent *)

Spawn ==
    /\ parent = "spawn"
    /\ attempt' = attempt + 1
    /\ child' = [child EXCEPT ![attempt + 1] = "running"]
    /\ parent' = "join"
    /\ UNCHANGED <<queue, landed>>

BugMoreAttempts == attempt <= MaxAttempts
MoreAttempts == attempt < MaxAttempts
AfterFailure == IF MoreAttempts THEN "sleep" ELSE "raised"

(* The message get_nowait reads: this attempt's, if there is one. *)
BugAnswer(k) == IF \E j \in 1..k : queue[j] = "ok" THEN "ok" ELSE "err"
BugAnswerOnExit(k) == IF queue[k] = "err" THEN "err" ELSE "ok"
Answer(k) == IF queue[k] = "ok" THEN "ok" ELSE "err"

ChildExited ==
    /\ parent = "join"
    /\ child[attempt] = "dead"
    /\ parent' = IF Answer(attempt) = "ok" THEN "returned" ELSE AfterFailure
    /\ UNCHANGED <<attempt, child, queue, landed>>

(* join() ran into its timeout: terminate(), whose signal the child may sit
   out. *)
JoinTimesOut ==
    /\ parent = "join"
    /\ child[attempt] = "running"
    /\ child' = [child EXCEPT ![attempt] = "doomed"]
    /\ parent' = "terminate"
    /\ UNCHANGED <<attempt, queue, landed>>

BugGiveUpChild ==  \* join() without its timeout, no kill()
    /\ parent = "terminate"
    /\ child[attempt] = "dead"
    /\ parent' = AfterFailure
    /\ UNCHANGED <<attempt, child, queue, landed>>

(* join(30), kill() if still alive; the queue is not looked at. *)
GiveUpChild ==
    /\ parent = "terminate"
    /\ parent' = AfterFailure
    /\ UNCHANGED <<attempt, child, queue, landed>>

Wake ==
    /\ parent = "sleep"
    /\ parent' = "spawn"
    /\ UNCHANGED <<attempt, child, queue, landed>>

Parent == Spawn \/ ChildExited \/ JoinTimesOut \/ GiveUpChild \/ Wake
Child(k) == Commit(k) \/ ReportOk(k) \/ ReportErr(k) \/ Exit(k)

Over ==
    /\ parent \in {"returned", "raised"}
    /\ UNCHANGED vars

Next == Parent \/ (\E k \in Attempts : Child(k)) \/ Over

(* Only the parent is scheduled fairly: its waits all have deadlines. *)
Spec == Init /\ [][Next]_vars
FairSpec == Spec /\ WF_vars(Parent)

-----------------------------------------------------------------------------
(* Properties *)

TypeOK ==
    /\ parent \in ParentStates
    /\ attempt \in 0..MaxAttempts
    /\ parent \in {"spawn", "sleep"} => attempt < MaxAttempts
    /\ parent # "spawn" => attempt > 0
    /\ child \in [Attempts -> ChildStates]
    /\ queue \in [Attempts -> {"empty", "ok", "err"}]
    /\ landed \in SUBSET Attempts

(* The caller gets a URL only from the attempt it is waiting for, and only
   when that attempt's commit is in the dataset: no late answer of an earlier,
   terminated attempt is taken for it. *)
AnswerIsFresh == parent = "returned" => attempt \in landed /\ queue[attempt] = "ok"

(* The call ends however its children behave: every wait has a deadline. *)
CallEnds == <>(parent \in {"returned", "raised"})

(* The call as the pipeline sees it. *)
Outcome ==
    INSTANCE PublishOutcome WITH
      outcome <- CASE parent = "returned" -> "ok"
                   [] parent = "raised" -> "failed"
                   [] OTHER -> "pending",
      landed <- landed # {}

(* Every step of the retry loop and its children is a step of PublishOutcome
   or changes nothing its caller can see. *)
ImplementsOutcome == Outcome!Spec
=============================================================================
