---------------------------- MODULE PoliteClient ----------------------------
(***************************************************************************)
(* src/ctfhoard/ratelimit.py and http.py: threads that share one        *)
(* `RateLimiter` through a `PoliteClient`.                                  *)
(*                                                                          *)
(* Time is counted in ticks and tokens in units of which a tick refills     *)
(* Rate and a request costs Cost (`per` and 1 token there).  Clocks are     *)
(* kept as the time since an event, each up to the value past which the     *)
(* code no longer tells it apart, so nothing grows without bound.  `acquire`*)
(* holds its lock from reading the clock to its verdict: one step.          *)
(***************************************************************************)
EXTENDS Naturals, Sequences

CONSTANTS
    Threads,
    Rate, Cost, Capacity,
    MinInterval,
    MaxAttempts,  \* stop_after_attempt
    Backoff,      \* the lengths of wait_exponential's waits, in ticks
    Redirects,    \* whether servers answer with redirects
    Horizon       \* how long the history remembers a grant

ASSUME PoliteAssumption ==
    /\ Rate \in Nat \ {0}
    /\ Cost \in Nat \ {0}
    /\ Capacity \in Nat
    /\ Cost <= Capacity  \* or acquire() never returns
    /\ MinInterval \in Nat
    /\ MaxAttempts \in Nat \ {0}
    /\ Backoff \subseteq Nat
    /\ Backoff # {}
    /\ Redirects \in BOOLEAN
    /\ Horizon \in Nat

VARIABLES
    tokens,        \* _tokens
    sinceRefill,   \* now - _last_refill
    sinceAcquire,  \* now - _last_acquire
    pc,            \* each thread: "idle", "acquire", "sleep", "request", "backoff"
    rest,          \* each thread: ticks left of its sleep or backoff
    attempt,       \* each thread: attempts begun by its get()
    hops,          \* history: requests each thread sent since its last grant
    grants         \* history: ages of the grants, oldest first

vars == <<tokens, sinceRefill, sinceAcquire, pc, rest, attempt, hops, grants>>

limiterVars == <<tokens, sinceRefill, sinceAcquire, grants>>

Least(a, b) == IF a <= b THEN a ELSE b
Monus(a, b) == IF a >= b THEN a - b ELSE 0
Ticks(units) == (units + Rate - 1) \div Rate

Init ==
    /\ tokens = Capacity
    /\ sinceRefill = 0
    /\ sinceAcquire \in 0..MinInterval  \* _last_acquire = 0.0, the clock's own zero
    /\ pc = [t \in Threads |-> "idle"]
    /\ rest = [t \in Threads |-> 0]
    /\ attempt = [t \in Threads |-> 0]
    /\ hops = [t \in Threads |-> 0]
    /\ grants = <<>>

-----------------------------------------------------------------------------
(* Time *)

Tick ==
    /\ sinceRefill' = Least(sinceRefill + 1, Ticks(Capacity))
    /\ sinceAcquire' = Least(sinceAcquire + 1, MinInterval)
    /\ rest' = [t \in Threads |-> Monus(rest[t], 1)]
    /\ \E n \in 0..Len(grants) :  \* the oldest are forgotten
         /\ \A i \in DOMAIN grants : i <= n <=> grants[i] >= Horizon
         /\ grants' = [i \in 1..(Len(grants) - n) |-> grants[i + n] + 1]
    /\ UNCHANGED <<tokens, pc, attempt, hops>>

-----------------------------------------------------------------------------
(* RateLimiter.acquire *)

BugRefilled == tokens + sinceRefill * Rate  \* a pause builds up any burst
Refilled == Least(Capacity, tokens + sinceRefill * Rate)

WaitInterval == Monus(MinInterval, sinceAcquire)
WaitTokens == Ticks(Monus(Cost, Refilled))

Refill(left) ==
    /\ tokens' = left
    /\ sinceRefill' = 0

Grant(t) ==
    /\ Refill(Refilled - Cost)
    /\ sinceAcquire' = 0
    /\ grants' = Append(grants, 0)
    /\ pc' = [pc EXCEPT ![t] = "request"]
    /\ hops' = [hops EXCEPT ![t] = 0]
    /\ UNCHANGED <<rest, attempt>>

AcquireAtOnce(t) ==
    /\ pc[t] = "acquire"
    /\ Refilled >= Cost /\ WaitInterval = 0
    /\ Grant(t)

BugAcquireLater(t) ==  \* every call counts as an acquisition
    /\ pc[t] = "acquire"
    /\ ~(Refilled >= Cost /\ WaitInterval = 0)
    /\ Refill(Refilled)
    /\ rest' = [rest EXCEPT
         ![t] = IF WaitInterval >= WaitTokens THEN WaitInterval ELSE WaitTokens]
    /\ pc' = [pc EXCEPT ![t] = "sleep"]
    /\ sinceAcquire' = 0
    /\ UNCHANGED <<attempt, hops, grants>>

AcquireLater(t) ==
    /\ pc[t] = "acquire"
    /\ ~(Refilled >= Cost /\ WaitInterval = 0)
    /\ Refill(Refilled)
    /\ rest' = [rest EXCEPT
         ![t] = IF WaitInterval >= WaitTokens THEN WaitInterval ELSE WaitTokens]
    /\ pc' = [pc EXCEPT ![t] = "sleep"]
    /\ UNCHANGED <<sinceAcquire, attempt, hops, grants>>

(* The sleep is over, maybe by far: look again, another thread may have been
   quicker. *)
BugWake(t) ==  \* what was free when the thread went to sleep is taken as still free
    /\ pc[t] = "sleep"
    /\ rest[t] = 0
    /\ tokens' = Monus(Refilled, Cost)
    /\ sinceRefill' = 0
    /\ sinceAcquire' = 0
    /\ grants' = Append(grants, 0)
    /\ pc' = [pc EXCEPT ![t] = "request"]
    /\ hops' = [hops EXCEPT ![t] = 0]
    /\ UNCHANGED <<rest, attempt>>

Wake(t) ==
    /\ pc[t] = "sleep"
    /\ rest[t] = 0
    /\ pc' = [pc EXCEPT ![t] = "acquire"]
    /\ UNCHANGED <<limiterVars, rest, attempt, hops>>

-----------------------------------------------------------------------------
(* PoliteClient.get *)

Begin(t, n) ==
    /\ pc' = [pc EXCEPT ![t] = "acquire"]
    /\ attempt' = [attempt EXCEPT ![t] = n]

Get(t) ==
    /\ pc[t] = "idle"
    /\ Begin(t, 1)
    /\ UNCHANGED <<limiterVars, rest, hops>>

(* A redirect is followed inside the client's own get: no acquire. *)
Redirect(t) ==
    /\ Redirects
    /\ pc[t] = "request"
    /\ hops[t] = 0  \* more than one adds nothing
    /\ hops' = [hops EXCEPT ![t] = 1]
    /\ UNCHANGED <<limiterVars, pc, rest, attempt>>

Finish(t) == pc' = [pc EXCEPT ![t] = "idle"] /\ attempt' = [attempt EXCEPT ![t] = 0]

(* Any answer but 429 and 5xx, 4xx among them, is returned. *)
Answered(t) ==
    /\ pc[t] = "request"
    /\ Finish(t)
    /\ UNCHANGED <<limiterVars, rest, hops>>

BugAgain(t) == attempt[t] <= MaxAttempts
Again(t) == attempt[t] < MaxAttempts

(* 429, 5xx or a transport error: wait and retry, or raise. *)
Failed(t) ==
    /\ pc[t] = "request"
    /\ \/ /\ Again(t)
          /\ pc' = [pc EXCEPT ![t] = "backoff"]
          /\ \E wait \in Backoff : rest' = [rest EXCEPT ![t] = wait]
          /\ UNCHANGED attempt
       \/ /\ ~Again(t)
          /\ Finish(t)
          /\ UNCHANGED rest
    /\ UNCHANGED <<limiterVars, hops>>

Retry(t) ==
    /\ pc[t] = "backoff"
    /\ rest[t] = 0
    /\ Begin(t, attempt[t] + 1)
    /\ UNCHANGED <<limiterVars, rest, hops>>

Thread(t) ==
    \/ AcquireAtOnce(t) \/ AcquireLater(t) \/ Wake(t)
    \/ Get(t) \/ Redirect(t) \/ Answered(t) \/ Failed(t) \/ Retry(t)

Next == Tick \/ (\E t \in Threads : Thread(t))

Spec == Init /\ [][Next]_vars

(* Time passes and a thread whose wait is over runs; a request ends, by its
   timeout at the latest. *)
FairSpec == Spec /\ WF_vars(Tick) /\ \A t \in Threads : WF_vars(Thread(t))

-----------------------------------------------------------------------------
(* Properties *)

States == {"idle", "acquire", "sleep", "request", "backoff"}

TypeOK ==
    /\ tokens \in 0..Capacity
    /\ sinceRefill \in 0..Ticks(Capacity)
    /\ sinceAcquire \in 0..MinInterval
    /\ pc \in [Threads -> States]
    /\ rest \in [Threads -> Nat]
    /\ attempt \in [Threads -> 0..MaxAttempts]
    /\ hops \in [Threads -> 0..1]
    /\ grants \in Seq(0..Horizon)

(* Any two grants are at least MinInterval apart, whichever threads they went
   to and however long each slept. *)
IntervalKept ==
    \A i, j \in DOMAIN grants : i < j => grants[i] >= grants[j] + MinInterval

(* Over any stretch of time, the grants cost no more than one full bucket and
   what the stretch refilled. *)
RateKept ==
    \A i, j \in DOMAIN grants :
        i <= j => (j - i + 1) * Cost <= Capacity + Rate * (grants[i] - grants[j])

(* The limiter never wedges: when a thread asks, some thread is let through. *)
SomeoneProceeds ==
    \A t \in Threads : pc[t] = "acquire" ~> \E u \in Threads : pc[u] = "request"

(* http.py:43-46: every request is rate-limited. *)
EveryRequestLimited == \A t \in Threads : hops[t] = 0
=============================================================================
