--------------------------- MODULE CircuitBreaker ---------------------------
(***************************************************************************)
(* internal/circuitbreaker/circuit_breaker.go with concurrent callers of    *)
(* Execute and of RecordSuccess / RecordFailure / Reset.  The mutex makes    *)
(* each method one step; the function Execute runs is not under the mutex,   *)
(* so other callers and the clock move between its admission and its result. *)
(*                                                                          *)
(* The wall clock is reduced to what the code asks of it: whether            *)
(* ResetTimeout has passed since lastFailureTime.                           *)
(***************************************************************************)
EXTENDS Integers, Sequences

CONSTANTS
    Callers,            \* goroutines inside Execute
    MaxFailures,        \* Config.MaxFailures
    SuccessThreshold,   \* Config.SuccessThreshold
    MaxRecorded         \* bound: results and resets recorded in one behaviour

\* New (circuit_breaker.go:65-80) replaces non-positive settings by defaults.
ASSUME ConfigAssumption ==
    /\ MaxFailures \in Nat \ {0}
    /\ SuccessThreshold \in Nat \ {0}
    /\ MaxRecorded \in Nat

VARIABLES
    state,
    consecutiveFailures,
    consecutiveSuccesses,
    timeoutElapsed,     \* now - lastFailureTime >= ResetTimeout
    running,            \* callers whose function Execute is running
    log                 \* history: results, resets and half-open entries

cb == <<state, consecutiveFailures, consecutiveSuccesses>>
vars == <<cb, timeoutElapsed, running, log>>

States == {"Closed", "HalfOpen", "Open"}
Entries == {"ok", "fail", "reset", "halfOpen"}

TypeOK ==
    /\ state \in States
    /\ consecutiveFailures \in Nat
    /\ consecutiveSuccesses \in Nat
    /\ timeoutElapsed \in BOOLEAN
    /\ running \subseteq Callers
    /\ log \in Seq(Entries)

\* The zero lastFailureTime is long past.
Init ==
    /\ state = "Closed"
    /\ consecutiveFailures = 0
    /\ consecutiveSuccesses = 0
    /\ timeoutElapsed = TRUE
    /\ running = {}
    /\ log = <<>>

\* Mutant: one failure too many before the breaker trips.
OnFailureTripsLate ==
    /\ consecutiveFailures' = consecutiveFailures + 1
    /\ consecutiveSuccesses' = 0
    /\ timeoutElapsed' = FALSE
    /\ state' = IF \/ state = "HalfOpen"
                   \/ state = "Closed" /\ consecutiveFailures' > MaxFailures
                THEN "Open" ELSE state

OnFailure ==
    /\ consecutiveFailures' = consecutiveFailures + 1
    /\ consecutiveSuccesses' = 0
    /\ timeoutElapsed' = FALSE
    /\ state' = IF \/ state = "HalfOpen"
                   \/ state = "Closed" /\ consecutiveFailures' >= MaxFailures
                THEN "Open" ELSE state

\* Mutants: a success forgives one failure, or none, instead of all.
OnSuccessForgivesOne ==
    /\ consecutiveFailures' = consecutiveFailures - 1
    /\ consecutiveSuccesses' = consecutiveSuccesses + 1
    /\ state' = IF state = "HalfOpen" /\ consecutiveSuccesses' >= SuccessThreshold
                THEN "Closed" ELSE state
    /\ UNCHANGED timeoutElapsed
OnSuccessForgivesNone ==
    /\ consecutiveSuccesses' = consecutiveSuccesses + 1
    /\ state' = IF state = "HalfOpen" /\ consecutiveSuccesses' >= SuccessThreshold
                THEN "Closed" ELSE state
    /\ UNCHANGED <<consecutiveFailures, timeoutElapsed>>

OnSuccess ==
    /\ consecutiveFailures' = 0
    /\ consecutiveSuccesses' = consecutiveSuccesses + 1
    /\ state' = IF state = "HalfOpen" /\ consecutiveSuccesses' >= SuccessThreshold
                THEN "Closed" ELSE state
    /\ UNCHANGED timeoutElapsed

Recording(entry) == Len(log) < MaxRecorded /\ log' = Append(log, entry)

\* allowRequest: three ways to be admitted; an open breaker whose timeout has
\* not elapsed answers ErrOpen and changes nothing.
Admit(c) ==
    /\ c \notin running
    /\ state \in {"Closed", "HalfOpen"}
    /\ running' = running \cup {c}
    /\ UNCHANGED <<cb, timeoutElapsed, log>>

\* Mutant: the reset timeout is not waited for.
AdmitProbeEarly(c) ==
    /\ c \notin running
    /\ state = "Open"
    /\ Recording("halfOpen")
    /\ state' = "HalfOpen"
    /\ consecutiveSuccesses' = 0
    /\ running' = running \cup {c}
    /\ UNCHANGED <<consecutiveFailures, timeoutElapsed>>

AdmitProbe(c) ==
    /\ c \notin running
    /\ state = "Open" /\ timeoutElapsed
    /\ Recording("halfOpen")
    /\ state' = "HalfOpen"
    /\ consecutiveSuccesses' = 0
    /\ running' = running \cup {c}
    /\ UNCHANGED <<consecutiveFailures, timeoutElapsed>>

\* recordResult, whatever the breaker has become since the call was admitted.
Fails(c) ==
    /\ c \in running
    /\ Recording("fail")
    /\ OnFailure
    /\ running' = running \ {c}

Succeeds(c) ==
    /\ c \in running
    /\ Recording("ok")
    /\ OnSuccess
    /\ running' = running \ {c}

RecordFailure == Recording("fail") /\ OnFailure /\ UNCHANGED running
RecordSuccess == Recording("ok") /\ OnSuccess /\ UNCHANGED running

OnReset ==
    /\ consecutiveFailures' = 0
    /\ consecutiveSuccesses' = 0
    /\ state' = "Closed"
    /\ UNCHANGED timeoutElapsed

Reset == Recording("reset") /\ OnReset /\ UNCHANGED running

ResetTimeoutElapses ==
    /\ ~timeoutElapsed
    /\ timeoutElapsed' = TRUE
    /\ UNCHANGED <<cb, running, log>>

Next ==
    \/ \E c \in Callers : Admit(c) \/ AdmitProbe(c) \/ Fails(c) \/ Succeeds(c)
    \/ RecordFailure
    \/ RecordSuccess
    \/ Reset
    \/ ResetTimeoutElapses

Spec == Init /\ [][Next]_vars

-----------------------------------------------------------------------------
\* A closed breaker is always below its failure limit and a half-open one
\* below its success threshold: no order of late results, probes and resets
\* leaves a breaker that should have moved already (circuit_breaker.go:94-156).
BelowThresholds ==
    /\ state = "Closed" => consecutiveFailures < MaxFailures
    /\ state = "HalfOpen" => consecutiveSuccesses < SuccessThreshold

\* The last n entries of the history h are all e.
Trailing(h, e, n) == n <= Len(h) /\ \A i \in 1..n : h[Len(h) - n + i] = e

\* The breaker trips exactly when the results recorded so far end in
\* MaxFailures failures, and it recovers exactly when SuccessThreshold
\* successes in a row follow the half-open entry; nothing but a reset closes
\* it otherwise (onFailure, onSuccess, Reset: circuit_breaker.go:130-156, 195-203).
TripsAndRecoversExactly ==
    [][ /\ state = "Closed" =>
              (state' = "Open" <=> log' # log /\ Trailing(log', "fail", MaxFailures))
        /\ (state # "Closed" /\ state' = "Closed") =>
              \/ Trailing(log', "reset", 1)
              \/ state = "HalfOpen" /\ Trailing(log', "ok", SuccessThreshold) ]_vars

\* Between a failure and ResetTimeout an open breaker admits nobody and stays
\* open, however many calls admitted earlier return meanwhile; only a manual
\* reset ends it (allowRequest: circuit_breaker.go:102-109).
OpenHoldsUntilTimeout ==
    [][ (state = "Open" /\ ~timeoutElapsed) =>
          /\ running' \subseteq running
          /\ state' = "Open" \/ Trailing(log', "reset", 1) ]_vars
=============================================================================
