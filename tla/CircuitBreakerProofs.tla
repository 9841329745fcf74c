------------------------ MODULE CircuitBreakerProofs ------------------------
(***************************************************************************)
(* Proofs about CircuitBreaker for any callers and any configuration.       *)
(***************************************************************************)
EXTENDS CircuitBreaker, TLAPS

\* The counters agree with the history in the states that decide on them:
\* a closed breaker counts the failures the history ends in, a half-open one
\* the successes.  (An open breaker's counters may be off: a failed probe adds
\* to the count it found, a late success zeroes it.)
CountersMatchLog ==
    /\ state = "Closed" => \A n \in Nat :
          Trailing(log, "fail", n) <=> n <= consecutiveFailures
    /\ state = "HalfOpen" => \A n \in Nat :
          Trailing(log, "ok", n) <=> n <= consecutiveSuccesses

IInv == TypeOK /\ BelowThresholds /\ CountersMatchLog

-----------------------------------------------------------------------------
\* One more entry lengthens the run of its kind and ends every other run.
LEMMA TrailingAppend ==
    ASSUME NEW h \in Seq(Entries), NEW e \in Entries, NEW f \in Entries, NEW n \in Nat
    PROVE  Trailing(Append(h, f), e, n) <=>
              n = 0 \/ (e = f /\ Trailing(h, e, n - 1))
<1> DEFINE g == Append(h, f)
<1>1. /\ Len(h) \in Nat /\ Len(g) = Len(h) + 1 /\ g[Len(g)] = f
      /\ \A i \in 1..Len(h) : g[i] = h[i]
    OBVIOUS
<1> HIDE DEF g
<1>2. CASE n = 0
    BY <1>1, <1>2 DEF Trailing, g
<1>3. CASE n # 0
    <2>1. ASSUME Trailing(g, e, n) PROVE e = f /\ Trailing(h, e, n - 1)
        <3>1. g[Len(g) - n + n] = e
            BY <1>3, <2>1 DEF Trailing
        <3>2. e = f
            BY <1>1, <3>1
        <3>3. n - 1 <= Len(h)
            BY <1>1, <2>1 DEF Trailing
        <3>4. ASSUME NEW i \in 1..(n - 1) PROVE h[Len(h) - (n - 1) + i] = e
            <4>1. i \in 1..n
                OBVIOUS
            <4>2. g[Len(g) - n + i] = e
                BY <2>1, <4>1 DEF Trailing
            <4>3. /\ Len(g) - n + i = Len(h) - (n - 1) + i
                  /\ Len(h) - (n - 1) + i \in 1..Len(h)
                BY <1>1, <3>3
            <4>4. QED
                BY <1>1, <4>2, <4>3
        <3>5. QED
            BY <3>2, <3>3, <3>4 DEF Trailing
    <2>2. ASSUME e = f, Trailing(h, e, n - 1) PROVE Trailing(g, e, n)
        <3>1. n <= Len(g) /\ n - 1 <= Len(h)
            BY <1>1, <2>2 DEF Trailing
        <3>2. ASSUME NEW i \in 1..n PROVE g[Len(g) - n + i] = e
            <4>1. CASE i = n
                BY <1>1, <2>2, <4>1
            <4>2. CASE i # n
                <5>1. i \in 1..(n - 1) /\ Len(g) - n + i = Len(h) - (n - 1) + i
                    BY <1>1, <4>2
                <5>2. Len(h) - (n - 1) + i \in 1..Len(h)
                    BY <1>1, <3>1, <5>1
                <5>3. h[Len(h) - (n - 1) + i] = e
                    BY <2>2, <5>1 DEF Trailing
                <5>4. QED
                    BY <1>1, <5>1, <5>2, <5>3
            <4>3. QED
                BY <4>1, <4>2
        <3>3. QED
            BY <3>1, <3>2 DEF Trailing
    <2>3. QED
        BY <1>3, <2>1, <2>2 DEF g
<1>4. QED
    BY <1>2, <1>3

\* A recorded entry e: what Recording leaves in the history.
LEMMA RecordingEffect ==
    ASSUME TypeOK, NEW f \in Entries, Recording(f)
    PROVE  /\ log' \in Seq(Entries) /\ log' # log
           /\ \A e \in Entries, n \in Nat :
                 Trailing(log', e, n) <=> n = 0 \/ (e = f /\ Trailing(log, e, n - 1))
<1>1. log \in Seq(Entries) /\ log' = Append(log, f)
    BY DEF TypeOK, Recording
<1>2. Len(log') = Len(log) + 1 /\ Len(log) \in Nat
    BY <1>1
<1>3. log' # log
    BY <1>2
<1>4. QED
    BY <1>1, <1>3, TrailingAppend

LEMMA InitInv == Init => IInv
<1> SUFFICES ASSUME Init PROVE IInv
    OBVIOUS
<1>1. \A n \in Nat : Trailing(<<>>, "fail", n) <=> n <= 0
    BY DEF Trailing
<1>2. QED
    BY <1>1, ConfigAssumption
       DEF Init, IInv, TypeOK, BelowThresholds, CountersMatchLog, States, Entries

\* onFailure in a step that records the failure.
LEMMA FailureInv ==
    ASSUME IInv, Recording("fail"), OnFailure, running' \subseteq Callers
    PROVE  IInv'
<1>1. /\ log' \in Seq(Entries)
      /\ \A n \in Nat : Trailing(log', "fail", n) <=> n = 0 \/ Trailing(log, "fail", n - 1)
    BY RecordingEffect DEF IInv, Entries
<1>2. /\ timeoutElapsed' \in BOOLEAN /\ consecutiveSuccesses' \in Nat
      /\ consecutiveFailures' \in Nat
    <2>1. timeoutElapsed' = FALSE
        BY DEF OnFailure
    <2>2. timeoutElapsed' \in BOOLEAN
        BY <2>1
    <2>3. consecutiveSuccesses' \in Nat /\ consecutiveFailures' \in Nat
        BY DEF OnFailure, IInv, TypeOK
    <2>4. QED
        BY <2>2, <2>3
<1>3. CASE state = "HalfOpen" \/ (state = "Closed" /\ consecutiveFailures + 1 >= MaxFailures)
    <2>1. state' = "Open"
        BY <1>3 DEF OnFailure
    <2>2. TypeOK'
        BY <1>1, <1>2, <2>1 DEF TypeOK, States
    <2>3. BelowThresholds' /\ CountersMatchLog'
        BY <2>1 DEF BelowThresholds, CountersMatchLog
    <2>4. QED
        BY <2>2, <2>3 DEF IInv
<1>4. CASE ~(state = "HalfOpen" \/ (state = "Closed" /\ consecutiveFailures + 1 >= MaxFailures))
    <2>1. state' = state /\ state # "HalfOpen" /\ consecutiveFailures' = consecutiveFailures + 1
        BY <1>4 DEF OnFailure
    <2>2. TypeOK'
        BY <1>1, <1>2, <2>1 DEF IInv, TypeOK
    <2>3. BelowThresholds'
        BY <1>4, <2>1, ConfigAssumption DEF BelowThresholds, IInv, TypeOK
    <2>4. ASSUME state = "Closed", NEW n \in Nat
          PROVE  Trailing(log', "fail", n) <=> n <= consecutiveFailures'
        <3>1. CASE n = 0
            BY <1>1, <2>1, <3>1 DEF IInv, TypeOK
        <3>2. CASE n # 0
            <4>1. n - 1 \in Nat
                BY <3>2
            <4>2. Trailing(log, "fail", n - 1) <=> n - 1 <= consecutiveFailures
                BY <2>4, <4>1 DEF IInv, CountersMatchLog
            <4>3. QED
                BY <1>1, <2>1, <3>2, <4>2 DEF IInv, TypeOK
        <3>3. QED
            BY <3>1, <3>2
    <2>5. CountersMatchLog'
        BY <2>1, <2>4 DEF CountersMatchLog
    <2>6. QED
        BY <2>2, <2>3, <2>5 DEF IInv
<1>5. QED
    BY <1>3, <1>4

\* onSuccess in a step that records the success.
LEMMA SuccessInv ==
    ASSUME IInv, Recording("ok"), OnSuccess, running' \subseteq Callers
    PROVE  IInv'
<1>1. /\ log' \in Seq(Entries)
      /\ \A n \in Nat : Trailing(log', "ok", n) <=> n = 0 \/ Trailing(log, "ok", n - 1)
      /\ \A n \in Nat : Trailing(log', "fail", n) <=> n = 0
    BY RecordingEffect DEF IInv, Entries
<1>2. TypeOK'
    BY <1>1 DEF IInv, TypeOK, OnSuccess, States
<1>3. BelowThresholds'
    BY ConfigAssumption DEF IInv, TypeOK, States, BelowThresholds, OnSuccess
<1>4. CountersMatchLog'
    <2>1. ASSUME state' = "HalfOpen", NEW n \in Nat
          PROVE  Trailing(log', "ok", n) <=> n <= consecutiveSuccesses'
        <3>1. state = "HalfOpen" /\ consecutiveSuccesses' = consecutiveSuccesses + 1
            BY <2>1 DEF OnSuccess, IInv, TypeOK, States
        <3>2. CASE n = 0
            BY <1>1, <3>1, <3>2 DEF IInv, TypeOK
        <3>3. CASE n # 0
            <4>1. n - 1 \in Nat
                BY <3>3
            <4>2. Trailing(log, "ok", n - 1) <=> n - 1 <= consecutiveSuccesses
                BY <3>1, <4>1 DEF IInv, CountersMatchLog
            <4>3. QED
                BY <1>1, <3>1, <3>3, <4>2 DEF IInv, TypeOK
        <3>4. QED
            BY <3>2, <3>3
    <2>2. consecutiveFailures' = 0
        BY DEF OnSuccess
    <2>3. QED
        BY <1>1, <2>1, <2>2 DEF CountersMatchLog
<1>5. QED
    BY <1>2, <1>3, <1>4 DEF IInv

LEMMA ProbeInv ==
    ASSUME IInv, NEW c \in Callers, AdmitProbe(c)
    PROVE  IInv'
<1>1. /\ log' \in Seq(Entries)
      /\ \A n \in Nat : Trailing(log', "ok", n) <=> n = 0
    BY RecordingEffect DEF IInv, Entries, AdmitProbe
<1>2. TypeOK'
    BY <1>1 DEF IInv, TypeOK, AdmitProbe, States
<1>3. state' = "HalfOpen" /\ consecutiveSuccesses' = 0
    BY DEF AdmitProbe
<1>4. BelowThresholds' /\ CountersMatchLog'
    BY <1>1, <1>3, ConfigAssumption DEF BelowThresholds, CountersMatchLog
<1>5. QED
    BY <1>2, <1>4 DEF IInv

LEMMA ResetInv ==
    ASSUME IInv, Reset
    PROVE  IInv'
<1>1. /\ log' \in Seq(Entries)
      /\ \A n \in Nat : Trailing(log', "fail", n) <=> n = 0
    BY RecordingEffect DEF IInv, Entries, Reset, OnReset
<1>2. TypeOK'
    BY <1>1 DEF IInv, TypeOK, Reset, OnReset, States
<1>3. state' = "Closed" /\ consecutiveFailures' = 0
    BY DEF Reset, OnReset
<1>4. BelowThresholds' /\ CountersMatchLog'
    BY <1>1, <1>3, ConfigAssumption DEF BelowThresholds, CountersMatchLog
<1>5. QED
    BY <1>2, <1>4 DEF IInv

\* Steps that move neither the breaker nor its history.
LEMMA QuietInv ==
    ASSUME IInv, UNCHANGED <<cb, log>>, running' \subseteq Callers,
           timeoutElapsed' \in BOOLEAN
    PROVE  IInv'
BY DEF IInv, cb, TypeOK, BelowThresholds, CountersMatchLog

LEMMA NextInv == IInv /\ [Next]_vars => IInv'
<1> SUFFICES ASSUME IInv, [Next]_vars PROVE IInv'
    OBVIOUS
<1>1. ASSUME NEW c \in Callers, Admit(c) PROVE IInv'
    BY <1>1, QuietInv DEF Admit, IInv, TypeOK
<1>2. ASSUME NEW c \in Callers, AdmitProbe(c) PROVE IInv'
    BY <1>2, ProbeInv
<1>3. ASSUME NEW c \in Callers, Fails(c) PROVE IInv'
    BY <1>3, FailureInv DEF Fails, IInv, TypeOK
<1>4. ASSUME NEW c \in Callers, Succeeds(c) PROVE IInv'
    BY <1>4, SuccessInv DEF Succeeds, IInv, TypeOK
<1>5. CASE RecordFailure
    BY <1>5, FailureInv DEF RecordFailure, IInv, TypeOK
<1>6. CASE RecordSuccess
    BY <1>6, SuccessInv DEF RecordSuccess, IInv, TypeOK
<1>7. CASE Reset
    BY <1>7, ResetInv
<1>8. CASE ResetTimeoutElapses
    <2>1. timeoutElapsed' \in BOOLEAN
        BY <1>8 DEF ResetTimeoutElapses
    <2>2. QED
        BY <1>8, <2>1, QuietInv DEF ResetTimeoutElapses, IInv, TypeOK
<1>9. CASE UNCHANGED vars
    BY <1>9, QuietInv DEF vars, IInv, TypeOK
<1>10. QED
    BY <1>1, <1>2, <1>3, <1>4, <1>5, <1>6, <1>7, <1>8, <1>9 DEF Next

LEMMA IInvHolds == Spec => []IInv
BY InitInv, NextInv, PTL DEF Spec

-----------------------------------------------------------------------------
\* Every state of the breaker is well formed, whoever calls it and however late.
THEOREM TypeCorrect == Spec => []TypeOK
BY IInvHolds, PTL DEF IInv

\* The counters never lag behind the state: BelowThresholds for any limits and
\* any number of callers.
THEOREM ThresholdsCorrect == Spec => []BelowThresholds
BY IInvHolds, PTL DEF IInv

\* While the timeout runs an open breaker admits nobody and only a reset ends it.
THEOREM OpenHolds == Spec => OpenHoldsUntilTimeout
<1> DEFINE A == (state = "Open" /\ ~timeoutElapsed) =>
                   /\ running' \subseteq running
                   /\ state' = "Open" \/ Trailing(log', "reset", 1)
<1>1. ASSUME IInv, [Next]_vars PROVE A
    <2> SUFFICES ASSUME state = "Open", ~timeoutElapsed
                 PROVE  /\ running' \subseteq running
                        /\ state' = "Open" \/ Trailing(log', "reset", 1)
        OBVIOUS
    <2>1. CASE Reset
        <3>1. Recording("reset") /\ running' = running /\ 1 \in Nat /\ 1 - 1 = 0
            BY <2>1 DEF Reset, OnReset
        <3>2. \A n \in Nat : Trailing(log', "reset", n) <=>
                             n = 0 \/ Trailing(log, "reset", n - 1)
            BY <1>1, <3>1, RecordingEffect DEF IInv, Entries
        <3>3. Trailing(log, "reset", 0)
            BY <1>1 DEF Trailing, IInv, TypeOK
        <3>4. QED
            BY <3>1, <3>2, <3>3
    <2>2. ASSUME OnFailure \/ OnSuccess PROVE state' = "Open"
        BY <2>2 DEF OnFailure, OnSuccess
    <2>3. ASSUME NEW c \in Callers,
                 Admit(c) \/ AdmitProbe(c) \/ Fails(c) \/ Succeeds(c)
          PROVE  running' \subseteq running /\ state' = "Open"
        BY <2>2, <2>3 DEF Admit, AdmitProbe, Fails, Succeeds
    <2>4. CASE RecordFailure \/ RecordSuccess
        BY <2>2, <2>4 DEF RecordFailure, RecordSuccess
    <2>5. CASE ResetTimeoutElapses \/ UNCHANGED vars
        BY <2>5 DEF ResetTimeoutElapses, vars, cb
    <2>6. QED
        BY <1>1, <2>1, <2>3, <2>4, <2>5 DEF Next
<1>2. QED
    BY IInvHolds, <1>1, PTL DEF Spec, OpenHoldsUntilTimeout

\* The breaker trips on exactly MaxFailures failures in a row and recovers only
\* by SuccessThreshold successes in a row after a probe, or by a reset.
THEOREM TripsExactly == Spec => TripsAndRecoversExactly
<1> DEFINE A == /\ state = "Closed" =>
                      (state' = "Open" <=> log' # log /\ Trailing(log', "fail", MaxFailures))
                /\ (state # "Closed" /\ state' = "Closed") =>
                      \/ Trailing(log', "reset", 1)
                      \/ state = "HalfOpen" /\ Trailing(log', "ok", SuccessThreshold)
<1>1. ASSUME IInv, [Next]_vars PROVE A
    <2>1. ASSUME Recording("fail"), OnFailure PROVE A
        <3>1. log' # log /\ (Trailing(log', "fail", MaxFailures) <=>
                                Trailing(log, "fail", MaxFailures - 1))
            BY <1>1, <2>1, RecordingEffect, ConfigAssumption DEF IInv, Entries
        <3>2. state = "Closed" => (Trailing(log, "fail", MaxFailures - 1) <=>
                                     MaxFailures - 1 <= consecutiveFailures)
            BY <1>1, ConfigAssumption DEF IInv, CountersMatchLog
        <3>3. state = "Closed" => (state' = "Open" <=> consecutiveFailures + 1 >= MaxFailures)
            BY <2>1 DEF OnFailure
        <3>4. state # "Closed" => state' # "Closed"
            BY <2>1 DEF OnFailure
        <3>5. QED
            BY <1>1, <3>1, <3>2, <3>3, <3>4, ConfigAssumption DEF IInv, TypeOK
    <2>2. ASSUME Recording("ok"), OnSuccess PROVE A
        <3>1. ~Trailing(log', "fail", MaxFailures)
            BY <1>1, <2>2, RecordingEffect, ConfigAssumption DEF IInv, Entries
        <3>2. Trailing(log', "ok", SuccessThreshold) <=>
                 Trailing(log, "ok", SuccessThreshold - 1)
            BY <1>1, <2>2, RecordingEffect, ConfigAssumption DEF IInv, Entries
        <3>3. state = "HalfOpen" => (Trailing(log, "ok", SuccessThreshold - 1) <=>
                                       SuccessThreshold - 1 <= consecutiveSuccesses)
            BY <1>1, ConfigAssumption DEF IInv, CountersMatchLog
        <3>4. state = "Closed" => state' = "Closed"
            BY <2>2 DEF OnSuccess
        <3>5. (state # "Closed" /\ state' = "Closed") =>
                 state = "HalfOpen" /\ consecutiveSuccesses + 1 >= SuccessThreshold
            BY <1>1, <2>2 DEF OnSuccess, IInv, TypeOK, States
        <3>6. QED
            BY <1>1, <3>1, <3>2, <3>3, <3>4, <3>5, ConfigAssumption DEF IInv, TypeOK
    <2>3. CASE Reset
        <3>1. Recording("reset") /\ state' = "Closed"
            BY <2>3 DEF Reset, OnReset
        <3>2. \A e \in Entries, n \in Nat : Trailing(log', e, n) <=>
                 n = 0 \/ (e = "reset" /\ Trailing(log, e, n - 1))
            BY <1>1, <3>1, RecordingEffect DEF IInv, Entries
        <3>3. Trailing(log', "reset", 1) <=> Trailing(log, "reset", 0)
            BY <3>2 DEF Entries
        <3>4. Trailing(log, "reset", 0)
            BY <1>1 DEF Trailing, IInv, TypeOK
        <3>5. ~Trailing(log', "fail", MaxFailures)
            BY <3>2, ConfigAssumption DEF Entries
        <3>6. QED
            BY <3>1, <3>3, <3>4, <3>5
    <2>4. ASSUME UNCHANGED <<cb, log>> PROVE A
        BY <2>4 DEF cb
    <2>5. ASSUME NEW c \in Callers, AdmitProbe(c) PROVE A
        BY <2>5 DEF AdmitProbe
    <2>6. QED
        BY <1>1, <2>1, <2>2, <2>3, <2>4, <2>5
           DEF Next, Admit, Fails, Succeeds, RecordFailure, RecordSuccess,
               ResetTimeoutElapses, vars
<1>2. QED
    BY IInvHolds, <1>1, PTL DEF Spec, TripsAndRecoversExactly
=============================================================================
