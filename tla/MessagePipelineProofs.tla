------------------------ MODULE MessagePipelineProofs ------------------------
(***************************************************************************)
(* Three promises of the pipeline, for any messages, workers and failures: *)
(* what is acknowledged was published, a deactivation takes effect, and    *)
(* the history keeps the last move.                                        *)
(*                                                                         *)
(* None is inductive.  The first needs to know, of a message still on its  *)
(* way, what it has been published on so far (Due); the second, that the   *)
(* answer that let it pass was true when it was given (DeviceMappings) and *)
(* still counts; the third, that a worker about to save still holds the    *)
(* history it read (AboutToSave), so that what it saves keeps a place      *)
(* other than the present one (Kept).                                      *)
(***************************************************************************)
EXTENDS MessagePipeline, FiniteSetTheorems, SequenceTheorems, TLAPS

-----------------------------------------------------------------------------
(***************************************************************************)
(* What is known of a device is true, or was until less than the lifetime  *)
(* of a copy ago: for any workers, any statuses and any lifetime.          *)
(*                                                                         *)
(* That a copy is still alive (now < until) says little by itself: it may  *)
(* have been saved by a worker that asked before the device changed.  The  *)
(* invariant adds that an answer on its way to the cache is true or ended  *)
(* at this very time, and that a copy lives no longer than a lifetime      *)
(* after its version ended.                                                *)
(***************************************************************************)
MappingsTypeOK ==
    /\ now \in Nat
    /\ record \in Seq(Statuses)
    /\ ended \in Seq(Nat)
    /\ Len(record) = Len(ended) + 1
    /\ fetched \in [Workers -> Seq(Nat)]

\* An answer on its way is the present one or ended now.
AnswersAreFresh ==
    \A w \in Workers : fetched[w] # <<>> =>
        /\ fetched[w][1] \in 1 .. Len(record)
        /\ fetched[w][1] # Len(record) => ended[fetched[w][1]] = now

CopiesExpire ==
    cache # <<>> =>
        /\ cache[1].version \in 1 .. Len(record)
        /\ cache[1].until \in Nat
        /\ now < cache[1].until /\ cache[1].until <= now + DefaultCacheTTL
        /\ cache[1].version # Len(record) =>
               cache[1].until <= ended[cache[1].version] + DefaultCacheTTL

MappingsInv == MappingsTypeOK /\ AnswersAreFresh /\ CopiesExpire

\* The invariant holds at first: nothing is known (MappingsInit).
LEMMA MappingsInitInv == MappingsInit => MappingsInv
  <1> SUFFICES ASSUME MappingsInit PROVE MappingsInv
    OBVIOUS
  <1> USE DEF MappingsInit
  <1>1. PICK status \in Statuses : record = <<status>>
    OBVIOUS
  <1>2. MappingsTypeOK
    BY <1>1 DEF MappingsTypeOK
  <1>3. AnswersAreFresh /\ CopiesExpire
    BY DEF AnswersAreFresh, CopiesExpire
  <1> QED
    BY <1>2, <1>3 DEF MappingsInv

\* A change of the device ends the present version now (Change).
LEMMA ChangeInv ==
    ASSUME MappingsInv, NEW status \in Statuses, Change(status)
    PROVE  MappingsInv'
  <1> USE DEF Change, MappingsInv, MappingsTypeOK
  <1>1. MappingsTypeOK'
    OBVIOUS
  <1>2. /\ Len(record') = Len(record) + 1 /\ ended'[Len(record)] = now
        /\ \A v \in 1 .. Len(record) - 1 : ended'[v] = ended[v]
    OBVIOUS
  <1>3. AnswersAreFresh'
    BY <1>2 DEF AnswersAreFresh
  <1>4. CopiesExpire'
    BY <1>2, CacheAssumption DEF CopiesExpire
  <1> QED
    BY <1>1, <1>3, <1>4

\* A copy whose time is over is gone (TimePasses).
LEMMA TimePassesInv ==
    ASSUME MappingsInv, TimePasses
    PROVE  MappingsInv'
  <1> USE DEF TimePasses, MappingsInv, MappingsTypeOK
  <1>1. MappingsTypeOK'
    OBVIOUS
  <1>2. AnswersAreFresh'
    BY DEF AnswersAreFresh
  <1>3. CopiesExpire'
    BY CacheAssumption DEF CopiesExpire
  <1> QED
    BY <1>1, <1>2, <1>3

\* The device service answers with the present version (lookupViaDeviceService).
LEMMA LookupInv ==
    ASSUME MappingsInv, NEW w \in Workers, lookupViaDeviceService(w)
    PROVE  MappingsInv'
  <1> USE DEF lookupViaDeviceService, MappingsInv, MappingsTypeOK
  <1>1. MappingsTypeOK'
    OBVIOUS
  <1>2. AnswersAreFresh'
    <2>1. fetched'[w] = <<Len(record)>> /\ \A v \in Workers \ {w} : fetched'[v] = fetched[v]
      OBVIOUS
    <2>2. Len(record) \in 1 .. Len(record)
      OBVIOUS
    <2> QED
      BY <2>1, <2>2 DEF AnswersAreFresh
  <1>3. CopiesExpire'
    BY DEF CopiesExpire
  <1> QED
    BY <1>1, <1>2, <1>3

\* An answer is saved at the time it was given (saveToCache).
LEMMA SaveInv ==
    ASSUME MappingsInv, NEW w \in Workers, NEW kept \in BOOLEAN, saveToCache(w, kept)
    PROVE  MappingsInv'
  <1> USE DEF saveToCache, MappingsInv, MappingsTypeOK
  <1>1. MappingsTypeOK'
    OBVIOUS
  <1>2. AnswersAreFresh'
    <2>1. fetched'[w] = <<>> /\ \A v \in Workers \ {w} : fetched'[v] = fetched[v]
      OBVIOUS
    <2> QED
      BY <2>1 DEF AnswersAreFresh
  <1>3. CopiesExpire'
    <2>1. CASE kept
      <3>1. /\ cache'[1].version = fetched[w][1]
            /\ cache'[1].until = now + DefaultCacheTTL
        BY <2>1
      <3>2. /\ fetched[w][1] \in 1 .. Len(record)
            /\ fetched[w][1] # Len(record) => ended[fetched[w][1]] = now
        BY DEF AnswersAreFresh
      <3> QED
        BY <3>1, <3>2, CacheAssumption DEF CopiesExpire
    <2>2. CASE ~kept
      BY <2>2 DEF CopiesExpire
    <2> QED
      BY <2>1, <2>2
  <1> QED
    BY <1>1, <1>2, <1>3

LEMMA MappingsStepInv == MappingsInv /\ [MappingsNext]_mappingVars => MappingsInv'
  <1> SUFFICES ASSUME MappingsInv, [MappingsNext]_mappingVars PROVE MappingsInv'
    OBVIOUS
  <1>1. ASSUME NEW status \in Statuses, Change(status) PROVE MappingsInv'
    BY <1>1, ChangeInv
  <1>2. CASE TimePasses
    BY <1>2, TimePassesInv
  <1>3. CASE UNCHANGED mappingVars
    BY <1>3 DEF mappingVars, MappingsInv, MappingsTypeOK, AnswersAreFresh, CopiesExpire
  <1>4. ASSUME NEW w \in Workers, lookupViaDeviceService(w) PROVE MappingsInv'
    BY <1>4, LookupInv
  <1>5. ASSUME NEW w \in Workers, NEW kept \in BOOLEAN, saveToCache(w, kept) PROVE MappingsInv'
    BY <1>5, SaveInv
  <1>6. CASE Restart
    BY <1>6 DEF Restart, MappingsInv, MappingsTypeOK, AnswersAreFresh, CopiesExpire
  <1> QED
    BY <1>1, <1>2, <1>3, <1>4, <1>5, <1>6 DEF MappingsNext, getFromCache

\* A copy in the cache was true less than its lifetime ago, however the lookups of
\* the workers and the changes of the device interleave (getMapping).
THEOREM CopiesAreRecent == MappingsSpec => []NoCopyOutlivesItsTime
  <1>1. MappingsInv => NoCopyOutlivesItsTime
    BY CacheAssumption
    DEF MappingsInv, MappingsTypeOK, CopiesExpire, NoCopyOutlivesItsTime
  <1> QED
    BY <1>1, MappingsInitInv, MappingsStepInv, PTL DEF MappingsSpec

-----------------------------------------------------------------------------

allVars == <<pipeVars, mappingVars>>

\* The steps a message can come to.
OnPath(m, step) ==
    \/ step = "ack"
    \/ Kind[m] = "event" /\ step \in {"screen", "event?", "address", "event"}
    \/ Kind[m] = "api" /\ step \in {"api", "telemetry", "entity"}
    \/ Kind[m] = "uplink" /\ step \in {"screen", "skip?", "deactivated?", "profile",
                                       "telemetry_log", "broker_log"}
    \/ /\ Kind[m] = "uplink" /\ Place[m] # "unplaced"
       /\ step \in {"identify", "transformed", "entities", "telemetry", "entity"}
    \/ Kind[m] = "uplink" /\ Place[m] \in Positions /\ step \in {"read", "save"}

\* The topics that come before a step.
Precedes(topic, step) ==
    \/ step = "ack"
    \/ topic = "transformed" /\ step \in {"entities", "telemetry"}
    \/ topic \in {"transformed", "telemetry"} /\ step = "entity"
    \/ topic \in {"transformed", "telemetry", "entity"} /\ step = "telemetry_log"
    \/ topic # "broker_log" /\ step = "broker_log"

\* What a message has been published on when it comes to a step, if all went well.
Due(m, step) == {topic \in Topics(m) : Precedes(topic, step)}

Told(m, topic) == [message |-> m, topic |-> topic] \in told
AlwaysAssigned == \A v \in DOMAIN record : record[v] = "assigned"

PipeTypeOK ==
    /\ at \in [Workers -> Steps] /\ open \in [Workers -> BOOLEAN]
    /\ message \in [Workers -> Messages \cup {0}]
    /\ queue \in Seq(Messages)
    /\ blind \in [Workers -> BOOLEAN] /\ since \in [Workers -> Nat]

OnItsWay(w) ==
    /\ since[w] <= now
    /\ open[w] => at[w] \notin Off
    /\ at[w] \notin Idle => message[w] \in Messages /\ OnPath(message[w], at[w])

PublishedSoFar(w) ==
    AlwaysAssigned /\ open[w] /\ ~blind[w] /\ at[w] \notin Idle =>
        \A topic \in Due(message[w], at[w]) : Told(message[w], topic)

\* The steps of a message of a network server that only follow the question
\* whether its device is deactivated.
PastTheCheck == {"address", "profile", "read", "save", "identify", "entities"} \cup Publishing

\* A version that was no deactivation counts for the message of the worker.
Counts(v, w) ==
    /\ record[v] # "deactivated"
    /\ v = Len(record) \/ since[w] < ended[v] + DefaultCacheTTL

CheckCounts(w) ==
    at[w] \in PastTheCheck /\ ~blind[w] /\ Kind[message[w]] # "api" =>
        \E v \in DOMAIN record : Counts(v, w)

Sound(w) == OnItsWay(w) /\ PublishedSoFar(w) /\ CheckCounts(w)

PipeInv ==
    /\ MappingsInv /\ PipeTypeOK
    /\ \A w \in Workers : Sound(w)
    /\ AckedIsAccountedFor

-----------------------------------------------------------------------------
\* Whatever a worker does with the mapping of the device is one of the steps of
\* module DeviceMappings.
LEMMA MappingStep == [PipelineNext]_allVars => [MappingsNext]_mappingVars
  <1> SUFFICES ASSUME [PipelineNext]_allVars PROVE [MappingsNext]_mappingVars
    OBVIOUS
  <1>1. ASSUME NEW w \in Workers, Work(w) PROVE [MappingsNext]_mappingVars
    BY <1>1, Zenon DEF Work, Take, FindCopy, AskService, NoAnswer, KeepCopy, ReadHistory,
        SaveHistory, Publish, Ack, Subscribe, MappingsNext
  <1>2. ASSUME NEW w \in Workers, ChannelCloses(w) PROVE [MappingsNext]_mappingVars
    BY <1>2, Zenon DEF ChannelCloses
  <1>3. CASE Crash \/ HistoryExpires \/ DeviceChanges \/ Hour
    BY <1>3, Zenon DEF Crash, HistoryExpires, DeviceChanges, Hour, MappingsNext, mappingVars
  <1>4. CASE UNCHANGED allVars
    BY <1>4, Zenon DEF allVars
  <1> QED
    BY <1>1, <1>2, <1>3, <1>4, Zenon DEF PipelineNext

LEMMA AnswerStays ==
    ASSUME NEW m \in Messages, NEW step \in Asking, OnPath(m, step), NEW status
    PROVE  /\ OnPath(m, AfterAnswer(m, step, status))
           /\ AfterAnswer(m, step, status) \in Steps \ Idle
  BY MessagesAssumption
  DEF AfterAnswer, OnPath, Asking, Steps, Publishing, Idle, Off, Deactivated, Positions

LEMMA PublishStays ==
    ASSUME NEW m \in Messages, NEW topic \in Publishing, OnPath(m, topic), NEW ok \in BOOLEAN
    PROVE  /\ OnPath(m, AfterPublish(m, topic, ok))
           /\ AfterPublish(m, topic, ok) \in Steps \ Idle
  BY MessagesAssumption DEF AfterPublish, OnPath, Asking, Steps, Publishing, Idle, Off

\* An assigned device gives no message leave to skip a topic.
LEMMA AnswerOwesNothing ==
    ASSUME NEW m \in Messages, NEW step \in Asking, OnPath(m, step)
    PROVE  Due(m, AfterAnswer(m, step, "assigned")) \subseteq Due(m, step)
  BY MessagesAssumption
  DEF AfterAnswer, OnPath, Asking, Publishing, Due, Precedes, Topics, Deactivated

\* A topic published on is the only one that is due anew.
LEMMA PublishOwesNothing ==
    ASSUME NEW m \in Messages, NEW topic \in Publishing, OnPath(m, topic)
    PROVE  Due(m, AfterPublish(m, topic, TRUE)) \subseteq Due(m, topic) \cup {topic}
  BY MessagesAssumption DEF AfterPublish, OnPath, Publishing, Due, Precedes, Topics

\* Of a device that is not deactivated.
LEMMA OnlyTheCheckLetsPass ==
    ASSUME NEW m \in Messages, NEW step \in Asking, OnPath(m, step), NEW status,
           Kind[m] # "api", step \notin PastTheCheck,
           AfterAnswer(m, step, status) \in PastTheCheck
    PROVE  status # "deactivated"
  BY MessagesAssumption
  DEF AfterAnswer, OnPath, Asking, Publishing, PastTheCheck, Deactivated

-----------------------------------------------------------------------------
\* What was said of the device stays said, and time does not run back.
LEMMA RecordGrows ==
    ASSUME MappingsInv, [MappingsNext]_mappingVars
    PROVE  /\ now <= now'
           /\ \A v \in DOMAIN record : v \in DOMAIN record' /\ record'[v] = record[v]
  <1> USE DEF MappingsInv, MappingsTypeOK
  <1>1. ASSUME NEW status \in Statuses, Change(status)
        PROVE  now' = now /\ record' = Append(record, status)
    BY <1>1 DEF Change
  <1>2. CASE TimePasses
    BY <1>2 DEF TimePasses
  <1>3. CASE \/ getFromCache \/ Restart \/ UNCHANGED mappingVars
             \/ \E w \in Workers : \/ lookupViaDeviceService(w)
                                    \/ \E kept \in BOOLEAN : saveToCache(w, kept)
    <2>1. UNCHANGED <<record, now>>
      BY <1>3, Zenon DEF getFromCache, Restart, mappingVars, lookupViaDeviceService, saveToCache
    <2> QED
      BY <2>1
  <1>4. ASSUME NEW status \in Statuses, Change(status)
        PROVE  /\ now <= now'
               /\ \A v \in DOMAIN record : v \in DOMAIN record' /\ record'[v] = record[v]
    BY <1>1, <1>4
  <1> QED
    BY <1>2, <1>3, <1>4 DEF MappingsNext

\* A version that counts for a message counts as long as the message is handled.
LEMMA CountsOn ==
    ASSUME MappingsInv, [MappingsNext]_mappingVars, NEW w \in Workers, since[w] \in Nat,
           since[w] <= now, since'[w] = since[w], NEW v \in DOMAIN record, Counts(v, w)
    PROVE  v \in DOMAIN record' /\ Counts(v, w)'
  <1> USE DEF MappingsInv, MappingsTypeOK, Counts
  <1>1. ASSUME NEW status \in Statuses, Change(status)
        PROVE  v \in DOMAIN record' /\ Counts(v, w)'
    <2>1. /\ Len(record') = Len(record) + 1 /\ ended'[Len(record)] = now
          /\ \A u \in 1 .. Len(record) - 1 : ended'[u] = ended[u]
      BY <1>1 DEF Change
    <2>2. v \in DOMAIN record' /\ record'[v] = record[v] /\ record'[v] # "deactivated"
      BY <1>1 DEF Change
    <2>3. v \in 1 .. Len(record) /\ now \in Nat /\ Len(record) \in Nat
      OBVIOUS
    <2>4. since'[w] < ended'[v] + DefaultCacheTTL
      <3>1. CASE v = Len(record)
        BY <2>1, <2>3, <3>1, CacheAssumption
      <3>2. CASE v # Len(record)
        <4>1. v \in 1 .. Len(record) - 1
          BY <2>3, <3>2
        <4>2. since[w] < ended[v] + DefaultCacheTTL
          BY <3>2, Zenon
        <4> QED
          BY <2>1, <4>1, <4>2
      <3> QED
        BY <3>1, <3>2
    <2> QED
      BY <2>2, <2>4
  <1>2. CASE TimePasses
    BY <1>2 DEF TimePasses
  <1>3. CASE \/ getFromCache \/ Restart \/ UNCHANGED mappingVars
             \/ \E u \in Workers : \/ lookupViaDeviceService(u)
                                    \/ \E kept \in BOOLEAN : saveToCache(u, kept)
    <2>1. UNCHANGED <<record, ended>>
      BY <1>3, Zenon DEF getFromCache, Restart, mappingVars, lookupViaDeviceService, saveToCache
    <2> QED
      BY <2>1
  <1> QED
    BY <1>1, <1>2, <1>3 DEF MappingsNext

\* A worker that takes no step stays sound, whatever the others do.
LEMMA Bystander ==
    ASSUME PipeInv, [MappingsNext]_mappingVars, NEW v \in Workers,
           at'[v] = at[v], message'[v] = message[v], blind'[v] = blind[v],
           since'[v] = since[v], open'[v] => open[v], told \subseteq told'
    PROVE  Sound(v)'
  <1>1. now <= now' /\ \A u \in DOMAIN record : u \in DOMAIN record' /\ record'[u] = record[u]
    BY RecordGrows DEF PipeInv
  <1>2. Sound(v) /\ since[v] \in Nat /\ now \in Nat /\ MappingsInv
    BY DEF PipeInv, PipeTypeOK, MappingsInv, MappingsTypeOK
  <1>3. now' \in Nat
    BY <1>2, MappingsStepInv DEF MappingsInv, MappingsTypeOK
  <1>4. OnItsWay(v)'
    BY <1>1, <1>2, <1>3 DEF Sound, OnItsWay, OnPath
  <1>5. PublishedSoFar(v)'
    <2>1. AlwaysAssigned' => AlwaysAssigned
      BY <1>1 DEF AlwaysAssigned
    <2> QED
      BY <1>2, <2>1 DEF Sound, PublishedSoFar, Due, Told, Topics, Precedes
  <1>6. CheckCounts(v)'
    <2>1. ASSUME NEW u \in DOMAIN record, Counts(u, v)
          PROVE  u \in DOMAIN record' /\ Counts(u, v)'
      BY <1>2, <2>1, CountsOn DEF Sound, OnItsWay
    <2> QED
      BY <1>2, <2>1 DEF Sound, CheckCounts
  <1> QED
    BY <1>4, <1>5, <1>6 DEF Sound


-----------------------------------------------------------------------------
\* A step that changes nothing of the other workers, or of what was acknowledged,
\* need only keep the types and its own worker sound.
OnlyTouches(w) ==
    /\ \A v \in Workers \ {w} :
          /\ at'[v] = at[v] /\ message'[v] = message[v] /\ blind'[v] = blind[v]
          /\ since'[v] = since[v] /\ (open'[v] => open[v])
    /\ told \subseteq told'

LEMMA OthersStaySound ==
    ASSUME PipeInv, [MappingsNext]_mappingVars, NEW w \in Workers, OnlyTouches(w), Sound(w)'
    PROVE  \A v \in Workers : Sound(v)'
  <1> SUFFICES ASSUME NEW v \in Workers PROVE Sound(v)'
    OBVIOUS
  <1>1. CASE v = w
    BY <1>1
  <1>2. CASE v # w
    BY <1>2, Bystander DEF OnlyTouches
  <1> QED
    BY <1>1, <1>2

LEMMA AckedStays ==
    ASSUME PipeInv, [MappingsNext]_mappingVars, acked' = acked, told \subseteq told',
           blindly \subseteq blindly'
    PROVE  AckedIsAccountedFor'
  <1>1. \A v \in DOMAIN record : v \in DOMAIN record' /\ record'[v] = record[v]
    BY RecordGrows DEF PipeInv
  <1> QED
    BY <1>1 DEF PipeInv, AckedIsAccountedFor, Topics

LEMMA StepStays ==
    ASSUME PipeInv, [MappingsNext]_mappingVars, NEW w \in Workers, OnlyTouches(w),
           Sound(w)', PipeTypeOK', acked' = acked, blindly' = blindly
    PROVE  PipeInv'
  BY OthersStaySound, AckedStays, MappingsStepInv DEF PipeInv, OnlyTouches

\* An answer about the device is one that counts, or none (Answered).
CountsNow(status) ==
    \E v \in DOMAIN record :
        status = record[v] /\ (v = Len(record) \/ now < ended[v] + DefaultCacheTTL)

LEMMA AnsweredInv ==
    ASSUME PipeInv, [MappingsNext]_mappingVars, UNCHANGED <<record, ended, now>>,
           NEW w \in Workers, at[w] \in Asking, NEW status, Answered(w, status),
           status = "none" \/ CountsNow(status)
    PROVE  PipeInv'
  <1> DEFINE m == message[w]
             next == AfterAnswer(m, at[w], status)
  <1>1. /\ at' = [at EXCEPT ![w] = next]
        /\ blind' = [blind EXCEPT ![w] = @ \/ status = "none"]
        /\ UNCHANGED <<queue, message, open, told, acked, since, blindly>>
    BY Zenon DEF Answered, To, workVars
  <1>2. PipeTypeOK /\ Sound(w) /\ MappingsInv
    BY DEF PipeInv
  <1>3. at[w] \notin Idle
    BY DEF Asking, Idle, Off
  <1>4. m \in Messages /\ OnPath(m, at[w]) /\ since[w] <= now
    BY <1>2, <1>3 DEF Sound, OnItsWay
  <1>5. OnPath(m, next) /\ next \in Steps \ Idle
    BY <1>4, AnswerStays
  <1>6. at'[w] = next /\ at' \in [Workers -> Steps]
    BY <1>1, <1>2, <1>5 DEF PipeTypeOK
  <1>7. blind' \in [Workers -> BOOLEAN]
    BY <1>1, <1>2, Zenon DEF PipeTypeOK
  <1>8. ~blind'[w] => ~blind[w] /\ CountsNow(status)
    BY <1>1, <1>2, Zenon DEF PipeTypeOK
  <1>9. PipeTypeOK'
    BY <1>1, <1>2, <1>6, <1>7 DEF PipeTypeOK
  <1>10. OnItsWay(w)'
    BY <1>1, <1>4, <1>5, <1>6 DEF OnItsWay, OnPath, Idle
  <1>11. PublishedSoFar(w)'
    <2> SUFFICES ASSUME AlwaysAssigned', open'[w], ~blind'[w]
                 PROVE  \A topic \in Due(m, next) : Told(m, topic)
      BY <1>1, <1>6 DEF PublishedSoFar, Due, Topics, Precedes, Told
    <2>1. AlwaysAssigned /\ open[w] /\ ~blind[w] /\ status = "assigned"
      BY <1>1, <1>8 DEF AlwaysAssigned, CountsNow
    <2> QED
      BY <1>2, <1>3, <1>4, <2>1, AnswerOwesNothing DEF Sound, PublishedSoFar
  <1>12. CheckCounts(w)'
    <2> SUFFICES ASSUME next \in PastTheCheck, ~blind'[w], Kind[m] # "api"
                 PROVE  \E v \in DOMAIN record : Counts(v, w)
      BY <1>1, <1>6 DEF CheckCounts, Counts, PastTheCheck
    <2>1. CASE at[w] \in PastTheCheck
      BY <1>2, <1>8, <2>1 DEF Sound, CheckCounts
    <2>2. CASE at[w] \notin PastTheCheck
      <3>1. status # "deactivated"
        BY <1>4, <2>2, OnlyTheCheckLetsPass
      <3>2. PICK v \in DOMAIN record :
                status = record[v] /\ (v = Len(record) \/ now < ended[v] + DefaultCacheTTL)
        BY <1>8 DEF CountsNow
      <3>3. v = Len(record) \/ since[w] < ended[v] + DefaultCacheTTL
        <4>1. CASE v = Len(record)
          BY <4>1
        <4>2. CASE v # Len(record)
          <5>1. ended[v] \in Nat
            BY <1>2, <3>2, <4>2 DEF MappingsInv, MappingsTypeOK
          <5>2. since[w] \in Nat /\ now \in Nat
            BY <1>2 DEF PipeTypeOK, MappingsInv, MappingsTypeOK
          <5> QED
            BY <1>4, <3>2, <4>2, <5>1, <5>2, CacheAssumption
        <4> QED
          BY <4>1, <4>2
      <3> QED
        BY <3>1, <3>2, <3>3 DEF Counts
    <2> QED
      BY <2>1, <2>2
  <1>13. OnlyTouches(w)
    BY <1>1, <1>2 DEF OnlyTouches, PipeTypeOK
  <1> QED
    BY <1>1, <1>9, <1>10, <1>11, <1>12, <1>13, StepStays DEF Sound

LEMMA FindCopyInv ==
    ASSUME PipeInv, NEW w \in Workers, FindCopy(w), [MappingsNext]_mappingVars
    PROVE  PipeInv'
  <1>1. /\ at[w] \in Asking /\ cache # <<>> /\ UNCHANGED mappingVars
        /\ Answered(w, record[cache[1].version])
    BY Zenon DEF FindCopy, getFromCache
  <1> DEFINE v == cache[1].version
  <1>2. v \in 1 .. Len(record) /\ v \in DOMAIN record
    BY <1>1 DEF PipeInv, MappingsInv, MappingsTypeOK, CopiesExpire
  <1>3. v = Len(record) \/ now < ended[v] + DefaultCacheTTL
    <2> SUFFICES ASSUME v # Len(record) PROVE now < ended[v] + DefaultCacheTTL
      OBVIOUS
    <2>1. ended[v] \in Nat /\ now \in Nat
      BY <1>2 DEF PipeInv, MappingsInv, MappingsTypeOK
    <2> HIDE DEF v
    <2>2. PICK until \in Nat : now < until /\ until <= ended[v] + DefaultCacheTTL
      BY <1>1 DEF PipeInv, MappingsInv, CopiesExpire, v
    <2> QED
      BY <2>1, <2>2, CacheAssumption
  <1>4. CountsNow(record[v])
    BY <1>2, <1>3 DEF CountsNow
  <1> QED
    BY <1>1, <1>4, AnsweredInv DEF mappingVars

LEMMA AskServiceInv ==
    ASSUME PipeInv, NEW w \in Workers, AskService(w), [MappingsNext]_mappingVars
    PROVE  PipeInv'
  <1>1. /\ at[w] \in Asking /\ UNCHANGED <<record, ended, now>>
        /\ Answered(w, record[Len(record)])
    BY Zenon DEF AskService, lookupViaDeviceService
  <1>2. CountsNow(record[Len(record)])
    BY DEF PipeInv, MappingsInv, MappingsTypeOK, CountsNow
  <1> QED
    BY <1>1, <1>2, AnsweredInv

LEMMA NoAnswerInv ==
    ASSUME PipeInv, NEW w \in Workers, NoAnswer(w), [MappingsNext]_mappingVars
    PROVE  PipeInv'
  <1>1. at[w] \in Asking /\ UNCHANGED mappingVars /\ Answered(w, "none")
    BY Zenon DEF NoAnswer
  <1> QED
    BY <1>1, AnsweredInv DEF mappingVars

-----------------------------------------------------------------------------
\* A message that is taken has come to its first step: nothing is due yet.
LEMMA TakeInv ==
    ASSUME PipeInv, NEW w \in Workers, Take(w), [MappingsNext]_mappingVars
    PROVE  PipeInv'
  <1> DEFINE m == Head(queue)
             first == IF Kind[m] = "api" THEN "api" ELSE "screen"
  <1>1. PipeTypeOK /\ MappingsInv /\ now \in Nat
    BY DEF PipeInv, MappingsInv, MappingsTypeOK
  <1>2. /\ queue # <<>> /\ queue' = Tail(queue)
        /\ message' = [message EXCEPT ![w] = m] /\ at' = [at EXCEPT ![w] = first]
        /\ blind' = [blind EXCEPT ![w] = FALSE] /\ since' = [since EXCEPT ![w] = now]
        /\ UNCHANGED <<open, told, acked, blindly, mappingVars>>
    BY Zenon DEF Take, To
  <1>3. m \in Messages /\ queue' \in Seq(Messages)
    BY <1>1, <1>2 DEF PipeTypeOK
  <1>4. first \in {"api", "screen"} /\ OnPath(m, first) /\ Due(m, first) = {}
    BY <1>3, MessagesAssumption DEF OnPath, Due, Precedes, Topics
  <1>5. message'[w] = m /\ at'[w] = first /\ since'[w] = now /\ now' = now
    BY <1>1, <1>2, <1>4 DEF PipeTypeOK, mappingVars
  <1>6. PipeTypeOK'
    BY <1>1, <1>2, <1>3, <1>4 DEF PipeTypeOK, Steps, Asking
  <1>7. OnItsWay(w)'
    BY <1>1, <1>3, <1>4, <1>5 DEF OnItsWay, OnPath, Off
  <1>8. PublishedSoFar(w)'
    BY <1>4, <1>5 DEF PublishedSoFar, Due, Topics, Precedes
  <1>9. CheckCounts(w)'
    BY <1>3, <1>4, <1>5 DEF CheckCounts, PastTheCheck, Publishing
  <1>10. OnlyTouches(w)
    BY <1>1, <1>2 DEF OnlyTouches, PipeTypeOK
  <1> QED
    BY <1>2, <1>6, <1>7, <1>8, <1>9, <1>10, StepStays DEF Sound

\* An answer is saved: no worker moves (KeepCopy); likewise when a day or an hour
\* passes, or the device changes.
LEMMA NobodyMoves ==
    ASSUME PipeInv, [MappingsNext]_mappingVars,
           UNCHANGED <<queue, at, message, open, told, acked, blind, since, blindly>>
    PROVE  PipeInv'
  <1>1. \A w \in Workers : Sound(w)'
    BY Bystander
  <1> QED
    BY <1>1, AckedStays, MappingsStepInv DEF PipeInv, PipeTypeOK

\* Reading or saving the history, a message owes nothing yet (ReadHistory, SaveHistory).
LEMMA HistoryInv ==
    ASSUME PipeInv, [MappingsNext]_mappingVars, NEW w \in Workers, at[w] \in {"read", "save"},
           NEW next \in {"save", "identify"}, To(w, next),
           UNCHANGED <<queue, message, open, told, acked, blind, since, blindly, mappingVars>>
    PROVE  PipeInv'
  <1> DEFINE m == message[w]
  <1>1. PipeTypeOK /\ Sound(w)
    BY DEF PipeInv
  <1>2. m \in Messages /\ OnPath(m, at[w]) /\ since[w] <= now
    BY <1>1 DEF Sound, OnItsWay, Idle, Off
  <1>3. OnPath(m, next) /\ Due(m, next) = {}
    BY <1>2, MessagesAssumption DEF OnPath, Due, Precedes, Positions
  <1>4. at' = [at EXCEPT ![w] = next] /\ at'[w] = next
    BY <1>1 DEF To, PipeTypeOK
  <1>5. PipeTypeOK'
    BY <1>1, <1>4 DEF PipeTypeOK, Steps, Asking
  <1>6. OnItsWay(w)'
    BY <1>2, <1>3, <1>4 DEF OnItsWay, OnPath, Off, mappingVars
  <1>7. PublishedSoFar(w)'
    BY <1>3, <1>4 DEF PublishedSoFar, Due, Topics, Precedes
  <1>8. CheckCounts(w)'
    BY <1>1, <1>4 DEF Sound, CheckCounts, PastTheCheck, Counts, mappingVars
  <1>9. OnlyTouches(w)
    BY <1>1, <1>4 DEF OnlyTouches, PipeTypeOK
  <1> QED
    BY <1>5, <1>6, <1>7, <1>8, <1>9, StepStays DEF Sound

LEMMA PublishInv ==
    ASSUME PipeInv, NEW w \in Workers, Publish(w), [MappingsNext]_mappingVars
    PROVE  PipeInv'
  <1> DEFINE m == message[w]
             next == AfterPublish(m, at[w], open[w])
  <1>1. /\ at[w] \in Publishing /\ at' = [at EXCEPT ![w] = next]
        /\ told' = IF open[w] THEN told \cup {[message |-> m, topic |-> at[w]]} ELSE told
        /\ UNCHANGED <<queue, message, open, acked, blind, since, blindly, mappingVars>>
    BY Zenon DEF Publish, To
  <1>2. PipeTypeOK /\ Sound(w) /\ open[w] \in BOOLEAN
    BY DEF PipeInv, PipeTypeOK
  <1>3. m \in Messages /\ OnPath(m, at[w]) /\ since[w] <= now /\ at[w] \notin Idle
    BY <1>1, <1>2 DEF Sound, OnItsWay, Idle, Off, Publishing
  <1>4. OnPath(m, next) /\ next \in Steps \ Idle
    BY <1>1, <1>2, <1>3, PublishStays
  <1>5. at'[w] = next /\ told \subseteq told'
    BY <1>1, <1>2 DEF PipeTypeOK
  <1>6. PipeTypeOK'
    BY <1>1, <1>2, <1>4 DEF PipeTypeOK
  <1>7. OnItsWay(w)'
    BY <1>1, <1>3, <1>4, <1>5 DEF OnItsWay, OnPath, Idle, mappingVars
  <1>8. PublishedSoFar(w)'
    <2> SUFFICES ASSUME AlwaysAssigned, open[w], ~blind[w], NEW topic \in Due(m, next)
                 PROVE  Told(m, topic)'
      BY <1>1, <1>5 DEF PublishedSoFar, Due, Topics, Precedes, Told, AlwaysAssigned, mappingVars
    <2>1. open[w] = TRUE
      BY <1>2
    <2>2. topic \in Due(m, at[w]) \cup {at[w]}
      BY <1>1, <1>3, <2>1, PublishOwesNothing
    <2>3. CASE topic = at[w]
      BY <1>1, <2>3 DEF Told
    <2>4. CASE topic \in Due(m, at[w])
      BY <1>1, <1>2, <1>3, <1>5, <2>4 DEF Sound, PublishedSoFar, Told
    <2> QED
      BY <2>2, <2>3, <2>4
  <1>9. CheckCounts(w)'
    BY <1>1, <1>2 DEF Sound, CheckCounts, PastTheCheck, Counts, mappingVars
  <1>10. OnlyTouches(w)
    BY <1>1, <1>2, <1>5 DEF OnlyTouches, PipeTypeOK
  <1> QED
    BY <1>1, <1>6, <1>7, <1>8, <1>9, <1>10, StepStays DEF Sound

\* What is acknowledged has been published on all that was due.
LEMMA AckInv ==
    ASSUME PipeInv, NEW w \in Workers, Ack(w), [MappingsNext]_mappingVars
    PROVE  PipeInv'
  <1> DEFINE m == message[w]
             next == IF open[w] THEN "idle" ELSE "ended"
  <1>1. /\ at[w] = "ack" /\ at' = [at EXCEPT ![w] = next]
        /\ acked' = IF open[w] THEN acked \cup {m} ELSE acked
        /\ blindly' = IF open[w] /\ blind[w] THEN blindly \cup {m} ELSE blindly
        /\ UNCHANGED <<queue, message, open, told, blind, since, mappingVars>>
    BY Zenon DEF Ack, To
  <1>2. PipeTypeOK /\ Sound(w)
    BY DEF PipeInv
  <1>3. at'[w] = next /\ next \in Idle /\ (open[w] => next = "idle")
    BY <1>1, <1>2 DEF PipeTypeOK, Idle, Off
  <1>4. PipeTypeOK'
    BY <1>1, <1>2, <1>3 DEF PipeTypeOK, Steps
  <1>5. Sound(w)'
    BY <1>1, <1>2, <1>3
    DEF Sound, OnItsWay, PublishedSoFar, CheckCounts, PastTheCheck, Publishing, Idle, Off,
        mappingVars
  <1>6. OnlyTouches(w)
    BY <1>1, <1>2 DEF OnlyTouches, PipeTypeOK
  <1>7. AckedIsAccountedFor'
    <2> SUFFICES ASSUME NEW n \in acked', n \notin blindly', AlwaysAssigned
                 PROVE  \A topic \in Topics(n) : Told(n, topic)
      BY <1>1 DEF AckedIsAccountedFor, Topics, Told, AlwaysAssigned, mappingVars
    <2>1. CASE n \in acked
      <3>1. n \notin blindly
        BY <1>1
      <3> QED
        BY <2>1, <3>1 DEF PipeInv, AckedIsAccountedFor, AlwaysAssigned, Told
    <2>2. CASE n \notin acked
      <3>1. n = m /\ open[w] /\ ~blind[w]
        BY <1>1, <2>2
      <3>2. \A topic \in Due(m, "ack") : Told(m, topic)
        BY <1>1, <1>2, <3>1 DEF Sound, PublishedSoFar, Idle, Off
      <3> QED
        BY <3>1, <3>2 DEF Due, Precedes
    <2> QED
      BY <2>1, <2>2
  <1> QED
    BY <1>4, <1>5, <1>6, <1>7, OthersStaySound, MappingsStepInv DEF PipeInv

\* What is put back is a message.
LEMMA RequeueStays ==
    ASSUME PipeInv, Requeue
    PROVE  queue' \in Seq(Messages)
  <1> DEFINE held == {w \in Workers : open[w] /\ at[w] # "idle"}
  <1>1. queue \in Seq(Messages)
    BY DEF PipeInv, PipeTypeOK
  <1>2. ASSUME NEW w \in held PROVE message[w] \in Messages
    BY DEF PipeInv, Sound, OnItsWay, Idle
  <1>3. CASE held = {}
    BY <1>1, <1>3 DEF Requeue
  <1>4. CASE held # {}
    <2>1. (CHOOSE w \in held : TRUE) \in held
      BY <1>4
    <2> HIDE DEF held
    <2>2. message[CHOOSE w \in held : TRUE] \in Messages
      BY <1>2, <2>1
    <2> QED
      BY <1>1, <1>4, <2>2 DEF Requeue, held
  <1> QED
    BY <1>3, <1>4

LEMMA ChannelClosesInv ==
    ASSUME PipeInv, NEW w \in Workers, ChannelCloses(w), [MappingsNext]_mappingVars
    PROVE  PipeInv'
  <1> DEFINE next == IF at[w] = "idle" THEN "ended" ELSE at[w]
  <1>1. /\ Requeue /\ open' = [open EXCEPT ![w] = FALSE] /\ at' = [at EXCEPT ![w] = next]
        /\ UNCHANGED <<message, told, acked, blind, since, blindly, mappingVars>>
    BY Zenon DEF ChannelCloses, To
  <1>2. PipeTypeOK /\ Sound(w)
    BY DEF PipeInv
  <1>3. open'[w] = FALSE /\ at'[w] = next
    BY <1>1, <1>2 DEF PipeTypeOK
  <1>4. PipeTypeOK'
    BY <1>1, <1>2, RequeueStays DEF PipeTypeOK, Steps, Idle, Off
  <1>5. Sound(w)'
    BY <1>1, <1>2, <1>3
    DEF Sound, OnItsWay, OnPath, PublishedSoFar, CheckCounts, Counts, PastTheCheck, Publishing,
        Idle, Off, mappingVars
  <1>6. OnlyTouches(w)
    BY <1>1, <1>2 DEF OnlyTouches, PipeTypeOK
  <1> QED
    BY <1>1, <1>4, <1>5, <1>6, StepStays

LEMMA CrashInv ==
    ASSUME PipeInv, Crash, [MappingsNext]_mappingVars
    PROVE  PipeInv'
  <1>1. /\ Requeue /\ open' = [w \in Workers |-> FALSE]
        /\ at' = [w \in Workers |-> IF at[w] = "unborn" THEN "unborn" ELSE "ended"]
        /\ UNCHANGED <<message, told, acked, blind, since, blindly, now>>
    BY Zenon DEF Crash, Restart
  <1>2. PipeTypeOK'
    BY <1>1, RequeueStays DEF PipeInv, PipeTypeOK, Steps, Idle, Off
  <1>3. ASSUME NEW w \in Workers PROVE Sound(w)'
    BY <1>1 DEF PipeInv, Sound, OnItsWay, PublishedSoFar, CheckCounts, PastTheCheck,
        Publishing, Idle, Off
  <1> QED
    BY <1>1, <1>2, <1>3, AckedStays, MappingsStepInv DEF PipeInv

LEMMA SubscribeInv ==
    ASSUME PipeInv, NEW w \in Workers, Subscribe(w), [MappingsNext]_mappingVars
    PROVE  PipeInv'
  <1>1. /\ at' = [at EXCEPT ![w] = "idle"] /\ open' = [open EXCEPT ![w] = TRUE]
        /\ UNCHANGED <<queue, message, told, acked, blind, since, blindly, mappingVars>>
    BY Zenon DEF Subscribe, To
  <1>2. PipeTypeOK /\ Sound(w)
    BY DEF PipeInv
  <1>3. at'[w] = "idle"
    BY <1>1, <1>2 DEF PipeTypeOK
  <1>4. PipeTypeOK'
    BY <1>1, <1>2 DEF PipeTypeOK, Steps, Idle
  <1>5. Sound(w)'
    BY <1>1, <1>2, <1>3
    DEF Sound, OnItsWay, PublishedSoFar, CheckCounts, PastTheCheck, Publishing, Idle, Off,
        mappingVars
  <1>6. OnlyTouches(w)
    BY <1>1, <1>2 DEF OnlyTouches, PipeTypeOK
  <1> QED
    BY <1>1, <1>4, <1>5, <1>6, StepStays

-----------------------------------------------------------------------------
LEMMA PipeInitInv == PipelineInit => PipeInv
  <1> SUFFICES ASSUME PipelineInit PROVE PipeInv
    OBVIOUS
  <1>1. MappingsInv /\ now = 0
    BY MappingsInitInv, Zenon DEF PipelineInit, MappingsInit
  <1>2. PICK s \in Scenarios : queue = s.queue
    BY DEF PipelineInit
  <1>3. PipeTypeOK
    BY <1>2, MessagesAssumption DEF PipelineInit, PipeTypeOK, Steps, Idle, Off
  <1>4. ASSUME NEW w \in Workers PROVE Sound(w)
    <2>1. at[w] = (IF w = 1 THEN "idle" ELSE "unborn") /\ since[w] = 0
      BY DEF PipelineInit
    <2>2. open[w] => w = 1
      BY Zenon DEF PipelineInit
    <2>3. at[w] \in Idle \ PastTheCheck /\ (open[w] => at[w] \notin Off) /\ since[w] <= now
      BY <1>1, <2>1, <2>2 DEF PastTheCheck, Publishing, Idle, Off
    <2> QED
      BY <2>3 DEF Sound, OnItsWay, PublishedSoFar, CheckCounts
  <1> QED
    BY <1>1, <1>3, <1>4 DEF PipelineInit, PipeInv, AckedIsAccountedFor

LEMMA PipeStepInv == PipeInv /\ [PipelineNext]_allVars => PipeInv'
  <1> SUFFICES ASSUME PipeInv, [PipelineNext]_allVars PROVE PipeInv'
    OBVIOUS
  <1>1. [MappingsNext]_mappingVars
    BY MappingStep
  <1>2. ASSUME NEW w \in Workers, ReadHistory(w) PROVE PipeInv'
    <2>1. PICK next \in {"save", "identify"} : To(w, next)
      BY <1>2, Zenon DEF ReadHistory
    <2>2. /\ at[w] \in {"read", "save"}
          /\ UNCHANGED <<queue, message, open, told, acked, blind, since, blindly, mappingVars>>
      BY <1>2, Zenon DEF ReadHistory
    <2> QED
      BY <1>1, <2>1, <2>2, HistoryInv
  <1>3. ASSUME NEW w \in Workers, SaveHistory(w) PROVE PipeInv'
    <2>1. /\ at[w] \in {"read", "save"} /\ To(w, "identify")
          /\ UNCHANGED <<queue, message, open, told, acked, blind, since, blindly, mappingVars>>
      BY <1>3, Zenon DEF SaveHistory
    <2> QED
      BY <1>1, <2>1, HistoryInv
  <1>4. ASSUME NEW w \in Workers, KeepCopy(w) PROVE PipeInv'
    BY <1>1, <1>4, NobodyMoves, Zenon DEF KeepCopy, workVars
  <1>5. ASSUME NEW w \in Workers, Work(w) PROVE PipeInv'
    BY <1>1, <1>2, <1>3, <1>4, <1>5, TakeInv, FindCopyInv, AskServiceInv, NoAnswerInv,
       PublishInv, AckInv, SubscribeInv, Zenon DEF Work
  <1>6. CASE HistoryExpires
    BY <1>1, <1>6, NobodyMoves, Zenon DEF HistoryExpires
  <1>7. CASE DeviceChanges \/ Hour
    BY <1>1, <1>7, NobodyMoves, Zenon DEF DeviceChanges, Hour, workVars
  <1>8. CASE UNCHANGED allVars
    BY <1>1, <1>8, NobodyMoves, Zenon DEF allVars, pipeVars
  <1> QED
    BY <1>1, <1>5, <1>6, <1>7, <1>8, ChannelClosesInv, CrashInv, Zenon DEF PipelineNext

\* The workers look the device up as module DeviceMappings says, whatever becomes
\* of the messages they do it for: the pipeline implements that specification.
THEOREM PipelineImplementsMappings == PipelineSpec => MappingsSpec
  <1>1. PipelineInit => MappingsInit
    BY DEF PipelineInit
  <1> QED
    BY <1>1, MappingStep, PTL DEF PipelineSpec, MappingsSpec, allVars

\* A message that is acknowledged has been published on all it was due to be
\* published on, or its device was hidden or deactivated, or a lookup failed:
\* whenever channels close and the process ends (processTenantMessages).
THEOREM AcknowledgedWasPublished == PipelineSpec => []AckedIsAccountedFor
  <1>1. PipeInv => AckedIsAccountedFor
    BY DEF PipeInv
  <1> QED
    BY <1>1, PipeInitInv, PipeStepInv, PTL DEF PipelineSpec, allVars

\* Nothing of a device deactivated for the lifetime of a copy is published, unless
\* a lookup failed (IsDeviceDeactivated, checkDevice).
THEOREM DeactivationWorks == PipelineSpec => []DeactivationTakesEffect
  <1>1. PipeInv => DeactivationTakesEffect
    BY DEF PipeInv, Sound, CheckCounts, Counts, PastTheCheck, DeactivationTakesEffect
  <1> QED
    BY <1>1, PipeInitInv, PipeStepInv, PTL DEF PipelineSpec, allVars

\* The copy of a device was true less than its lifetime ago, whatever workers,
\* crashes and closed channels there are (getDeviceMapping).
THEOREM PipelineCopiesAreRecent == PipelineSpec => []NoCopyOutlivesItsTime
  BY PipelineImplementsMappings, CopiesAreRecent, PTL

-----------------------------------------------------------------------------
\* The rest of the types, and HistoryTellsTheMove.  A worker that is about to save
\* a position still knows the history, unless it was lost since (AboutToSave), so
\* what it saves is a move or the first or second position of all (Kept).
RestTypeOK ==
    /\ acked \subseteq Messages /\ told \subseteq [message : Messages, topic : Publishing]
    /\ latest \in [Workers -> Seq(Positions)] /\ \A w \in Workers : Len(latest[w]) <= maxEntries
    /\ history \in Seq(Positions) /\ Len(history) <= maxEntries
    /\ \A w, v \in Workers : open[w] /\ open[v] => w = v

AboutToSave(w) ==
    /\ \A v \in Workers : at[v] = "save" => v = w
    /\ history = <<>> \/ history = latest[w]
    /\ ~Unchanged(latest[w], Place[message[w]])

Kept ==
    \/ history = <<>> /\ seen = {}
    \/ history # <<>> /\ seen = {history[1]}
    \/ Len(history) = 2 /\ history[1] # history[2]

HistoryKept == ~disturbed => Kept /\ \A w \in Workers : at[w] = "save" => AboutToSave(w)

FullInv == PipeInv /\ RestTypeOK /\ HistoryKept

\* What SaveLocation gives: the position and, before it, the newest so far.
LEMMA SaveLocationIs ==
    ASSUME NEW S, NEW h \in Seq(S), Len(h) <= maxEntries, NEW p \in S
    PROVE  /\ SaveLocation(h, p) \in Seq(S) /\ Len(SaveLocation(h, p)) <= maxEntries
           /\ SaveLocation(h, p) # <<>> /\ SaveLocation(h, p)[1] = p
           /\ h # <<>> => Len(SaveLocation(h, p)) = 2 /\ SaveLocation(h, p)[2] = h[1]
  <1> DEFINE both == <<p>> \o h
             n == IF Len(h) < maxEntries THEN Len(h) + 1 ELSE maxEntries
  <1>1. <<p>> \in Seq(S) /\ Len(<<p>>) = 1 /\ <<p>>[1] = p /\ Len(h) \in Nat
    OBVIOUS
  <1>2. /\ both \in Seq(S) /\ Len(both) = Len(h) + 1
        /\ \A i \in 1 .. Len(both) : both[i] = IF i <= 1 THEN p ELSE h[i - 1]
    BY <1>1, ConcatProperties
  <1> HIDE DEF both
  <1>3. n \in 1 .. Len(both) /\ n <= maxEntries /\ (h # <<>> => n = 2)
    BY <1>1, <1>2 DEF maxEntries
  <1>4. /\ SubSeq(both, 1, n) \in Seq(S) /\ Len(SubSeq(both, 1, n)) = n
        /\ \A i \in 1 .. n : SubSeq(both, 1, n)[i] = both[i]
    BY <1>2, <1>3, SubSeqProperties
  <1>5. SaveLocation(h, p) = SubSeq(both, 1, n)
    BY DEF SaveLocation, both
  <1> HIDE DEF n
  <1>6. SubSeq(both, 1, n) # <<>> /\ SubSeq(both, 1, n)[1] = p
    BY <1>2, <1>3, <1>4
  <1>7. h # <<>> => SubSeq(both, 1, n)[2] = h[1] /\ n = 2
    BY <1>2, <1>3, <1>4
  <1> QED
    BY <1>3, <1>4, <1>5, <1>6, <1>7

\* A step that leaves the positions alone, or loses them all.
LEMMA PositionsStay ==
    ASSUME FullInv, UNCHANGED <<latest, disturbed>>,
           \/ UNCHANGED <<history, seen>>
           \/ history' = <<>> /\ seen' = {},
           \A v \in Workers : at'[v] = "save" => at[v] = "save" /\ message'[v] = message[v]
    PROVE  /\ history' \in Seq(Positions) /\ Len(history') <= maxEntries
           /\ HistoryKept'
  <1>1. history' \in Seq(Positions) /\ Len(history') <= maxEntries
    <2>1. <<>> \in Seq(Positions) /\ Len(<<>>) = 0 /\ 0 <= maxEntries
      BY EmptySeq DEF maxEntries
    <2>2. CASE history' = history
      BY <2>2 DEF FullInv, RestTypeOK
    <2>3. CASE history' = <<>>
      BY <2>1, <2>3
    <2> QED
      BY <2>2, <2>3
  <1>2. ASSUME ~disturbed PROVE Kept' /\ \A w \in Workers : at'[w] = "save" => AboutToSave(w)'
    BY <1>2 DEF FullInv, HistoryKept, Kept, AboutToSave
  <1> QED
    BY <1>1, <1>2 DEF HistoryKept

\* Of the other steps nearly all change nothing that the types speak of.
LEMMA RestStays ==
    ASSUME FullInv, PipeInv', UNCHANGED <<latest, disturbed, acked, told>>,
           \/ UNCHANGED <<history, seen>>
           \/ history' = <<>> /\ seen' = {},
           \A v \in Workers : at'[v] = "save" => at[v] = "save" /\ message'[v] = message[v],
           \A v \in Workers : open'[v] => open[v]
    PROVE  FullInv'
  BY PositionsStay DEF FullInv, RestTypeOK

LEMMA AtMoves ==
    ASSUME PipeInv, NEW w \in Workers, NEW step, To(w, step)
    PROVE  at'[w] = step /\ \A v \in Workers \ {w} : at'[v] = at[v]
  BY DEF PipeInv, PipeTypeOK, To

LEMMA AnsweredRest ==
    ASSUME FullInv, PipeInv', NEW w \in Workers, at[w] \in Asking, NEW status,
           Answered(w, status)
    PROVE  FullInv'
  <1>1. /\ To(w, AfterAnswer(message[w], at[w], status))
        /\ UNCHANGED <<message, open, latest, history, told, acked, seen, disturbed>>
    BY Zenon DEF Answered, workVars
  <1>2. message[w] \in Messages /\ OnPath(message[w], at[w])
    BY DEF FullInv, PipeInv, Sound, OnItsWay, Asking, Idle, Off
  <1>3. AfterAnswer(message[w], at[w], status) # "save"
    BY <1>2, MessagesAssumption DEF AfterAnswer, OnPath, Asking
  <1>4. \A v \in Workers : at'[v] = "save" => at[v] = "save"
    BY <1>1, <1>3, AtMoves DEF FullInv
  <1> QED
    BY <1>1, <1>4, RestStays

LEMMA TakeRest ==
    ASSUME FullInv, PipeInv', NEW w \in Workers, Take(w)
    PROVE  FullInv'
  <1>1. /\ To(w, IF Kind[Head(queue)] = "api" THEN "api" ELSE "screen")
        /\ message' = [message EXCEPT ![w] = Head(queue)]
        /\ UNCHANGED <<open, latest, history, told, acked, seen, disturbed>>
    BY Zenon DEF Take
  <1>2. \A v \in Workers \ {w} : message'[v] = message[v]
    BY <1>1 DEF FullInv, PipeInv, PipeTypeOK
  <1>3. \A v \in Workers : at'[v] = "save" => v # w /\ at[v] = "save"
    BY <1>1, AtMoves DEF FullInv
  <1> QED
    BY <1>1, <1>2, <1>3, RestStays

LEMMA ReadHistoryRest ==
    ASSUME FullInv, PipeInv', NEW w \in Workers, ReadHistory(w)
    PROVE  FullInv'
  <1> DEFINE p == Place[message[w]]
  <1>1. /\ \/ /\ latest' = [latest EXCEPT ![w] = history]
              /\ disturbed' = (disturbed \/ \E v \in Workers : at[v] = "save")
           \/ latest' = [latest EXCEPT ![w] = <<>>] /\ disturbed' = TRUE
        /\ To(w, IF Unchanged(latest'[w], p) THEN "identify" ELSE "save")
        /\ UNCHANGED <<message, open, history, told, acked, seen>>
    BY Zenon DEF ReadHistory
  <1>2. RestTypeOK /\ <<>> \in Seq(Positions) /\ Len(<<>>) <= maxEntries
    BY DEF FullInv, maxEntries
  <1>3. latest' \in [Workers -> Seq(Positions)] /\ \A v \in Workers : Len(latest'[v]) <= maxEntries
    BY <1>1, <1>2 DEF RestTypeOK
  <1>4. RestTypeOK'
    BY <1>1, <1>2, <1>3 DEF RestTypeOK
  <1>5. ASSUME ~disturbed' PROVE Kept' /\ \A v \in Workers : at'[v] = "save" => AboutToSave(v)'
    <2>1. ~disturbed /\ latest' = [latest EXCEPT ![w] = history]
          /\ \A v \in Workers : at[v] # "save"
      BY <1>1, <1>5
    <2>2. latest'[w] = history
      BY <1>2, <2>1 DEF RestTypeOK
    <2>3. ASSUME NEW v \in Workers, at'[v] = "save" PROVE v = w /\ ~Unchanged(latest'[w], p)
      BY <1>1, <2>1, <2>3, AtMoves DEF FullInv
    <2> QED
      BY <1>1, <2>1, <2>2, <2>3 DEF FullInv, HistoryKept, Kept, AboutToSave
  <1> QED
    BY <1>4, <1>5 DEF FullInv, HistoryKept

LEMMA SaveHistoryRest ==
    ASSUME FullInv, PipeInv', NEW w \in Workers, SaveHistory(w)
    PROVE  FullInv'
  <1> DEFINE p == Place[message[w]]
  <1>1. /\ at[w] = "save" /\ To(w, "identify")
        /\ UNCHANGED <<message, open, latest, told, acked, disturbed>>
    BY Zenon DEF SaveHistory
  <1>2. \A v \in Workers : at'[v] = "save" => at[v] = "save" /\ v # w
    BY <1>1, AtMoves DEF FullInv
  <1>3. CASE UNCHANGED <<history, seen>>
    BY <1>1, <1>2, <1>3, RestStays
  <1>4. CASE history' = SaveLocation(history, p) /\ seen' = seen \cup {p}
    <2>1. p \in Positions
      BY <1>1 DEF FullInv, PipeInv, Sound, OnItsWay, OnPath, Idle, Off
    <2>2. history \in Seq(Positions) /\ Len(history) <= maxEntries
      BY DEF FullInv, RestTypeOK
    <2>3. /\ history' \in Seq(Positions) /\ Len(history') <= maxEntries
          /\ history' # <<>> /\ history'[1] = p
          /\ history # <<>> => Len(history') = 2 /\ history'[2] = history[1]
      <3> HIDE DEF p
      <3>1. /\ SaveLocation(history, p) \in Seq(Positions)
            /\ Len(SaveLocation(history, p)) <= maxEntries
            /\ SaveLocation(history, p) # <<>> /\ SaveLocation(history, p)[1] = p
            /\ history # <<>> => /\ Len(SaveLocation(history, p)) = 2
                                /\ SaveLocation(history, p)[2] = history[1]
        BY <2>1, <2>2, SaveLocationIs
      <3> QED
        BY <1>4, <3>1
    <2>4. RestTypeOK'
      BY <1>1, <2>3 DEF FullInv, RestTypeOK
    <2>5. ASSUME ~disturbed PROVE Kept' /\ \A v \in Workers : at'[v] # "save"
      <3>1. Kept /\ AboutToSave(w)
        BY <1>1, <2>5 DEF FullInv, HistoryKept
      <3>2. \A v \in Workers : at'[v] # "save"
        BY <1>2, <3>1 DEF AboutToSave
      <3>3. Kept'
        <4>1. CASE history = <<>>
          BY <1>4, <2>3, <3>1, <4>1 DEF Kept
        <4>2. CASE history # <<>> /\ p # history[1]
          BY <2>3, <4>2 DEF Kept
        <4>3. CASE history # <<>> /\ p = history[1]
          <5>1. Len(history) <= 1
            BY <2>2, <3>1, <4>3 DEF AboutToSave, Unchanged
          <5>2. seen = {history[1]}
            BY <3>1, <4>3, <5>1 DEF Kept
          <5> QED
            BY <1>4, <2>3, <4>3, <5>2 DEF Kept
        <4> QED
          BY <4>1, <4>2, <4>3
      <3> QED
        BY <3>2, <3>3
    <2> QED
      BY <1>1, <2>4, <2>5 DEF FullInv, HistoryKept
  <1> QED
    BY <1>3, <1>4 DEF SaveHistory

LEMMA PublishRest ==
    ASSUME FullInv, PipeInv', NEW w \in Workers, Publish(w)
    PROVE  FullInv'
  <1> DEFINE m == message[w]
             next == AfterPublish(m, at[w], open[w])
  <1>1. /\ at[w] \in Publishing /\ To(w, next)
        /\ told' = IF open[w] THEN told \cup {[message |-> m, topic |-> at[w]]} ELSE told
        /\ UNCHANGED <<message, open, latest, history, acked, seen, disturbed>>
    BY Zenon DEF Publish
  <1>2. m \in Messages /\ OnPath(m, at[w])
    BY <1>1 DEF FullInv, PipeInv, Sound, OnItsWay, Publishing, Idle, Off
  <1>3. next # "save"
    BY <1>1, <1>2 DEF AfterPublish
  <1>4. \A v \in Workers : at'[v] = "save" => at[v] = "save"
    BY <1>1, <1>3, AtMoves DEF FullInv
  <1>5. told' \subseteq [message : Messages, topic : Publishing]
    BY <1>1, <1>2 DEF FullInv, RestTypeOK
  <1> QED
    BY <1>1, <1>4, <1>5, PositionsStay DEF FullInv, RestTypeOK

LEMMA AckRest ==
    ASSUME FullInv, PipeInv', NEW w \in Workers, Ack(w)
    PROVE  FullInv'
  <1>1. /\ at[w] = "ack" /\ To(w, IF open[w] THEN "idle" ELSE "ended")
        /\ acked' = IF open[w] THEN acked \cup {message[w]} ELSE acked
        /\ UNCHANGED <<message, open, latest, history, told, seen, disturbed>>
    BY Zenon DEF Ack
  <1>2. message[w] \in Messages
    BY <1>1 DEF FullInv, PipeInv, Sound, OnItsWay, Idle, Off
  <1>3. \A v \in Workers : at'[v] = "save" => at[v] = "save"
    BY <1>1, AtMoves DEF FullInv
  <1>4. acked' \subseteq Messages
    BY <1>1, <1>2 DEF FullInv, RestTypeOK
  <1> QED
    BY <1>1, <1>3, <1>4, PositionsStay DEF FullInv, RestTypeOK

LEMMA SubscribeRest ==
    ASSUME FullInv, PipeInv', NEW w \in Workers, Subscribe(w)
    PROVE  FullInv'
  <1>1. /\ \A v \in Workers : ~open[v] /\ open' = [open EXCEPT ![w] = TRUE]
        /\ To(w, "idle")
        /\ UNCHANGED <<message, latest, history, told, acked, seen, disturbed>>
    BY Zenon DEF Subscribe
  <1>2. \A v \in Workers : at'[v] = "save" => at[v] = "save"
    BY <1>1, AtMoves DEF FullInv
  <1>3. \A v \in Workers : open'[v] => v = w
    BY <1>1 DEF FullInv, PipeInv, PipeTypeOK
  <1> QED
    BY <1>1, <1>2, <1>3, PositionsStay DEF FullInv, RestTypeOK

LEMMA WorkRest ==
    ASSUME FullInv, PipeInv', NEW w \in Workers, Work(w)
    PROVE  FullInv'
  <1>1. ASSUME FindCopy(w) PROVE FullInv'
    BY <1>1, AnsweredRest, Zenon DEF FindCopy
  <1>2. ASSUME AskService(w) PROVE FullInv'
    BY <1>2, AnsweredRest, Zenon DEF AskService
  <1>3. ASSUME NoAnswer(w) PROVE FullInv'
    BY <1>3, AnsweredRest, Zenon DEF NoAnswer
  <1>4. ASSUME KeepCopy(w) PROVE FullInv'
    <2>1. UNCHANGED <<at, message, open, latest, history, told, acked, seen, disturbed>>
      BY <1>4, Zenon DEF KeepCopy, workVars
    <2> QED
      BY <2>1, RestStays
  <1> QED
    BY <1>1, <1>2, <1>3, <1>4, TakeRest, ReadHistoryRest, SaveHistoryRest, PublishRest,
       AckRest, SubscribeRest, Zenon DEF Work

LEMMA FaultRest ==
    ASSUME FullInv, PipeInv',
           Crash \/ HistoryExpires \/ \E w \in Workers : ChannelCloses(w)
    PROVE  FullInv'
  <1>1. CASE Crash
    <2>1. /\ open' = [w \in Workers |-> FALSE]
          /\ at' = [w \in Workers |-> IF at[w] = "unborn" THEN "unborn" ELSE "ended"]
          /\ UNCHANGED <<message, latest, told, acked, disturbed>>
          /\ \/ UNCHANGED <<history, seen>>
             \/ history' = <<>> /\ seen' = {}
      BY <1>1, Zenon DEF Crash
    <2> QED
      BY <2>1, RestStays
  <1>2. CASE HistoryExpires
    <2>1. /\ history' = <<>> /\ seen' = {}
          /\ UNCHANGED <<at, message, open, latest, told, acked, disturbed>>
      BY <1>2, Zenon DEF HistoryExpires
    <2> QED
      BY <2>1, RestStays
  <1>3. ASSUME NEW w \in Workers, ChannelCloses(w) PROVE FullInv'
    <2>1. /\ To(w, IF at[w] = "idle" THEN "ended" ELSE at[w])
          /\ open' = [open EXCEPT ![w] = FALSE]
          /\ UNCHANGED <<message, latest, history, told, acked, seen, disturbed>>
      BY <1>3, Zenon DEF ChannelCloses
    <2>2. \A v \in Workers : at'[v] = "save" => at[v] = "save"
      BY <2>1, AtMoves DEF FullInv
    <2>3. \A v \in Workers : open'[v] => open[v]
      BY <2>1 DEF FullInv, PipeInv, PipeTypeOK
    <2> QED
      BY <2>1, <2>2, <2>3, RestStays
  <1> QED
    BY <1>1, <1>2, <1>3

LEMMA FullInitInv == PipelineInit => FullInv
  <1> SUFFICES ASSUME PipelineInit PROVE RestTypeOK /\ HistoryKept
    BY PipeInitInv DEF FullInv
  <1>1. /\ history = <<>> /\ seen = {} /\ latest = [w \in Workers |-> <<>>]
        /\ at = [w \in Workers |-> IF w = 1 THEN "idle" ELSE "unborn"]
        /\ open = [w \in Workers |-> w = 1] /\ told = {} /\ acked = {}
    BY Zenon DEF PipelineInit
  <1>2. RestTypeOK
    <2>1. <<>> \in Seq(Positions) /\ Len(<<>>) = 0 /\ 0 <= maxEntries
      BY EmptySeq DEF maxEntries
    <2>2. /\ latest \in [Workers -> Seq(Positions)]
          /\ \A w \in Workers : Len(latest[w]) <= maxEntries
      BY <1>1, <2>1
    <2>3. history \in Seq(Positions) /\ Len(history) <= maxEntries
      BY <1>1, <2>1
    <2>4. \A w, v \in Workers : open[w] /\ open[v] => w = v
      BY <1>1
    <2> QED
      BY <1>1, <2>2, <2>3, <2>4 DEF RestTypeOK
  <1>3. HistoryKept
    BY <1>1 DEF HistoryKept, Kept
  <1> QED
    BY <1>2, <1>3

LEMMA FullStepInv == FullInv /\ [PipelineNext]_allVars => FullInv'
  <1> SUFFICES ASSUME FullInv, [PipelineNext]_allVars PROVE FullInv'
    OBVIOUS
  <1>1. PipeInv'
    BY PipeStepInv DEF FullInv
  <1>2. CASE \/ DeviceChanges \/ Hour \/ UNCHANGED allVars
    <2>1. UNCHANGED <<at, message, open, latest, history, told, acked, seen, disturbed>>
      BY <1>2, Zenon DEF DeviceChanges, Hour, workVars, allVars, pipeVars
    <2> QED
      BY <1>1, <2>1, RestStays
  <1> QED
    BY <1>1, <1>2, WorkRest, FaultRest, Zenon DEF PipelineNext

\* The pipeline's state keeps its types; no two workers ever have an open channel.
THEOREM TypeCorrect == PipelineSpec => []TypeOK
  <1>1. FullInv => TypeOK
    BY DEF FullInv, PipeInv, PipeTypeOK, RestTypeOK, TypeOK
  <1> QED
    BY <1>1, FullInitInv, FullStepInv, PTL DEF PipelineSpec, allVars

\* The history of a device that has moved tells where it came from, however often
\* it says where it stands, as long as no worker reads while another has yet to
\* save and no read fails (ProcessLocation, saveLocation).
THEOREM MovesAreRemembered == PipelineSpec => []HistoryTellsTheMove
  <1>1. ASSUME FullInv, ~disturbed, Cardinality(seen) > 1, NEW p \in seen
        PROVE  Bearing(history, history[1]) # CalculateBearing(p, p)
    <2>1. seen # {} /\ seen # {history[1]}
      <3>1. Cardinality({}) = 0 /\ Cardinality({history[1]}) = 1
        BY FS_EmptySet, FS_Singleton
      <3> QED
        BY <1>1, <3>1
    <2>2. Len(history) = 2 /\ history[1] # history[2] /\ history \in Seq(Positions)
      BY <1>1, <2>1 DEF FullInv, HistoryKept, Kept, RestTypeOK
    <2>3. Unchanged(history, history[1])
      BY <2>2 DEF Unchanged
    <2> QED
      BY <2>2, <2>3 DEF Bearing, CalculateBearing
  <1>2. FullInv => HistoryTellsTheMove
    BY <1>1 DEF HistoryTellsTheMove
  <1> QED
    BY <1>2, FullInitInv, FullStepInv, PTL DEF PipelineSpec, allVars
=============================================================================
