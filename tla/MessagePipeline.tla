--------------------------- MODULE MessagePipeline ---------------------------
(***************************************************************************)
(* One device's messages from the queue of its tenant to the exchange      *)
(* (mqtt/message_handler.go, resolver.go, publisher.go), and what may go   *)
(* wrong between the steps.  Worker n is the goroutine of the tenant's     *)
(* n-th subscription: when its channel closes the broker delivers the      *)
(* message again, to the next worker, while the old one still works on it. *)
(*                                                                         *)
(* Every step that asks about the device asks anew: nothing of an earlier  *)
(* answer is kept.  The copy of a device of the API has a key of its own,  *)
(* so the messages of a scenario are all of the API or all of a network    *)
(* server.  Module Uplinks has what a message means; here it is    *)
(* its kind and where it puts the device.                                  *)
(***************************************************************************)
EXTENDS DeviceMappings, LocationHistory, FiniteSets

CONSTANTS
    Messages,   \* the messages of the devices
    Kind,       \* for each message: "uplink", "event" (join or alert) or "api"
    Place,      \* for each: a position, "unplaced" (none can be found), or
                \* "invalid" (one that is not used)
    Scenarios   \* which messages come, one after the other, and how much may go
                \* wrong meanwhile: [queue, status, budget]

ASSUME MessagesAssumption ==
    /\ Kind \in [Messages -> {"uplink", "event", "api"}]
    /\ \A s \in Scenarios : s.queue \in Seq(Messages) /\ s.status \in Statuses

VARIABLES
    queue,      \* the messages the broker has to deliver
    at,         \* per worker: the step it comes to next
    message,    \* per worker: the message it handles
    open,       \* per worker: its channel
    latest,     \* per worker: the positions it read last
    history,    \* the cached positions
    told,       \* what was published: [message, topic]
    acked,      \* the messages acknowledged
    budget,     \* what may still go wrong
    blind,      \* per worker: a lookup for its message failed, and
    since,      \* when it took the message,
    blindly,    \* the messages acknowledged by such a worker,
    seen,       \* the positions saved since the history was empty, and
    disturbed   \* whether it was read in vain or by two at once (for properties)

pipeVars == <<queue, at, message, open, latest, history, told, acked, budget, blind, since,
              blindly, seen, disturbed>>
workVars == <<queue, message, open, latest, history, told, acked, since, blindly, seen,
              disturbed>>

Asking == {"screen", "event?", "address", "skip?", "deactivated?", "profile", "identify",
           "entities", "api"}
Publishing == {"event", "transformed", "telemetry", "entity", "telemetry_log", "broker_log"}
Off == {"unborn", "ended"}
Idle == Off \cup {"idle"}
Steps == Idle \cup Asking \cup {"read", "save"} \cup Publishing \cup {"ack"}

To(w, step) == at' = [at EXCEPT ![w] = step]
Spend(what) == budget[what] > 0 /\ budget' = [budget EXCEPT ![what] = @ - 1]

PipelineInit ==
    /\ MappingsInit
    /\ \E s \in Scenarios : queue = s.queue /\ budget = s.budget /\ record = <<s.status>>
    /\ message = [w \in Workers |-> 0]
    /\ at = [w \in Workers |-> IF w = 1 THEN "idle" ELSE "unborn"]
    /\ open = [w \in Workers |-> w = 1]
    /\ latest = [w \in Workers |-> <<>>] /\ history = <<>>
    /\ told = {} /\ acked = {}
    /\ blind = [w \in Workers |-> FALSE] /\ since = [w \in Workers |-> 0]
    /\ blindly = {} /\ seen = {} /\ disturbed = FALSE

Take(w) ==
    /\ at[w] = "idle" /\ open[w] /\ queue # <<>>
    /\ message' = [message EXCEPT ![w] = Head(queue)] /\ queue' = Tail(queue)
    /\ To(w, IF Kind[Head(queue)] = "api" THEN "api" ELSE "screen")
    /\ blind' = [blind EXCEPT ![w] = FALSE] /\ since' = [since EXCEPT ![w] = now]
    /\ UNCHANGED <<open, latest, history, told, acked, budget, blindly, seen, disturbed,
                   mappingVars>>

\* A mutant: a device is asked for, and goes on whatever is said.
DeactivatedNever(status) == FALSE

\* IsDeviceDeactivated: no for a device nothing is known of.
Deactivated(status) == status = "deactivated"

\* What comes after an answer about the device; an answer that never came lets
\* the message pass, but for the address of an event, the entities and the API.
AfterAnswer(m, step, status) ==
    CASE step = "screen" -> IF status = "hidden" THEN "ack"
                            ELSE IF Kind[m] = "event" THEN "event?" ELSE "skip?"
      [] step = "event?" -> IF Deactivated(status) THEN "ack" ELSE "address"
      [] step = "address" -> IF status \in {"none", "hidden"} THEN "ack" ELSE "event"
      [] step = "skip?" -> "deactivated?"
      [] step = "deactivated?" -> IF Deactivated(status) THEN "ack" ELSE "profile"
      [] step = "profile" -> IF Place[m] = "unplaced" THEN "telemetry_log"
                             ELSE IF Place[m] = "invalid" THEN "identify" ELSE "read"
      [] step = "identify" -> "transformed"
      [] step = "entities" -> IF status = "none" THEN "telemetry_log" ELSE "telemetry"
      [] step = "api" -> IF status = "none" THEN "ack" ELSE "telemetry"

Answered(w, status) ==
    /\ To(w, AfterAnswer(message[w], at[w], status))
    /\ blind' = [blind EXCEPT ![w] = @ \/ status = "none"]
    /\ UNCHANGED workVars

\* GetDeviceMapping, GetAPIDeviceMapping: the copy, else the device service.
FindCopy(w) ==
    /\ at[w] \in Asking /\ fetched[w] = <<>>
    /\ getFromCache
    /\ Answered(w, record[cache[1].version]) /\ UNCHANGED budget

AskService(w) ==
    /\ at[w] \in Asking
    /\ IF cache = <<>> THEN UNCHANGED budget ELSE Spend("redis")
    /\ lookupViaDeviceService(w)
    /\ Answered(w, record[Len(record)])

NoAnswer(w) ==
    /\ at[w] \in Asking /\ fetched[w] = <<>>
    /\ IF cache = <<>> THEN Spend("service")
       ELSE /\ budget.redis > 0 /\ budget.service > 0
            /\ budget' = [budget EXCEPT !.redis = @ - 1, !.service = @ - 1]
    /\ Answered(w, "none") /\ UNCHANGED mappingVars

KeepCopy(w) ==
    /\ \/ saveToCache(w, TRUE) /\ UNCHANGED budget
       \/ saveToCache(w, FALSE) /\ Spend("redis")
    /\ UNCHANGED <<at, blind, workVars>>

\* ProcessLocation, in two calls of the cache: first the positions are read ...
ReadHistory(w) ==
    /\ at[w] = "read" /\ fetched[w] = <<>>
    /\ \/ latest' = [latest EXCEPT ![w] = history] /\ UNCHANGED budget
          /\ disturbed' = (disturbed \/ \E v \in Workers : at[v] = "save")
       \/ latest' = [latest EXCEPT ![w] = <<>>] /\ Spend("redis") /\ disturbed' = TRUE
    /\ To(w, IF Unchanged(latest'[w], Place[message[w]]) THEN "identify" ELSE "save")
    /\ UNCHANGED <<queue, message, open, history, told, acked, blind, since, blindly, seen,
                   mappingVars>>

\* ... then the new one is saved, or fails to be, which does not matter.
SaveHistory(w) ==
    /\ at[w] = "save"
    /\ \/ /\ history' = SaveLocation(history, Place[message[w]])
          /\ seen' = seen \cup {Place[message[w]]}
          /\ UNCHANGED budget
       \/ Spend("redis") /\ UNCHANGED <<history, seen>>
    /\ To(w, "identify")
    /\ UNCHANGED <<queue, message, open, latest, told, acked, blind, since, blindly, disturbed,
                   mappingVars>>

\* What comes after a topic; the first error of a call ends the call.
AfterPublish(m, topic, ok) ==
    CASE topic = "transformed" /\ ok -> "entities"
      [] topic = "telemetry" /\ ok -> "entity"
      [] topic = "entity" \/ (topic = "telemetry" /\ ~ok) ->
            IF Kind[m] = "api" THEN "ack" ELSE "telemetry_log"
      [] topic = "telemetry_log" /\ ok -> "broker_log"
      [] OTHER -> "ack"

\* A publication fails when the channel is closed, and only then.  "transformed"
\* stands for the output topics, "entity" for the entities of the message.
Publish(w) ==
    /\ at[w] \in Publishing /\ fetched[w] = <<>>
    /\ told' = IF open[w] THEN told \cup {[message |-> message[w], topic |-> at[w]]} ELSE told
    /\ To(w, AfterPublish(message[w], at[w], open[w]))
    /\ UNCHANGED <<queue, message, open, latest, history, acked, budget, blind, since, blindly,
                   seen, disturbed, mappingVars>>

\* A mutant: the broker takes a message for acknowledged as it delivers it.
AckClosed(w) ==
    /\ at[w] = "ack" /\ acked' = acked \cup {message[w]}
    /\ To(w, IF open[w] THEN "idle" ELSE "ended")
    /\ UNCHANGED <<queue, message, open, latest, history, told, budget, blind, since, blindly,
                   seen, disturbed, mappingVars>>

\* Whatever became of it, the message is acknowledged; on a closed channel in vain.
Ack(w) ==
    /\ at[w] = "ack" /\ fetched[w] = <<>>
    /\ acked' = IF open[w] THEN acked \cup {message[w]} ELSE acked
    /\ blindly' = IF open[w] /\ blind[w] THEN blindly \cup {message[w]} ELSE blindly
    /\ To(w, IF open[w] THEN "idle" ELSE "ended")
    /\ UNCHANGED <<queue, message, open, latest, history, told, budget, blind, since, seen,
                   disturbed, mappingVars>>

\* A mutant: what is delivered is delivered once.
RequeueNothing == queue' = queue

\* The channel of a worker closes: the message it has is put back.
Requeue == LET held == {w \in Workers : open[w] /\ at[w] # "idle"}
           IN  queue' = IF held = {} THEN queue
                        ELSE <<message[CHOOSE w \in held : TRUE]>> \o queue

ChannelCloses(w) ==
    /\ open[w] /\ Spend("closes")
    /\ Requeue /\ open' = [open EXCEPT ![w] = FALSE]
    /\ To(w, IF at[w] = "idle" THEN "ended" ELSE at[w])
    /\ UNCHANGED <<message, latest, history, told, acked, blind, since, blindly, seen, disturbed,
                   mappingVars>>

\* The process ends; positions that were kept in memory are lost.
Crash ==
    /\ Spend("crashes") /\ Requeue
    /\ open' = [w \in Workers |-> FALSE]
    /\ at' = [w \in Workers |-> IF at[w] = "unborn" THEN "unborn" ELSE "ended"]
    /\ Restart
    /\ \/ history' = <<>> /\ seen' = {}
       \/ UNCHANGED <<history, seen>>
    /\ UNCHANGED <<message, latest, told, acked, blind, since, blindly, disturbed>>

\* The tenant is subscribed again (module TenantManager), by the next worker.
Subscribe(w) ==
    /\ at[w] = "unborn" /\ \A v \in Workers : ~open[v] /\ (v < w => at[v] # "unborn")
    /\ To(w, "idle") /\ open' = [open EXCEPT ![w] = TRUE]
    /\ UNCHANGED <<queue, message, latest, history, told, acked, budget, blind, since, blindly,
                   seen, disturbed, mappingVars>>

\* No position has been saved for a day; those of a device that stands still are not.
HistoryExpires ==
    /\ Spend("expiries") /\ history' = <<>> /\ seen' = {}
    /\ UNCHANGED <<queue, at, message, open, latest, told, acked, blind, since, blindly,
                   disturbed, mappingVars>>

DeviceChanges ==
    /\ Spend("changes")
    /\ \E status \in Statuses \ {record[Len(record)]} : Change(status)
    /\ UNCHANGED <<at, blind, workVars>>

Hour == Spend("ticks") /\ TimePasses /\ UNCHANGED <<at, blind, workVars>>

Work(w) ==
    \/ Take(w) \/ FindCopy(w) \/ AskService(w) \/ NoAnswer(w) \/ KeepCopy(w)
    \/ ReadHistory(w) \/ SaveHistory(w) \/ Publish(w) \/ Ack(w) \/ Subscribe(w)

PipelineNext ==
    \/ \E w \in Workers : Work(w) \/ ChannelCloses(w)
    \/ Crash \/ HistoryExpires \/ DeviceChanges \/ Hour

\* A goroutine that can go on does; every call of it has a timeout.
PipelineSpec ==
    /\ PipelineInit /\ [][PipelineNext]_<<pipeVars, mappingVars>>
    /\ \A w \in Workers : WF_<<pipeVars, mappingVars>>(Work(w))

-----------------------------------------------------------------------------
Positions == {Place[m] : m \in Messages} \ {"unplaced", "invalid"}
TypeOK ==
    /\ at \in [Workers -> Steps] /\ open \in [Workers -> BOOLEAN]
    /\ message \in [Workers -> Messages \cup {0}]
    /\ acked \subseteq Messages
    /\ told \subseteq [message : Messages, topic : Publishing]
    /\ \A w \in Workers : latest[w] \in Seq(Positions) /\ Len(latest[w]) <= maxEntries
    /\ history \in Seq(Positions) /\ Len(history) <= maxEntries
    /\ \A w, v \in Workers : open[w] /\ open[v] => w = v

\* The topics that a message is to be published on.
Topics(m) ==
    {topic \in Publishing :
        \/ Kind[m] = "event" /\ topic = "event"
        \/ Kind[m] = "api" /\ topic \in {"telemetry", "entity"}
        \/ Kind[m] = "uplink" /\ topic \in {"telemetry_log", "broker_log"}
        \/ /\ Kind[m] = "uplink" /\ Place[m] # "unplaced"
           /\ topic \in {"transformed", "telemetry", "entity"}}

\* A message that has been acknowledged was published on every topic it has to
\* be, though channels close and the process ends between any two of them; the
\* exceptions are a device that was once hidden or deactivated, and a lookup that
\* failed (processTenantMessages acknowledges whatever handleMessage returns).
AckedIsAccountedFor ==
    \A m \in acked :
        \/ \A topic \in Topics(m) : [message |-> m, topic |-> topic] \in told
        \/ m \in blindly
        \/ \E v \in DOMAIN record : record[v] # "assigned"

\* Of a device that has moved the history keeps the place it came from, so that
\* its bearing stays while it stands still: a place said twice, or delivered again
\* after a crash, does not drive the other one out.  Only two workers that read
\* before either saves, or a failed read, can do that (ProcessLocation).
HistoryTellsTheMove ==
    ~disturbed /\ Cardinality(seen) > 1
    => \A p \in seen : Bearing(history, history[1]) # CalculateBearing(p, p)

\* Nothing a network server says of a device that has been deactivated for the
\* lifetime of a copy is published, unless a lookup failed: then it is let pass.
DeactivationTakesEffect ==
    \A w \in Workers :
        /\ at[w] \in Publishing /\ ~blind[w] /\ Kind[message[w]] # "api"
        => \E v \in DOMAIN record :
              /\ record[v] # "deactivated"
              /\ v = Len(record) \/ since[w] < ended[v] + DefaultCacheTTL

\* Every message is acknowledged in the end: none is handled for ever, whatever
\* fails, and none is forgotten when a channel closes or the process restarts.
EveryMessageAnswered ==
    <>[](queue = <<>> /\ \A w \in Workers : message[w] # 0 => message[w] \in acked)
=============================================================================
