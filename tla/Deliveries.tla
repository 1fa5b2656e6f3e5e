--------------------------------- MODULE Deliveries ---------------------------------
(***************************************************************************)
(* The transactional outbox and the webhook dispatcher: events written     *)
(* with the mutations they tell of, fanned out into one delivery per       *)
(* subscribed webhook, and delivered over HTTP with leases, retries and a  *)
(* dead letter state.                                                      *)
(*                                                                         *)
(* Every server process runs one dispatcher; two run while a deployment    *)
(* replaces one process by another.  One cycle of a dispatcher is a        *)
(* transaction over the outbox, a transaction that claims and leases due   *)
(* deliveries, and then the attempts, at most `Slots' at a time, each of   *)
(* several statements.  Clients change webhooks and ask for redeliveries   *)
(* between any two of those, and retention deletes old events.             *)
(*                                                                         *)
(* Of time the model keeps what the queries test: whether next_retry_at    *)
(* has passed.  A lease may run out under a dispatcher that still works on *)
(* the delivery: the fourth wave of a claim starts when 30 seconds may     *)
(* have passed, and the lookup of an endpoint's address has no timeout.    *)
(***************************************************************************)
EXTENDS Integers, FiniteSets

CONSTANTS
    Events, Webhooks,
    Types, TypeOf,      \* event types, and the type of each event
    Subscriptions,      \* lists of event types webhooks may subscribe to
    Dispatchers,        \* processes that run a dispatcher
    EventBatch,         \* events one outbox transaction claims (100)
    Slots,              \* maxConcurrency
    Batch,              \* deliveries one claim takes (maxConcurrency*4)
    MaxAttempts,        \* len(retrySchedule) + 1
    DisableThreshold,   \* WebhookAutoDisableThreshold
    MaxWebhooks,        \* MaxWebhooksPerUser, also the dispatcher's maxWebhooks
    Redeliveries,       \* bound: the ids redeliveries may get
    MaxFaults,          \* bound: crashes and lost writes
    MaxEdits            \* bound: edits, redeliveries, crashes and lost writes

ASSUME DeliveriesAssumption ==
    /\ TypeOf \in [Events -> Types] /\ Subscriptions \subseteq SUBSET Types
    /\ EventBatch \in Nat \ {0} /\ Slots \in Nat \ {0} /\ Batch \in Nat \ {0}
    /\ MaxAttempts \in Nat \ {0} /\ DisableThreshold \in Nat \ {0}
    /\ MaxWebhooks \in Nat \ {0}
    /\ Redeliveries \subseteq Webhooks \X Events \X (Nat \ {0})
    /\ MaxEdits \in Nat /\ MaxFaults \in Nat

VARIABLES
    event,          \* the outbox: where each event stands
    webhook,        \* the rows of webhooks
    delivery,       \* the rows of webhook_deliveries
    cycle,          \* each dispatcher's place in its cycle and what its outbox transaction has read
    job,            \* each dispatcher's attempts
    creating,       \* webhooks whose creation has passed the quota check
    edits, faults,  \* requests and faults so far
    told,           \* history: deliveries whose endpoint received the event
    sent,           \* history: how often each delivery was sent
    doubled,        \* history: deliveries whose lease ran out under a dispatcher
    steady,         \* history: webhooks active and subscribed ever since each event was written
    crowded         \* history: events claimed while more webhooks were active than the dispatcher lists

vars == <<event, webhook, delivery, cycle, job, creating, edits, faults, told, sent, doubled, steady, crowded>>
clients == <<creating, edits>>
history == <<told, sent, doubled, steady, crowded>>

-------------------------------------------------------------------------------
\* A delivery's id; k is 0 for the fan-out's and counts the redeliveries.
Rows == (Webhooks \X Events \X {0}) \cup Redeliveries
HookOf(r)  == r[1]
EventOf(r) == r[2]
CopyOf(r)  == r[3]

Webhook  == [exists : BOOLEAN, active : BOOLEAN, events : SUBSET Types, failures : 0 .. DisableThreshold]
Delivery == [status : {"absent", "pending", "failed", "success", "dead", "deleted"},
             attempt : 0 .. MaxAttempts, next_retry_at : {"passed", "lease", "backoff", "null"}]

NoWebhook  == [exists |-> FALSE, active |-> FALSE, events |-> {}, failures |-> 0]
NoDelivery == [status |-> "absent", attempt |-> 0, next_retry_at |-> "null"]
NoJob      == [pc |-> "none", attempt |-> 0]

Exists(r)   == delivery[r].status \notin {"absent", "deleted"}
WorksOn(d, r) == job[d][r].pc # "none"

\* LIMIT n over the rows S, in an order the model leaves open.
Limited(S, n) == {T \in SUBSET S : Cardinality(T) = IF Cardinality(S) < n THEN Cardinality(S) ELSE n}

-------------------------------------------------------------------------------
\* The queries of webhooks.sql.
CountWebhooksForUser == Cardinality({w \in Webhooks : webhook[w].exists})

CreatedWebhook(types) == [exists |-> TRUE, active |-> TRUE, events |-> types, failures |-> 0]

UpdatedWebhook(h, types, active) ==
    [h EXCEPT !.events = types, !.active = active, !.failures = IF active THEN 0 ELSE @]

ListActiveWebhooksForUser ==
    Limited({w \in Webhooks : webhook[w].exists /\ webhook[w].active}, MaxWebhooks)

GetWebhook(w) == webhook[w].exists

DisableWebhook(h) == [h EXCEPT !.active = FALSE]

RecordWebhookSuccess(h) == [h EXCEPT !.failures = 0]

\* Past the threshold the count makes no difference.
RecordWebhookFailure(h) == [h EXCEPT !.failures = IF @ = DisableThreshold THEN @ ELSE @ + 1]

\* The queries of deliveries.sql.
CreateDelivery == [status |-> "pending", attempt |-> 0, next_retry_at |-> "passed"]

\* Fault: failed deliveries are not claimed.
ClaimPendingDeliveries ==
    Limited({r \in Rows : delivery[r].status = "pending" /\ delivery[r].next_retry_at = "passed"}, Batch)

ClaimDueDeliveries ==
    Limited({r \in Rows : delivery[r].status \in {"pending", "failed"}
                          /\ delivery[r].next_retry_at = "passed"}, Batch)

\* One UPDATE by id; it touches nothing when the row is gone.
UpdateDeliveryResult(r, status, attempt, next) ==
    delivery' = IF Exists(r)
                THEN [delivery EXCEPT ![r] = [status |-> status, attempt |-> attempt, next_retry_at |-> next]]
                ELSE delivery

\* The queries of events.sql.  Events another dispatcher has claimed are locked, and skipped.
Claimed(e) == \E d \in Dispatchers : e \in cycle[d].evs

ClaimUnprocessedEvents ==
    Limited({e \in Events : event[e] = "new" /\ ~Claimed(e)}, EventBatch)

GetEvent(e) == event[e] \in {"new", "processed"}

\* ON DELETE CASCADE from webhooks and events.
Cascaded(S) ==
    [r \in Rows |-> IF r \in S /\ Exists(r) THEN [NoDelivery EXCEPT !.status = "deleted"] ELSE delivery[r]]

-------------------------------------------------------------------------------
\* An empty subscription means all events.
subscribed(types, type) == types = {} \/ type \in types

\* The webhooks that have a right to an event, now.
Entitled(e) == {w \in Webhooks : webhook[w].active /\ subscribed(webhook[w].events, TypeOf[e])}

\* steady after a step that changes webhooks.
StillSteady ==
    steady' = [e \in Events |-> {w \in steady[e] : webhook'[w].exists /\ webhook'[w].active
                                                   /\ subscribed(webhook'[w].events, TypeOf[e])}]

NoClaim == [pc |-> "outbox", evs |-> {}, hooks |-> {}]

Init ==
    /\ event = [e \in Events |-> "none"]
    /\ webhook \in [Webhooks -> {NoWebhook, CreatedWebhook({})}]
    /\ delivery = [r \in Rows |-> NoDelivery]
    /\ cycle = [d \in Dispatchers |-> NoClaim]
    /\ job = [d \in Dispatchers |-> [r \in Rows |-> NoJob]]
    /\ creating = {} /\ edits = 0 /\ faults = 0
    /\ told = {} /\ sent = [r \in Rows |-> 0] /\ doubled = {}
    /\ steady = [e \in Events |-> {}] /\ crowded = {}

-------------------------------------------------------------------------------
(* Clients, mutations and retention. *)

\* Some mutation commits, and the event it writes with it.
Write(e) ==
    /\ event[e] = "none"
    /\ event' = [event EXCEPT ![e] = "new"]
    /\ steady' = [steady EXCEPT ![e] = Entitled(e)]
    /\ UNCHANGED <<webhook, delivery, cycle, job, clients, faults, told, sent, doubled, crowded>>

Fault   == faults < MaxFaults /\ edits + faults < MaxEdits /\ faults' = faults + 1
Request == edits + faults < MaxEdits /\ edits' = edits + 1

\* The quota is counted first and the row inserted later.
CheckWebhookQuota(w) ==
    /\ Request
    /\ ~webhook[w].exists /\ w \notin creating /\ \A r \in Rows : HookOf(r) = w => delivery[r].status = "absent"
    /\ CountWebhooksForUser < MaxWebhooks
    /\ creating' = creating \cup {w}
    /\ UNCHANGED <<event, webhook, delivery, cycle, job, faults, history>>

CreateWebhook(w) ==
    /\ w \in creating /\ creating' = creating \ {w}
    /\ \E types \in Subscriptions : webhook' = [webhook EXCEPT ![w] = CreatedWebhook(types)]
    /\ UNCHANGED <<event, delivery, cycle, job, edits, faults, history>>

UpdateWebhook(w) ==
    /\ Request /\ webhook[w].exists
    /\ \E types \in Subscriptions, active \in BOOLEAN :
           webhook' = [webhook EXCEPT ![w] = UpdatedWebhook(@, types, active)]
    /\ StillSteady
    /\ UNCHANGED <<event, delivery, cycle, job, creating, faults, told, sent, doubled, crowded>>

\* A webhook's deliveries go with it.
DeleteWebhook(w) ==
    /\ Request /\ webhook[w].exists
    /\ webhook' = [webhook EXCEPT ![w] = NoWebhook]
    /\ delivery' = Cascaded({r \in Rows : HookOf(r) = w})
    /\ StillSteady
    /\ UNCHANGED <<event, cycle, job, creating, faults, told, sent, doubled, crowded>>

\* A fresh delivery for a past delivery's event, whatever the past one's status.
Redeliver(past) ==
    /\ Request /\ webhook[HookOf(past)].exists /\ Exists(past)
    /\ \E r \in Redeliveries :
          /\ HookOf(r) = HookOf(past) /\ EventOf(r) = EventOf(past) /\ delivery[r].status = "absent"
          /\ delivery' = [delivery EXCEPT ![r] = CreateDelivery]
    /\ UNCHANGED <<event, webhook, cycle, job, creating, faults, history>>

\* Events older than 30 days go, processed or not; one in a transaction is waited for.
PurgeOldEvents(e) ==
    /\ GetEvent(e) /\ ~Claimed(e)
    /\ event' = [event EXCEPT ![e] = "purged"]
    /\ delivery' = Cascaded({r \in Rows : EventOf(r) = e})
    /\ UNCHANGED <<webhook, cycle, job, clients, faults, history>>

-------------------------------------------------------------------------------
(* One cycle of a dispatcher. *)

At(d, pc) == cycle[d].pc = pc

\* wg.Wait(): the next cycle starts when every attempt has returned.
Waited(d) == \A r \in Rows : ~WorksOn(d, r)

\* History: an active webhook was left out of the list.
Crowding(evs, hooks) ==
    crowded' = IF \E w \in Webhooks \ hooks : webhook[w].active THEN crowded \cup evs ELSE crowded

\* A delivery per event and subscribed webhook.
Fan(evs, hooks) ==
    {r \in {<<w, e, 0>> : w \in hooks, e \in evs} : subscribed(webhook[HookOf(r)].events, TypeOf[EventOf(r)])}

\* Fault: the events are marked when they are claimed, outside the transaction.
ProcessOutboxMarkingFirst(d) ==
    /\ At(d, "outbox") /\ Waited(d)
    /\ \E evs \in ClaimUnprocessedEvents, hooks \in ListActiveWebhooksForUser :
          /\ cycle' = [cycle EXCEPT ![d] = [pc |-> IF evs = {} THEN "claim" ELSE "commit", evs |-> evs,
                          hooks |-> {<<w, e, 0>> : w \in hooks, e \in evs}]]
          /\ event' = [e \in Events |-> IF e \in evs THEN "processed" ELSE event[e]]
          /\ Crowding(evs, hooks)
    /\ UNCHANGED <<webhook, delivery, job, clients, faults, told, sent, doubled, steady>>

\* The outbox transaction claims events and lists the account's active webhooks, once.
ProcessOutbox(d) ==
    /\ At(d, "outbox") /\ Waited(d)
    /\ \E evs \in ClaimUnprocessedEvents, hooks \in ListActiveWebhooksForUser :
          /\ cycle' = [cycle EXCEPT ![d] = [pc |-> IF evs = {} THEN "claim" ELSE "commit", evs |-> evs,
                                           hooks |-> Fan(evs, hooks)]]
          /\ Crowding(evs, hooks)
    /\ UNCHANGED <<event, webhook, delivery, job, clients, faults, told, sent, doubled, steady>>

\* It creates the deliveries, marks the events and commits.
\* A webhook deleted since the list breaks a foreign key, and everything is rolled back.
CommitOutbox(d) ==
    /\ At(d, "commit")
    /\ IF \A r \in cycle[d].hooks : webhook[HookOf(r)].exists
       THEN /\ event' = [e \in Events |-> IF e \in cycle[d].evs THEN "processed" ELSE event[e]]
            /\ delivery' = [r \in Rows |-> IF r \in cycle[d].hooks THEN CreateDelivery ELSE delivery[r]]
       ELSE UNCHANGED <<event, delivery>>
    /\ cycle' = [cycle EXCEPT ![d] = [NoClaim EXCEPT !.pc = "claim"]]
    /\ UNCHANGED <<webhook, job, clients, faults, history>>

\* Fault: the claim takes no lease.
ProcessDeliveriesUnleased(d) ==
    /\ At(d, "claim")
    /\ \E due \in ClaimDueDeliveries :
          job' = [job EXCEPT ![d] = [r \in Rows |-> IF r \in due
                        THEN [pc |-> "queued", attempt |-> delivery[r].attempt] ELSE NoJob]]
    /\ cycle' = [cycle EXCEPT ![d] = NoClaim]
    /\ UNCHANGED <<event, webhook, delivery, clients, faults, history>>

\* The claim: due deliveries are leased, their status and attempt as they were.
ProcessDeliveries(d) ==
    /\ At(d, "claim")
    /\ \E due \in ClaimDueDeliveries :
          /\ delivery' = [r \in Rows |-> IF r \in due THEN [delivery[r] EXCEPT !.next_retry_at = "lease"]
                                                     ELSE delivery[r]]
          /\ job' = [job EXCEPT ![d] = [r \in Rows |-> IF r \in due
                        THEN [pc |-> "queued", attempt |-> delivery[r].attempt] ELSE NoJob]]
    /\ cycle' = [cycle EXCEPT ![d] = NoClaim]
    /\ UNCHANGED <<event, webhook, clients, faults, history>>

JobAt(d, r, pc) == job[d][r].pc = pc
Goto(d, r, pc)  == job' = [job EXCEPT ![d][r] = IF pc = "none" THEN NoJob ELSE [@ EXCEPT !.pc = pc]]

Busy(d) == {r \in Rows : job[d][r].pc \notin {"none", "queued"}}

\* An attempt gets a slot and reads its webhook and event: gone, there is nothing to do.
LoadAttempt(d, r) ==
    /\ JobAt(d, r, "queued") /\ Cardinality(Busy(d)) < Slots
    /\ IF ~GetWebhook(HookOf(r)) \/ ~GetEvent(EventOf(r)) THEN Goto(d, r, "none")
       ELSE IF webhook[HookOf(r)].active THEN Goto(d, r, "send") ELSE Goto(d, r, "inactive")
    /\ UNCHANGED <<event, webhook, delivery, cycle, clients, faults, history>>

\* The request: received or not, and answered with 2xx or not.  An answer lost, late or not 2xx
\* is a failure although the endpoint received the event; an endpoint that does not resolve or
\* cannot be reached, and a secret that cannot be read, are failures without it.
Send(d, r) ==
    /\ JobAt(d, r, "send")
    /\ sent' = [sent EXCEPT ![r] = @ + 1]
    /\ \E received, ok \in BOOLEAN :
          /\ ok => received
          /\ told' = IF received THEN told \cup {r} ELSE told
          /\ Goto(d, r, IF ok THEN "ok" ELSE "bad")
    /\ UNCHANGED <<event, webhook, delivery, cycle, clients, faults, doubled, steady, crowded>>

\* The number of the attempt comes from the row as it was claimed.
Attempt(d, r) == job[d][r].attempt + 1

\* finish: a terminal result.
Finish(d, r, status) == UpdateDeliveryResult(r, status, Attempt(d, r), "null")

\* Fault: a failed attempt is scheduled again without being counted.
FailForEver(d, r) == UpdateDeliveryResult(r, "failed", job[d][r].attempt, "backoff")

\* Fault: one attempt more than the schedule has.
FailOnceMore(d, r) ==
    IF Attempt(d, r) <= MaxAttempts
    THEN UpdateDeliveryResult(r, "failed", Attempt(d, r), "backoff")
    ELSE Finish(d, r, "dead")

\* fail: scheduled again while the schedule lasts, dead after it.
Fail(d, r) ==
    IF Attempt(d, r) < MaxAttempts
    THEN UpdateDeliveryResult(r, "failed", Attempt(d, r), "backoff")
    ELSE Finish(d, r, "dead")

\* Fault: an answer that is not 2xx counts as one.
RecordResultAsSuccess(d, r) ==
    \/ JobAt(d, r, "ok")       /\ Finish(d, r, "success") /\ Goto(d, r, "reset")
    \/ JobAt(d, r, "bad")      /\ Finish(d, r, "success") /\ Goto(d, r, "reset")
    \/ JobAt(d, r, "inactive") /\ Finish(d, r, "dead")    /\ Goto(d, r, "none")

\* The attempt's result is written, unconditionally.
RecordResult(d, r) ==
    \/ JobAt(d, r, "ok")       /\ Finish(d, r, "success") /\ Goto(d, r, "reset")
    \/ JobAt(d, r, "bad")      /\ Fail(d, r)              /\ Goto(d, r, "count")
    \/ JobAt(d, r, "inactive") /\ Finish(d, r, "dead")    /\ Goto(d, r, "none")

WriteResult(d, r) ==
    /\ RecordResult(d, r)
    /\ UNCHANGED <<event, webhook, cycle, clients, faults, history>>

\* The write fails; its error is ignored.
LoseResult(d, r) ==
    /\ Fault
    /\ \/ JobAt(d, r, "ok")       /\ Goto(d, r, "reset")
       \/ JobAt(d, r, "bad")      /\ Goto(d, r, "count")
       \/ JobAt(d, r, "inactive") /\ Goto(d, r, "none")
    /\ UNCHANGED <<event, webhook, delivery, cycle, clients, history>>

\* The webhook's failures are counted in statements of their own; they touch nothing when it is gone.
Touch(w, h) == webhook' = IF webhook[w].exists THEN [webhook EXCEPT ![w] = h] ELSE webhook

CountResult(d, r) ==
    LET w == HookOf(r) IN
    /\ \/ /\ JobAt(d, r, "reset") /\ Touch(w, RecordWebhookSuccess(webhook[w])) /\ Goto(d, r, "none")
       \/ /\ JobAt(d, r, "count") /\ Touch(w, RecordWebhookFailure(webhook[w]))
          /\ Goto(d, r, IF webhook'[w].exists /\ webhook'[w].failures >= DisableThreshold
                        THEN "disable" ELSE "none")
       \/ /\ JobAt(d, r, "disable") /\ Touch(w, DisableWebhook(webhook[w])) /\ Goto(d, r, "none")
    /\ StillSteady
    /\ UNCHANGED <<event, delivery, cycle, clients, faults, told, sent, doubled, crowded>>

\* The process dies: its transactions roll back and its attempts are forgotten.
Crash(d) ==
    /\ Fault
    /\ cycle' = [cycle EXCEPT ![d] = NoClaim]
    /\ job' = [job EXCEPT ![d] = [r \in Rows |-> NoJob]]
    /\ UNCHANGED <<event, webhook, delivery, clients, history>>

\* Time passes: a lease or a backoff ends.
LeaseEnds(r) ==
    /\ delivery[r].next_retry_at = "lease"
    /\ delivery' = [delivery EXCEPT ![r].next_retry_at = "passed"]
    /\ doubled' = IF \E d \in Dispatchers : WorksOn(d, r) THEN doubled \cup {r} ELSE doubled
    /\ UNCHANGED <<event, webhook, cycle, job, clients, faults, told, sent, steady, crowded>>

\* A backoff, a minute at least, outlasts the attempts under way.
BackoffEnds(r) ==
    /\ delivery[r].next_retry_at = "backoff" /\ \A d \in Dispatchers : ~WorksOn(d, r)
    /\ delivery' = [delivery EXCEPT ![r].next_retry_at = "passed"]
    /\ UNCHANGED <<event, webhook, cycle, job, clients, faults, history>>

-------------------------------------------------------------------------------
Dispatch(d) ==
    \/ ProcessOutbox(d) \/ CommitOutbox(d) \/ ProcessDeliveries(d)
    \/ \E r \in Rows : LoadAttempt(d, r) \/ Send(d, r) \/ WriteResult(d, r) \/ CountResult(d, r)

Clients ==
    \/ \E e \in Events : Write(e)
    \/ \E w \in Webhooks : CheckWebhookQuota(w) \/ CreateWebhook(w) \/ UpdateWebhook(w) \/ DeleteWebhook(w)
    \/ \E r \in Rows : Redeliver(r)

Next ==
    \/ Clients
    \/ \E e \in Events : PurgeOldEvents(e)
    \/ \E d \in Dispatchers : Dispatch(d) \/ Crash(d) \/ \E r \in Rows : LoseResult(d, r)
    \/ \E r \in Rows : LeaseEnds(r) \/ BackoffEnds(r)

\* A dispatcher that stays up keeps taking steps, whatever its attempts return, and time passes.
Fairness ==
    /\ \A d \in Dispatchers : WF_vars(Dispatch(d))
    /\ WF_vars(\E r \in Rows : LeaseEnds(r) \/ BackoffEnds(r))

Spec == Init /\ [][Next]_vars /\ Fairness

-------------------------------------------------------------------------------
TypeOK ==
    /\ event \in [Events -> {"none", "new", "processed", "purged"}]
    /\ webhook \in [Webhooks -> Webhook]
    /\ delivery \in [Rows -> Delivery]
    /\ cycle \in [Dispatchers -> [pc : {"outbox", "commit", "claim"}, evs : SUBSET Events, hooks : SUBSET Rows]]
    /\ job \in [Dispatchers -> [Rows -> [pc : {"none", "queued", "send", "ok", "bad", "inactive",
                                               "reset", "count", "disable"}, attempt : 0 .. MaxAttempts]]]
    /\ creating \subseteq Webhooks /\ edits \in 0 .. MaxEdits /\ faults \in 0 .. MaxFaults
    /\ told \subseteq Rows /\ sent \in [Rows -> Nat] /\ doubled \subseteq Rows
    /\ steady \in [Events -> SUBSET Webhooks] /\ crowded \subseteq Events

\* Two dispatchers never work on one delivery, unless its lease ran out under the first: the
\* claim of a delivery and its lease exclude every other claim (dispatcher.go:165-187).
OneSender ==
    \A d1, d2 \in Dispatchers, r \in Rows :
        d1 # d2 /\ WorksOn(d1, r) /\ WorksOn(d2, r) => r \in doubled

\* Every request an endpoint gets is counted: a delivery was sent at most as often as its row
\* says, plus the attempt whose result is not written yet, plus one for each crash or lost
\* write.  With MaxAttempts this bounds how often an endpoint sees one delivery.
AttemptsCounted ==
    \A r \in Rows \ doubled : Exists(r) =>
        sent[r] <= delivery[r].attempt + faults
                   + (IF \E d \in Dispatchers : job[d][r].pc \in {"ok", "bad"} THEN 1 ELSE 0)

\* A webhook that was active and subscribed from the moment an event was written until the
\* event was processed has a delivery of it, however claims, rollbacks, crashes and the
\* requests of clients interleave.  The exception is an account that raced past its quota: the
\* dispatcher lists no more webhooks than the quota allows (dispatcher.go:123-162).
NoneForgotten ==
    \A e \in Events, w \in Webhooks :
        event[e] = "processed" /\ e \notin crowded /\ w \in steady[e] => delivery[<<w, e, 0>>].status # "absent"

\* What a status means to the subscriber.
StateOf(status) == [absent |-> "none", pending |-> "owed", failed |-> "owed", success |-> "done",
                    dead |-> "dropped", deleted |-> "forgotten"][status]

News   == {e \in Events : event[e] = "new"}
States == [r \in Rows |-> StateOf(delivery[r].status)]

\* The pipeline is what it promises to be: fanned out once, done only when told, settled for
\* good unless a lease ran out (dispatcher.go:123-244).
Promise == INSTANCE DeliveryPromise WITH
    EventOf <- EventOf, Copy <- CopyOf, news <- News, state <- States
PromiseKept == Promise!Spec

\* Again and again nothing is left on the shelf: every event is fanned out and every delivery
\* settled, or they are deleted; no crash, lost write, rollback or late result keeps one open
\* for ever (dispatcher.go:91-108).
Settled ==
    /\ \A e \in Events : event[e] # "new"
    /\ \A r \in Rows : delivery[r].status \notin {"pending", "failed"}
EventuallySettled == []<>Settled
================================================================================
