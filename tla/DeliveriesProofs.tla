--------------------------- MODULE DeliveriesProofs ---------------------------
(***************************************************************************)
(* Proofs about Deliveries, for any number of events, webhooks,            *)
(* deliveries and dispatchers, and every limit of the code.                *)
(***************************************************************************)
EXTENDS Deliveries, TLAPS

-------------------------------------------------------------------------------
(* Types.                                                                  *)

\* An attempt is made while the schedule lasts: what is claimed has not used it up.
AttemptsLeft ==
    /\ \A r \in Rows : delivery[r].status \in {"pending", "failed"} => delivery[r].attempt < MaxAttempts
    /\ \A d \in Dispatchers, r \in Rows : WorksOn(d, r) => job[d][r].attempt < MaxAttempts

TypeInv == TypeOK /\ AttemptsLeft

\* The parts of a delivery's id.
LEMMA RowParts ==
    /\ \A r \in Rows : HookOf(r) \in Webhooks /\ EventOf(r) \in Events
    /\ \A w \in Webhooks, e \in Events : <<w, e, 0>> \in Rows
    /\ \A w \in Webhooks, e \in Events :
          HookOf(<<w, e, 0>>) = w /\ EventOf(<<w, e, 0>>) = e /\ CopyOf(<<w, e, 0>>) = 0
    /\ \A r \in Redeliveries : r \in Rows /\ CopyOf(r) > 0 /\ CopyOf(r) # 0
    /\ \A r \in Rows : CopyOf(r) = 0 => r = <<HookOf(r), EventOf(r), 0>>
  BY DeliveriesAssumption DEF Rows, HookOf, EventOf, CopyOf

LEMMA EmptyRows == NoWebhook \in Webhook /\ NoDelivery \in Delivery
  BY DeliveriesAssumption DEF NoWebhook, Webhook, NoDelivery, Delivery

\* The queries of webhooks.sql keep a row well typed.
LEMMA RequestQueries ==
    ASSUME NEW types \in Subscriptions
    PROVE  /\ CreatedWebhook(types) \in Webhook
           /\ \A h \in Webhook, active \in BOOLEAN : UpdatedWebhook(h, types, active) \in Webhook
<1>1. types \in SUBSET Types
  BY DeliveriesAssumption
<1>2. CreatedWebhook(types) \in Webhook
  BY <1>1, DeliveriesAssumption DEF Webhook, CreatedWebhook
<1>3. ASSUME NEW h \in Webhook, NEW active \in BOOLEAN PROVE UpdatedWebhook(h, types, active) \in Webhook
  <2> DEFINE n == IF active THEN 0 ELSE h.failures
  <2>1. n \in 0 .. DisableThreshold
    BY DeliveriesAssumption DEF Webhook
  <2>2. UpdatedWebhook(h, types, active) = [h EXCEPT !.events = types, !.active = active, !.failures = n]
    BY DEF UpdatedWebhook
  <2> HIDE DEF n
  <2> QED  BY <1>1, <2>1, <2>2 DEF Webhook
<1> QED  BY <1>2, <1>3

LEMMA ResultQueries ==
    ASSUME NEW h \in Webhook
    PROVE  /\ DisableWebhook(h) \in Webhook
           /\ RecordWebhookSuccess(h) \in Webhook
           /\ RecordWebhookFailure(h) \in Webhook
<1>1. 0 \in 0 .. DisableThreshold
  BY DeliveriesAssumption
<1>2. DisableWebhook(h) \in Webhook
  BY DEF Webhook, DisableWebhook
<1>3. RecordWebhookSuccess(h) \in Webhook
  BY <1>1 DEF Webhook, RecordWebhookSuccess
<1>4. RecordWebhookFailure(h) \in Webhook
  <2> DEFINE n == IF h.failures = DisableThreshold THEN h.failures ELSE h.failures + 1
  <2>1. n \in 0 .. DisableThreshold
    BY DeliveriesAssumption DEF Webhook
  <2>2. RecordWebhookFailure(h) = [h EXCEPT !.failures = n]
    BY DEF RecordWebhookFailure
  <2> HIDE DEF n
  <2> QED  BY <2>1, <2>2 DEF Webhook
<1> QED  BY <1>2, <1>3, <1>4

\* A cascade deletes the rows it is given and leaves the others alone.
LEMMA CascadeType ==
    ASSUME TypeInv, NEW S, delivery' = Cascaded(S)
    PROVE  /\ delivery' \in [Rows -> Delivery]
           /\ \A r \in Rows : \/ delivery'[r] = delivery[r]
                              \/ /\ Exists(r) /\ delivery'[r].status = "deleted"
                                 /\ delivery'[r].next_retry_at = "null"
<1> DEFINE gone == [NoDelivery EXCEPT !.status = "deleted"]
<1>1. gone \in Delivery /\ gone.status = "deleted" /\ gone.next_retry_at = "null"
  BY DeliveriesAssumption DEF NoDelivery, Delivery
<1>2. delivery' = [r \in Rows |-> IF r \in S /\ Exists(r) THEN gone ELSE delivery[r]]
  BY DEF Cascaded
<1> HIDE DEF gone
<1> QED  BY <1>1, <1>2 DEF TypeInv, TypeOK

\* The result of an attempt is a well-typed row, and one that is to be tried again has attempts left.
LEMMA ResultType ==
    ASSUME TypeInv, NEW d \in Dispatchers, NEW r \in Rows, WorksOn(d, r),
           NEW status \in {"failed", "success", "dead"}, NEW next \in {"backoff", "null"},
           status = "failed" => Attempt(d, r) < MaxAttempts,
           UpdateDeliveryResult(r, status, Attempt(d, r), next)
    PROVE  /\ delivery' \in [Rows -> Delivery]
           /\ \A q \in Rows : delivery'[q].status \in {"pending", "failed"} => delivery'[q].attempt < MaxAttempts
<1>1. Attempt(d, r) \in 0 .. MaxAttempts
  BY DeliveriesAssumption DEF Attempt, TypeInv, TypeOK, AttemptsLeft
<1>2. [status |-> status, attempt |-> Attempt(d, r), next_retry_at |-> next] \in Delivery
  BY <1>1 DEF Delivery
<1> QED  BY <1>2 DEF UpdateDeliveryResult, TypeInv, TypeOK, AttemptsLeft

\* A job that only changes its place keeps its number.
LEMMA GotoType ==
    ASSUME TypeInv, NEW d \in Dispatchers, NEW r \in Rows,
           NEW pc \in {"none", "send", "ok", "bad", "inactive", "reset", "count", "disable"},
           WorksOn(d, r), Goto(d, r, pc)
    PROVE  /\ job' \in [Dispatchers -> [Rows -> [pc : {"none", "queued", "send", "ok", "bad", "inactive",
                                                  "reset", "count", "disable"}, attempt : 0 .. MaxAttempts]]]
           /\ \A c \in Dispatchers, q \in Rows : job'[c][q].pc # "none" => job'[c][q].attempt < MaxAttempts
<1> DEFINE row == IF pc = "none" THEN NoJob ELSE [job[d][r] EXCEPT !.pc = pc]
<1>1. job' = [job EXCEPT ![d][r] = row]
  BY DEF Goto
<1>2. /\ row \in [pc : {"none", "queued", "send", "ok", "bad", "inactive", "reset", "count", "disable"},
                 attempt : 0 .. MaxAttempts]
      /\ row.pc # "none" => row.attempt < MaxAttempts
  BY DeliveriesAssumption DEF NoJob, WorksOn, TypeInv, TypeOK, AttemptsLeft
<1> HIDE DEF row
<1> QED  BY <1>1, <1>2 DEF WorksOn, TypeInv, TypeOK, AttemptsLeft

\* Webhooks that stay active and subscribed are webhooks.
LEMMA SteadyType == TypeInv /\ StillSteady => steady' \in [Events -> SUBSET Webhooks]
  BY DEF StillSteady, TypeInv, TypeOK

LEMMA InitType == Init => TypeInv
<1> SUFFICES ASSUME Init PROVE TypeInv
  OBVIOUS
<1>1. CreatedWebhook({}) \in Webhook
  BY DeliveriesAssumption DEF CreatedWebhook, Webhook
<1>2. webhook \in [Webhooks -> Webhook]
  BY <1>1, EmptyRows DEF Init
<1>3. delivery \in [Rows -> Delivery] /\ \A r \in Rows : delivery[r].status = "absent"
  BY EmptyRows DEF Init, NoDelivery
<1>4. /\ job \in [Dispatchers -> [Rows -> [pc : {"none", "queued", "send", "ok", "bad", "inactive",
                                             "reset", "count", "disable"}, attempt : 0 .. MaxAttempts]]]
      /\ \A d \in Dispatchers, r \in Rows : job[d][r].pc = "none"
  BY DeliveriesAssumption DEF Init, NoJob
<1>5. cycle \in [Dispatchers -> [pc : {"outbox", "commit", "claim"}, evs : SUBSET Events, hooks : SUBSET Rows]]
  BY DEF Init, NoClaim
<1>6. TypeOK
  BY <1>2, <1>3, <1>4, <1>5, DeliveriesAssumption DEF Init, TypeOK
<1>7. AttemptsLeft
  BY <1>3, <1>4 DEF AttemptsLeft, WorksOn
<1> QED  BY <1>6, <1>7 DEF TypeInv

\* Clients, mutations and retention keep the types.
LEMMA ClientsType ==
    ASSUME TypeInv,
           \/ Clients
           \/ \E e \in Events : PurgeOldEvents(e)
    PROVE  TypeInv'
<1>0. DeliveriesAssumption /\ TypeOK /\ AttemptsLeft
  BY DeliveriesAssumption DEF TypeInv
<1>1. ASSUME NEW e \in Events, Write(e) PROVE TypeInv'
  <2>1. Entitled(e) \in SUBSET Webhooks
    BY DEF Entitled
  <2> QED  BY <1>0, <1>1, <2>1 DEF Write, TypeInv, TypeOK, AttemptsLeft, WorksOn, clients
<1>2. ASSUME NEW w \in Webhooks, CheckWebhookQuota(w) PROVE TypeInv'
  BY <1>0, <1>2 DEF CheckWebhookQuota, Request, TypeInv, TypeOK, AttemptsLeft, WorksOn, history
<1>3. ASSUME NEW w \in Webhooks, CreateWebhook(w) PROVE TypeInv'
  <2>1. webhook' \in [Webhooks -> Webhook]
    <3>1. PICK types \in Subscriptions : webhook' = [webhook EXCEPT ![w] = CreatedWebhook(types)]
      BY <1>3 DEF CreateWebhook
    <3>2. CreatedWebhook(types) \in Webhook
      BY RequestQueries
    <3> QED  BY <1>0, <3>1, <3>2 DEF TypeOK
  <2> QED  BY <1>0, <1>3, <2>1 DEF CreateWebhook, TypeInv, TypeOK, AttemptsLeft, WorksOn, history
<1>4. ASSUME NEW w \in Webhooks, UpdateWebhook(w) PROVE TypeInv'
  <2>1. webhook' \in [Webhooks -> Webhook]
    <3>1. PICK types \in Subscriptions, active \in BOOLEAN :
            webhook' = [webhook EXCEPT ![w] = UpdatedWebhook(webhook[w], types, active)]
      BY <1>4 DEF UpdateWebhook
    <3>2. UpdatedWebhook(webhook[w], types, active) \in Webhook
      BY <1>0, RequestQueries DEF TypeOK
    <3> QED  BY <1>0, <3>1, <3>2 DEF TypeOK
  <2> QED  BY <1>0, <1>4, <2>1, SteadyType
             DEF UpdateWebhook, Request, TypeInv, TypeOK, AttemptsLeft, WorksOn
<1>5. ASSUME NEW w \in Webhooks, DeleteWebhook(w) PROVE TypeInv'
  <2>1. webhook' \in [Webhooks -> Webhook]
    BY <1>0, <1>5, EmptyRows DEF DeleteWebhook, TypeOK
  <2>2. /\ delivery' \in [Rows -> Delivery]
        /\ \A r \in Rows : delivery'[r].status \in {"pending", "failed"} => delivery'[r].attempt < MaxAttempts
    <3>1. delivery' = Cascaded({r \in Rows : HookOf(r) = w})
      BY <1>5 DEF DeleteWebhook
    <3> QED  BY <1>0, <3>1, CascadeType DEF AttemptsLeft, NoDelivery
  <2> QED  BY <1>0, <1>5, <2>1, <2>2, SteadyType
             DEF DeleteWebhook, Request, TypeInv, TypeOK, AttemptsLeft, WorksOn
<1>6. ASSUME NEW past \in Rows, Redeliver(past) PROVE TypeInv'
  <2>1. CreateDelivery \in Delivery /\ CreateDelivery.attempt < MaxAttempts
    BY <1>0 DEF CreateDelivery, Delivery, DeliveriesAssumption
  <2>2. PICK r \in Rows : delivery' = [delivery EXCEPT ![r] = CreateDelivery]
    BY <1>6, RowParts DEF Redeliver
  <2>3. /\ delivery' \in [Rows -> Delivery]
        /\ \A q \in Rows : delivery'[q].status \in {"pending", "failed"} => delivery'[q].attempt < MaxAttempts
    BY <1>0, <2>1, <2>2 DEF TypeOK, AttemptsLeft
  <2> QED  BY <1>0, <1>6, <2>3 DEF Redeliver, Request, TypeInv, TypeOK, AttemptsLeft, WorksOn, history
<1>7. ASSUME NEW e \in Events, PurgeOldEvents(e) PROVE TypeInv'
  <2>1. /\ delivery' \in [Rows -> Delivery]
        /\ \A r \in Rows : delivery'[r].status \in {"pending", "failed"} => delivery'[r].attempt < MaxAttempts
    <3>1. delivery' = Cascaded({r \in Rows : EventOf(r) = e})
      BY <1>7 DEF PurgeOldEvents
    <3> QED  BY <1>0, <3>1, CascadeType DEF AttemptsLeft, NoDelivery
  <2> QED  BY <1>0, <1>7, <2>1 DEF PurgeOldEvents, TypeInv, TypeOK, AttemptsLeft, WorksOn, clients, history
<1> QED  BY <1>1, <1>2, <1>3, <1>4, <1>5, <1>6, <1>7 DEF Clients

\* The dispatcher's transactions keep the types.
LEMMA TransactionsType ==
    ASSUME TypeInv, NEW d \in Dispatchers,
           ProcessOutbox(d) \/ CommitOutbox(d) \/ ProcessDeliveries(d)
    PROVE  TypeInv'
<1>0. DeliveriesAssumption /\ TypeOK /\ AttemptsLeft
  BY DeliveriesAssumption DEF TypeInv
<1>1. ASSUME ProcessOutbox(d) PROVE TypeInv'
  <2>1. PICK evs \in ClaimUnprocessedEvents, hooks \in ListActiveWebhooksForUser :
          /\ cycle' = [cycle EXCEPT ![d] = [pc |-> IF evs = {} THEN "claim" ELSE "commit", evs |-> evs,
                                           hooks |-> Fan(evs, hooks)]]
          /\ Crowding(evs, hooks)
    BY <1>1 DEF ProcessOutbox
  <2>2. evs \subseteq Events /\ hooks \subseteq Webhooks
    BY DEF ClaimUnprocessedEvents, ListActiveWebhooksForUser, Limited
  <2>3. Fan(evs, hooks) \subseteq Rows
    BY <2>2, RowParts DEF Fan
  <2>4. cycle' \in [Dispatchers -> [pc : {"outbox", "commit", "claim"}, evs : SUBSET Events, hooks : SUBSET Rows]]
    BY <1>0, <2>1, <2>2, <2>3 DEF TypeOK
  <2>5. crowded' \subseteq Events
    BY <1>0, <2>1, <2>2 DEF Crowding, TypeOK
  <2> QED  BY <1>0, <1>1, <2>4, <2>5 DEF ProcessOutbox, TypeInv, TypeOK, AttemptsLeft, WorksOn, clients
<1>2. ASSUME CommitOutbox(d) PROVE TypeInv'
  <2>1. CreateDelivery \in Delivery /\ CreateDelivery.attempt < MaxAttempts
    BY <1>0 DEF CreateDelivery, Delivery, DeliveriesAssumption
  <2>2. /\ event' \in [Events -> {"none", "new", "processed", "purged"}]
        /\ delivery' \in [Rows -> Delivery]
        /\ \A r \in Rows : delivery'[r].status \in {"pending", "failed"} => delivery'[r].attempt < MaxAttempts
    BY <1>0, <1>2, <2>1 DEF CommitOutbox, TypeOK, AttemptsLeft
  <2>3. cycle' \in [Dispatchers -> [pc : {"outbox", "commit", "claim"}, evs : SUBSET Events, hooks : SUBSET Rows]]
    BY <1>0, <1>2 DEF CommitOutbox, NoClaim, TypeOK
  <2> QED  BY <1>0, <1>2, <2>2, <2>3 DEF CommitOutbox, TypeInv, TypeOK, AttemptsLeft, WorksOn, clients, history
<1>3. ASSUME ProcessDeliveries(d) PROVE TypeInv'
  <2>1. PICK due \in ClaimDueDeliveries :
          /\ delivery' = [r \in Rows |-> IF r \in due THEN [delivery[r] EXCEPT !.next_retry_at = "lease"]
                                                     ELSE delivery[r]]
          /\ job' = [job EXCEPT ![d] = [r \in Rows |-> IF r \in due
                        THEN [pc |-> "queued", attempt |-> delivery[r].attempt] ELSE NoJob]]
    BY <1>3 DEF ProcessDeliveries
  <2>2. \A r \in due : r \in Rows /\ delivery[r].attempt < MaxAttempts
    BY <1>0 DEF ClaimDueDeliveries, Limited, AttemptsLeft
  <2>3. /\ delivery' \in [Rows -> Delivery]
        /\ \A r \in Rows : delivery'[r].status = delivery[r].status /\ delivery'[r].attempt = delivery[r].attempt
    <3>1. \A r \in Rows : /\ delivery[r] \in Delivery
                          /\ [delivery[r] EXCEPT !.next_retry_at = "lease"] \in Delivery
                          /\ [delivery[r] EXCEPT !.next_retry_at = "lease"].status = delivery[r].status
                          /\ [delivery[r] EXCEPT !.next_retry_at = "lease"].attempt = delivery[r].attempt
      <4> TAKE r \in Rows
      <4>1. delivery[r] \in Delivery
        BY <1>0 DEF TypeOK
      <4> QED  BY <4>1 DEF Delivery
    <3>2. \A r \in Rows : delivery'[r] = IF r \in due THEN [delivery[r] EXCEPT !.next_retry_at = "lease"]
                                                     ELSE delivery[r]
      BY <2>1
    <3>3. delivery' = [r \in Rows |-> delivery'[r]]
      BY <2>1
    <3>4. \A r \in Rows : /\ delivery'[r] \in Delivery
                          /\ delivery'[r].status = delivery[r].status /\ delivery'[r].attempt = delivery[r].attempt
      BY <3>1, <3>2
    <3> QED  BY <3>3, <3>4
  <2>4. NoJob \in [pc : {"none", "queued", "send", "ok", "bad", "inactive",
                         "reset", "count", "disable"}, attempt : 0 .. MaxAttempts]
    BY <1>0 DEF NoJob, DeliveriesAssumption
  <2>5. \A r \in Rows : delivery[r].attempt \in 0 .. MaxAttempts
    BY <1>0 DEF TypeOK, Delivery
  <2>6. job' \in [Dispatchers -> [Rows -> [pc : {"none", "queued", "send", "ok", "bad", "inactive",
                                               "reset", "count", "disable"}, attempt : 0 .. MaxAttempts]]]
    BY <1>0, <2>1, <2>4, <2>5 DEF TypeOK
  <2>7. AttemptsLeft'
    BY <1>0, <2>1, <2>2, <2>3 DEF TypeOK, AttemptsLeft, WorksOn, NoJob
  <2>8. cycle' \in [Dispatchers -> [pc : {"outbox", "commit", "claim"}, evs : SUBSET Events, hooks : SUBSET Rows]]
    BY <1>0, <1>3 DEF ProcessDeliveries, NoClaim, TypeOK
  <2> QED  BY <1>0, <1>3, <2>3, <2>6, <2>7, <2>8 DEF ProcessDeliveries, TypeInv, TypeOK, clients, history
<1> QED  BY <1>1, <1>2, <1>3

\* The statements of an attempt keep the types.
LEMMA AttemptType ==
    ASSUME TypeInv, NEW d \in Dispatchers, NEW r \in Rows,
           LoadAttempt(d, r) \/ Send(d, r) \/ WriteResult(d, r) \/ CountResult(d, r) \/ LoseResult(d, r)
    PROVE  TypeInv'
<1>0. DeliveriesAssumption /\ TypeOK /\ AttemptsLeft
  BY DeliveriesAssumption DEF TypeInv
<1>1. WorksOn(d, r)
  BY DEF LoadAttempt, Send, WriteResult, RecordResult, CountResult, LoseResult, JobAt, WorksOn
<1>2. ASSUME LoadAttempt(d, r) PROVE TypeInv'
  <2>1. Goto(d, r, "none") \/ Goto(d, r, "send") \/ Goto(d, r, "inactive")
    BY <1>2 DEF LoadAttempt
  <2> QED  BY <1>0, <1>1, <1>2, <2>1, GotoType
             DEF LoadAttempt, TypeInv, TypeOK, AttemptsLeft, WorksOn, clients, history
<1>3. ASSUME Send(d, r) PROVE TypeInv'
  <2>1. Goto(d, r, "ok") \/ Goto(d, r, "bad")
    BY <1>3 DEF Send
  <2>2. told' \subseteq Rows /\ sent' \in [Rows -> Nat]
    BY <1>0, <1>3 DEF Send, TypeOK
  <2> QED  BY <1>0, <1>1, <1>3, <2>1, <2>2, GotoType
             DEF Send, TypeInv, TypeOK, AttemptsLeft, WorksOn, clients
<1>4. ASSUME WriteResult(d, r) PROVE TypeInv'
  <2>1. Goto(d, r, "reset") \/ Goto(d, r, "count") \/ Goto(d, r, "none")
    BY <1>4 DEF WriteResult, RecordResult
  <2>2. /\ delivery' \in [Rows -> Delivery]
        /\ \A q \in Rows : delivery'[q].status \in {"pending", "failed"} => delivery'[q].attempt < MaxAttempts
    <3>1. CASE Finish(d, r, "success") \/ Finish(d, r, "dead")
      BY <1>1, <3>1, ResultType DEF Finish
    <3>2. CASE Fail(d, r)
      BY <1>1, <3>2, ResultType DEF Fail, Finish
    <3> QED  BY <1>4, <3>1, <3>2 DEF WriteResult, RecordResult
  <2> QED  BY <1>0, <1>1, <1>4, <2>1, <2>2, GotoType
             DEF WriteResult, TypeInv, TypeOK, AttemptsLeft, WorksOn, clients, history
<1>5. ASSUME CountResult(d, r) PROVE TypeInv'
  <2>1. Goto(d, r, "none") \/ Goto(d, r, "disable")
    BY <1>5 DEF CountResult
  <2>2. webhook' \in [Webhooks -> Webhook]
    <3>1. HookOf(r) \in Webhooks /\ webhook[HookOf(r)] \in Webhook
      BY <1>0, RowParts DEF TypeOK
    <3>2. PICK h \in Webhook : Touch(HookOf(r), h)
      <4>1. /\ RecordWebhookSuccess(webhook[HookOf(r)]) \in Webhook
            /\ RecordWebhookFailure(webhook[HookOf(r)]) \in Webhook
            /\ DisableWebhook(webhook[HookOf(r)]) \in Webhook
        BY <1>0, <3>1, ResultQueries
      <4> QED  BY <1>5, <4>1 DEF CountResult
    <3> QED  BY <1>0, <3>1, <3>2 DEF Touch, TypeOK
  <2> QED  BY <1>0, <1>1, <1>5, <2>1, <2>2, GotoType, SteadyType
             DEF CountResult, TypeInv, TypeOK, AttemptsLeft, WorksOn, clients
<1>6. ASSUME LoseResult(d, r) PROVE TypeInv'
  <2>1. Goto(d, r, "reset") \/ Goto(d, r, "count") \/ Goto(d, r, "none")
    BY <1>6 DEF LoseResult
  <2> QED  BY <1>0, <1>1, <1>6, <2>1, GotoType
             DEF LoseResult, Fault, DeliveriesAssumption, TypeInv, TypeOK, AttemptsLeft, WorksOn, clients, history
<1> QED  BY <1>2, <1>3, <1>4, <1>5, <1>6

\* A crash and the passing of time keep the types.
LEMMA EnvironmentType ==
    ASSUME TypeInv,
           \/ \E d \in Dispatchers : Crash(d)
           \/ \E r \in Rows : LeaseEnds(r) \/ BackoffEnds(r)
    PROVE  TypeInv'
<1>0. DeliveriesAssumption /\ TypeOK /\ AttemptsLeft
  BY DeliveriesAssumption DEF TypeInv
<1>1. ASSUME NEW d \in Dispatchers, Crash(d) PROVE TypeInv'
  <2>1. cycle' \in [Dispatchers -> [pc : {"outbox", "commit", "claim"}, evs : SUBSET Events, hooks : SUBSET Rows]]
    BY <1>0, <1>1 DEF Crash, NoClaim, TypeOK
  <2>2. /\ job' \in [Dispatchers -> [Rows -> [pc : {"none", "queued", "send", "ok", "bad", "inactive",
                                               "reset", "count", "disable"}, attempt : 0 .. MaxAttempts]]]
        /\ \A c \in Dispatchers, r \in Rows : job'[c][r].pc # "none" => job'[c][r].attempt < MaxAttempts
    <3>1. NoJob \in [pc : {"none", "queued", "send", "ok", "bad", "inactive",
                           "reset", "count", "disable"}, attempt : 0 .. MaxAttempts]
      BY <1>0 DEF NoJob, DeliveriesAssumption
    <3>2. NoJob.pc = "none"
      BY DEF NoJob
    <3> QED  BY <1>0, <1>1, <3>1, <3>2 DEF Crash, TypeOK, AttemptsLeft, WorksOn
  <2> QED  BY <1>0, <1>1, <2>1, <2>2
             DEF Crash, Fault, DeliveriesAssumption, TypeInv, TypeOK, AttemptsLeft, WorksOn, clients, history
<1>2. ASSUME NEW r \in Rows, LeaseEnds(r) \/ BackoffEnds(r) PROVE TypeInv'
  <2>1. delivery' = [delivery EXCEPT ![r].next_retry_at = "passed"]
    BY <1>2 DEF LeaseEnds, BackoffEnds
  <2>2. /\ delivery' \in [Rows -> Delivery]
        /\ \A q \in Rows : delivery'[q].status \in {"pending", "failed"} => delivery'[q].attempt < MaxAttempts
    <3>1. delivery[r] \in Delivery
      BY <1>0 DEF TypeOK
    <3>2. [delivery[r] EXCEPT !.next_retry_at = "passed"] \in Delivery
      BY <3>1 DEF Delivery
    <3>3. delivery' = [delivery EXCEPT ![r] = [delivery[r] EXCEPT !.next_retry_at = "passed"]]
      BY <2>1
    <3> QED  BY <1>0, <3>1, <3>2, <3>3 DEF TypeOK, AttemptsLeft, Delivery
  <2>3. doubled' \subseteq Rows
    BY <1>0, <1>2 DEF LeaseEnds, BackoffEnds, TypeOK, history
  <2> QED  BY <1>0, <1>2, <2>2, <2>3
             DEF LeaseEnds, BackoffEnds, TypeInv, TypeOK, AttemptsLeft, WorksOn, clients, history
<1> QED  BY <1>1, <1>2

LEMMA NextType == TypeInv /\ [Next]_vars => TypeInv'
<1> SUFFICES ASSUME TypeInv, [Next]_vars PROVE TypeInv'
  OBVIOUS
<1>1. CASE Next
  BY <1>1, ClientsType, TransactionsType, AttemptType, EnvironmentType DEF Next, Dispatch
<1>2. CASE UNCHANGED vars
  BY <1>2 DEF vars, TypeInv, TypeOK, AttemptsLeft, WorksOn
<1> QED  BY <1>1, <1>2

\* Every reachable state is well typed, and a delivery that can be attempted, or is being
\* attempted, has an attempt left: no attempt goes past the schedule (dispatcher.go:216-244).
THEOREM TypeCorrect == Spec => [](TypeOK /\ AttemptsLeft)
<1>1. TypeInv => TypeOK /\ AttemptsLeft
  BY DEF TypeInv
<1> QED  BY <1>1, InitType, NextType, PTL DEF Spec

-------------------------------------------------------------------------------
(* What the steps that write deliveries do to them.                        *)

\* The claim leases what is due, and touches nothing else.
LEMMA ClaimEffect ==
    ASSUME TypeInv, NEW d \in Dispatchers, ProcessDeliveries(d)
    PROVE  \E due \in SUBSET Rows :
              /\ \A r \in due : /\ delivery[r].status \in {"pending", "failed"}
                                /\ delivery[r].next_retry_at = "passed"
                                /\ delivery'[r].next_retry_at = "lease"
                                /\ job'[d][r] = [pc |-> "queued", attempt |-> delivery[r].attempt]
              /\ \A r \in Rows \ due : delivery'[r] = delivery[r] /\ job'[d][r] = NoJob
              /\ \A r \in Rows : /\ delivery'[r].status = delivery[r].status
                                 /\ delivery'[r].attempt = delivery[r].attempt
              /\ \A c \in Dispatchers \ {d} : job'[c] = job[c]
<1>1. PICK due \in ClaimDueDeliveries :
        /\ delivery' = [r \in Rows |-> IF r \in due THEN [delivery[r] EXCEPT !.next_retry_at = "lease"]
                                                   ELSE delivery[r]]
        /\ job' = [job EXCEPT ![d] = [r \in Rows |-> IF r \in due
                      THEN [pc |-> "queued", attempt |-> delivery[r].attempt] ELSE NoJob]]
  BY DEF ProcessDeliveries
<1>2. due \in SUBSET Rows
  BY DEF ClaimDueDeliveries, Limited
<1>3. \A r \in due : delivery[r].status \in {"pending", "failed"} /\ delivery[r].next_retry_at = "passed"
  BY DEF ClaimDueDeliveries, Limited
<1>4. ASSUME NEW r \in Rows
      PROVE  LET leased == [delivery[r] EXCEPT !.next_retry_at = "lease"]
             IN  /\ leased.next_retry_at = "lease"
                 /\ leased.status = delivery[r].status
                 /\ leased.attempt = delivery[r].attempt
  <2>1. delivery[r] \in Delivery
    BY DEF TypeInv, TypeOK
  <2> QED  BY <2>1 DEF Delivery
<1>5. \A r \in Rows : /\ r \in due => delivery'[r] = [delivery[r] EXCEPT !.next_retry_at = "lease"]
                      /\ r \notin due => delivery'[r] = delivery[r]
  BY <1>1
<1>6. \A r \in Rows : /\ r \in due => job'[d][r] = [pc |-> "queued", attempt |-> delivery[r].attempt]
                      /\ r \notin due => job'[d][r] = NoJob
  BY <1>1 DEF TypeInv, TypeOK
<1>7. \A c \in Dispatchers \ {d} : job'[c] = job[c]
  BY <1>1 DEF TypeInv, TypeOK
<1>8. \A r \in Rows : /\ delivery'[r].status = delivery[r].status
                      /\ delivery'[r].attempt = delivery[r].attempt
                      /\ r \in due => delivery'[r].next_retry_at = "lease"
  BY <1>4, <1>5
<1>9. /\ \A r \in due : /\ delivery[r].status \in {"pending", "failed"}
                        /\ delivery[r].next_retry_at = "passed"
                        /\ delivery'[r].next_retry_at = "lease"
                        /\ job'[d][r] = [pc |-> "queued", attempt |-> delivery[r].attempt]
      /\ \A r \in Rows \ due : delivery'[r] = delivery[r] /\ job'[d][r] = NoJob
  BY <1>2, <1>3, <1>5, <1>6, <1>8
<1> QED  BY <1>2, <1>7, <1>8, <1>9

\* A result is written to the delivery it is of, if that is still there, and ends its lease.
LEMMA WriteEffect ==
    ASSUME TypeInv, NEW d \in Dispatchers, NEW r \in Rows, WriteResult(d, r)
    PROVE  /\ \A q \in Rows \ {r} : delivery'[q] = delivery[q]
           /\ ~Exists(r) => delivery' = delivery
           /\ Exists(r) =>
                 /\ delivery'[r].attempt = job[d][r].attempt + 1
                 /\ delivery'[r].next_retry_at \in {"backoff", "null"}
                 /\ \/ job[d][r].pc = "ok" /\ delivery'[r].status = "success"
                    \/ job[d][r].pc \in {"bad", "inactive"} /\ delivery'[r].status = "dead"
                    \/ job[d][r].pc = "bad" /\ delivery'[r].status = "failed"
  BY DEF WriteResult, RecordResult, Finish, Fail, UpdateDeliveryResult, Attempt, JobAt, TypeInv, TypeOK

\* Time passes over one lease or backoff.
LEMMA TimeEffect ==
    ASSUME TypeInv, NEW r \in Rows, LeaseEnds(r) \/ BackoffEnds(r)
    PROVE  /\ \A q \in Rows : /\ delivery'[q].status = delivery[q].status
                              /\ delivery'[q].attempt = delivery[q].attempt
           /\ delivery'[r].next_retry_at = "passed"
           /\ \A q \in Rows \ {r} : delivery'[q].next_retry_at = delivery[q].next_retry_at
<1>1. delivery' = [delivery EXCEPT ![r] = [delivery[r] EXCEPT !.next_retry_at = "passed"]]
  BY DEF LeaseEnds, BackoffEnds
<1>2. delivery[r] \in Delivery /\ delivery \in [Rows -> Delivery]
  BY DEF TypeInv, TypeOK
<1>3. LET row == [delivery[r] EXCEPT !.next_retry_at = "passed"]
      IN  row.status = delivery[r].status /\ row.attempt = delivery[r].attempt /\ row.next_retry_at = "passed"
  BY <1>2 DEF Delivery
<1> QED  BY <1>1, <1>2, <1>3

\* No step but a fan-out and a redelivery creates a delivery, and none unmakes one.
LEMMA AbsentKept ==
    ASSUME TypeInv,
           \/ \E w \in Webhooks : DeleteWebhook(w)
           \/ \E e \in Events : PurgeOldEvents(e)
           \/ \E d \in Dispatchers : ProcessDeliveries(d) \/ \E r \in Rows : WriteResult(d, r)
           \/ \E r \in Rows : LeaseEnds(r) \/ BackoffEnds(r)
    PROVE  \A q \in Rows : delivery'[q].status = "absent" <=> delivery[q].status = "absent"
<1>1. ASSUME NEW S, delivery' = Cascaded(S)
      PROVE  \A q \in Rows : delivery'[q].status = "absent" <=> delivery[q].status = "absent"
  BY <1>1, CascadeType DEF Exists, NoDelivery
<1>2. ASSUME NEW w \in Webhooks, DeleteWebhook(w)
      PROVE  \A q \in Rows : delivery'[q].status = "absent" <=> delivery[q].status = "absent"
  BY <1>1, <1>2 DEF DeleteWebhook
<1>3. ASSUME NEW e \in Events, PurgeOldEvents(e)
      PROVE  \A q \in Rows : delivery'[q].status = "absent" <=> delivery[q].status = "absent"
  BY <1>1, <1>3 DEF PurgeOldEvents
<1>4. ASSUME NEW d \in Dispatchers, ProcessDeliveries(d)
      PROVE  \A q \in Rows : delivery'[q].status = "absent" <=> delivery[q].status = "absent"
  BY <1>4, ClaimEffect
<1>5. ASSUME NEW d \in Dispatchers, NEW r \in Rows, WriteResult(d, r)
      PROVE  \A q \in Rows : delivery'[q].status = "absent" <=> delivery[q].status = "absent"
  BY <1>5, WriteEffect DEF Exists
<1>6. ASSUME NEW r \in Rows, LeaseEnds(r) \/ BackoffEnds(r)
      PROVE  \A q \in Rows : delivery'[q].status = "absent" <=> delivery[q].status = "absent"
  BY <1>6, TimeEffect
<1> QED  BY <1>2, <1>3, <1>4, <1>5, <1>6

-------------------------------------------------------------------------------
(* The outbox: an event is fanned out once.                                *)

\* An event is in one transaction at most, which fans out that event and no other; until it
\* commits there is no delivery of it.
OutboxInv ==
    /\ \A d \in Dispatchers : cycle[d].pc = "commit" => cycle[d].evs # {}
    /\ \A d \in Dispatchers : \A e \in cycle[d].evs : event[e] = "new"
    /\ \A d1, d2 \in Dispatchers : d1 # d2 => cycle[d1].evs \cap cycle[d2].evs = {}
    /\ \A d \in Dispatchers : \A r \in cycle[d].hooks : EventOf(r) \in cycle[d].evs /\ CopyOf(r) = 0
    /\ \A r \in Rows : event[EventOf(r)] \in {"none", "new"} => delivery[r].status = "absent"

LEMMA OutboxStep == TypeInv /\ OutboxInv /\ [Next]_vars => OutboxInv'
<1> SUFFICES ASSUME TypeInv, OutboxInv, [Next]_vars PROVE OutboxInv'
  OBVIOUS
<1>0. TypeOK /\ \A r \in Rows : EventOf(r) \in Events
  BY RowParts DEF TypeInv
<1>1. ASSUME UNCHANGED <<event, cycle>>,
             \A q \in Rows : delivery'[q].status = "absent" <=> delivery[q].status = "absent"
      PROVE  OutboxInv'
  BY <1>0, <1>1 DEF OutboxInv
<1>2. ASSUME UNCHANGED <<event, cycle, delivery>> PROVE OutboxInv'
  BY <1>1, <1>2
<1>3. ASSUME NEW e \in Events, Write(e) PROVE OutboxInv'
  BY <1>0, <1>3 DEF Write, OutboxInv, TypeOK
<1>4. ASSUME NEW past \in Rows, Redeliver(past) PROVE OutboxInv'
  <2>1. PICK r \in Redeliveries : /\ EventOf(r) = EventOf(past)
                                  /\ delivery' = [delivery EXCEPT ![r] = CreateDelivery]
    BY <1>4 DEF Redeliver
  <2>2. event[EventOf(past)] \notin {"none", "new"}
    BY <1>4 DEF Redeliver, Exists, OutboxInv
  <2> QED  BY <1>0, <1>4, <2>1, <2>2 DEF Redeliver, OutboxInv, TypeOK, clients, history
<1>5. ASSUME NEW e \in Events, PurgeOldEvents(e) PROVE OutboxInv'
  <2>1. \A q \in Rows : delivery'[q].status = "absent" <=> delivery[q].status = "absent"
    BY <1>5, AbsentKept
  <2>2. \A d \in Dispatchers : e \notin cycle[d].evs
    BY <1>5 DEF PurgeOldEvents, Claimed
  <2> QED  BY <1>0, <1>5, <2>1, <2>2 DEF PurgeOldEvents, OutboxInv, TypeOK
<1>6. ASSUME NEW d \in Dispatchers, ProcessOutbox(d) PROVE OutboxInv'
  <2>1. PICK evs \in ClaimUnprocessedEvents, hooks \in ListActiveWebhooksForUser :
          cycle' = [cycle EXCEPT ![d] = [pc |-> IF evs = {} THEN "claim" ELSE "commit", evs |-> evs,
                                         hooks |-> Fan(evs, hooks)]]
    BY <1>6 DEF ProcessOutbox
  <2>2. \A e \in evs : e \in Events /\ event[e] = "new" /\ \A c \in Dispatchers : e \notin cycle[c].evs
    BY DEF ClaimUnprocessedEvents, Limited, Claimed
  <2>3. \A r \in Fan(evs, hooks) : EventOf(r) \in evs /\ CopyOf(r) = 0
    BY <2>2, RowParts DEF Fan, ListActiveWebhooksForUser, Limited
  <2>4. /\ cycle'[d].pc = "commit" => evs # {}
        /\ cycle'[d].evs = evs /\ cycle'[d].hooks = Fan(evs, hooks)
        /\ \A c \in Dispatchers \ {d} : cycle'[c] = cycle[c]
    BY <1>0, <2>1 DEF TypeOK
  <2> QED  BY <1>0, <1>6, <2>2, <2>3, <2>4 DEF ProcessOutbox, OutboxInv
<1>7. ASSUME NEW d \in Dispatchers, CommitOutbox(d) PROVE OutboxInv'
  <2>1. /\ cycle'[d].pc # "commit" /\ cycle'[d].evs = {} /\ cycle'[d].hooks = {}
        /\ \A c \in Dispatchers \ {d} : cycle'[c] = cycle[c]
    BY <1>0, <1>7 DEF CommitOutbox, NoClaim, TypeOK
  <2>2. \A e \in Events : event'[e] = event[e] \/ (e \in cycle[d].evs /\ event'[e] = "processed")
    BY <1>0, <1>7 DEF CommitOutbox, TypeOK
  <2>3. \A r \in Rows : \/ delivery'[r] = delivery[r] /\ event'[EventOf(r)] = event[EventOf(r)]
                        \/ event'[EventOf(r)] = "processed"
    <3>1. CASE UNCHANGED <<event, delivery>>
      BY <3>1
    <3>2. CASE /\ event' = [e \in Events |-> IF e \in cycle[d].evs THEN "processed" ELSE event[e]]
               /\ delivery' = [r \in Rows |-> IF r \in cycle[d].hooks THEN CreateDelivery ELSE delivery[r]]
      <4>1. \A r \in Rows : IF r \in cycle[d].hooks THEN EventOf(r) \in cycle[d].evs
                                                    ELSE delivery'[r] = delivery[r]
        BY <1>7, <3>2 DEF OutboxInv
      <4>2. \A r \in Rows : event'[EventOf(r)] = IF EventOf(r) \in cycle[d].evs THEN "processed" ELSE event[EventOf(r)]
        BY <1>0, <3>2
      <4> QED  BY <4>1, <4>2
    <3> QED  BY <1>7, <3>1, <3>2 DEF CommitOutbox
  <2>4. \A c \in Dispatchers \ {d} : \A e \in cycle[c].evs : e \in Events /\ e \notin cycle[d].evs
    BY <1>0 DEF OutboxInv, TypeOK
  <2> QED  BY <1>0, <2>1, <2>2, <2>3, <2>4 DEF OutboxInv
<1>8. ASSUME NEW d \in Dispatchers, ProcessDeliveries(d) PROVE OutboxInv'
  <2>1. \A q \in Rows : delivery'[q].status = "absent" <=> delivery[q].status = "absent"
    BY <1>8, AbsentKept
  <2>2. /\ cycle'[d].pc # "commit" /\ cycle'[d].evs = {} /\ cycle'[d].hooks = {}
        /\ \A c \in Dispatchers \ {d} : cycle'[c] = cycle[c]
    BY <1>0, <1>8 DEF ProcessDeliveries, NoClaim, TypeOK
  <2> QED  BY <1>0, <1>8, <2>1, <2>2 DEF ProcessDeliveries, OutboxInv
<1>9. ASSUME NEW d \in Dispatchers, Crash(d) PROVE OutboxInv'
  <2>1. /\ cycle'[d].pc # "commit" /\ cycle'[d].evs = {} /\ cycle'[d].hooks = {}
        /\ \A c \in Dispatchers \ {d} : cycle'[c] = cycle[c]
    BY <1>0, <1>9 DEF Crash, NoClaim, TypeOK
  <2> QED  BY <1>0, <1>9, <2>1 DEF Crash, OutboxInv
<1>10. ASSUME NEW w \in Webhooks,
              CheckWebhookQuota(w) \/ CreateWebhook(w) \/ UpdateWebhook(w) \/ DeleteWebhook(w)
       PROVE  OutboxInv'
  BY <1>1, <1>2, <1>10, AbsentKept
     DEF CheckWebhookQuota, CreateWebhook, UpdateWebhook, DeleteWebhook
<1>11. ASSUME NEW d \in Dispatchers, NEW r \in Rows,
              LoadAttempt(d, r) \/ Send(d, r) \/ CountResult(d, r) \/ LoseResult(d, r)
       PROVE  OutboxInv'
  BY <1>2, <1>11 DEF LoadAttempt, Send, CountResult, LoseResult
<1>12. ASSUME NEW d \in Dispatchers, NEW r \in Rows, WriteResult(d, r) PROVE OutboxInv'
  BY <1>1, <1>12, AbsentKept DEF WriteResult
<1>13. ASSUME NEW r \in Rows, LeaseEnds(r) \/ BackoffEnds(r) PROVE OutboxInv'
  BY <1>1, <1>13, AbsentKept DEF LeaseEnds, BackoffEnds
<1>14. CASE UNCHANGED vars
  BY <1>2, <1>14 DEF vars
<1> QED  BY <1>3, <1>4, <1>5, <1>6, <1>7, <1>8, <1>9, <1>10, <1>11, <1>12, <1>13, <1>14
           DEF Next, Clients, Dispatch

-------------------------------------------------------------------------------
(* The lease: one dispatcher works on a delivery.                          *)

\* What a dispatcher works on is not due: it is leased, or has a result that put it off or
\* settled it, unless the lease ran out.  A dispatcher that looks for work has none.
LeaseInv ==
    /\ \A d \in Dispatchers : cycle[d].pc # "outbox" => Waited(d)
    /\ \A r \in Rows : delivery[r].next_retry_at = "lease" => delivery[r].status \in {"pending", "failed"}
    /\ \A d \in Dispatchers, r \in Rows : WorksOn(d, r) =>
          /\ delivery[r].status # "absent"
          /\ r \notin doubled => delivery[r].next_retry_at # "passed"

\* An attempt's step moves that attempt and no other.
LEMMA GotoEffect ==
    ASSUME TypeInv, NEW d \in Dispatchers, NEW r \in Rows, NEW pc, Goto(d, r, pc)
    PROVE  /\ \A c \in Dispatchers, q \in Rows : c # d \/ q # r => job'[c][q] = job[c][q]
           /\ job'[d][r].pc = pc
           /\ pc # "none" => job'[d][r].attempt = job[d][r].attempt
<1> DEFINE row == IF pc = "none" THEN NoJob ELSE [job[d][r] EXCEPT !.pc = pc]
<1>1. job' = [job EXCEPT ![d] = [job[d] EXCEPT ![r] = row]]
  BY DEF Goto
<1>2. row.pc = pc /\ (pc # "none" => row.attempt = job[d][r].attempt)
  BY DEF NoJob, TypeInv, TypeOK
<1> HIDE DEF row
<1> QED  BY <1>1, <1>2 DEF TypeInv, TypeOK

\* The steps of an attempt, as moves of its job.
LEMMA AttemptEffect ==
    ASSUME TypeInv, NEW d \in Dispatchers, NEW r \in Rows,
           LoadAttempt(d, r) \/ Send(d, r) \/ WriteResult(d, r) \/ CountResult(d, r) \/ LoseResult(d, r)
    PROVE  /\ WorksOn(d, r) /\ \E pc : Goto(d, r, pc)
           /\ \A c \in Dispatchers, q \in Rows : WorksOn(c, q)' => WorksOn(c, q)
<1>1. WorksOn(d, r)
  BY DEF LoadAttempt, Send, WriteResult, RecordResult, CountResult, LoseResult, JobAt, WorksOn
<1>2. PICK pc : Goto(d, r, pc)
  BY DEF LoadAttempt, Send, WriteResult, RecordResult, CountResult, LoseResult
<1> QED  BY <1>1, <1>2, GotoEffect DEF WorksOn

LEMMA LeaseStep == TypeInv /\ OutboxInv /\ LeaseInv /\ OneSender /\ [Next]_vars => LeaseInv' /\ OneSender'
<1> SUFFICES ASSUME TypeInv, OutboxInv, LeaseInv, OneSender, [Next]_vars PROVE LeaseInv' /\ OneSender'
  OBVIOUS
<1>0. TypeOK /\ \A r \in Rows : EventOf(r) \in Events
  BY RowParts DEF TypeInv
<1>1. ASSUME \A c \in Dispatchers, q \in Rows : WorksOn(c, q)' => WorksOn(c, q),
             \A c \in Dispatchers : cycle'[c].pc # "outbox" => cycle[c].pc # "outbox",
             UNCHANGED <<delivery, doubled>>
      PROVE  LeaseInv' /\ OneSender'
  BY <1>1 DEF LeaseInv, OneSender, Waited
<1>2. ASSUME UNCHANGED <<job, cycle, delivery, doubled>> PROVE LeaseInv' /\ OneSender'
  BY <1>2 DEF LeaseInv, OneSender, Waited, WorksOn
<1>3. ASSUME NEW S, delivery' = Cascaded(S), UNCHANGED <<job, cycle, doubled>>
      PROVE  LeaseInv' /\ OneSender'
  <2>1. \A r \in Rows : \/ delivery'[r] = delivery[r]
                        \/ delivery'[r].status = "deleted" /\ delivery'[r].next_retry_at = "null"
    BY <1>3, CascadeType DEF NoDelivery
  <2> QED  BY <1>3, <2>1 DEF LeaseInv, OneSender, Waited, WorksOn
<1>4. ASSUME NEW past \in Rows, Redeliver(past) PROVE LeaseInv' /\ OneSender'
  <2>1. PICK r \in Redeliveries : /\ delivery[r].status = "absent"
                                  /\ delivery' = [delivery EXCEPT ![r] = CreateDelivery]
    BY <1>4 DEF Redeliver
  <2>2. /\ \A q \in Rows \ {r} : delivery'[q] = delivery[q]
        /\ delivery'[r].next_retry_at = "passed" /\ \A d \in Dispatchers : ~WorksOn(d, r)
    BY <1>0, <2>1, RowParts DEF LeaseInv, CreateDelivery, TypeOK
  <2> QED  BY <1>4, <2>2 DEF Redeliver, LeaseInv, OneSender, Waited, WorksOn, history
<1>5. ASSUME NEW d \in Dispatchers, ProcessOutbox(d) PROVE LeaseInv' /\ OneSender'
  <2>1. Waited(d) /\ \A c \in Dispatchers \ {d} : cycle'[c] = cycle[c]
    BY <1>0, <1>5 DEF ProcessOutbox, TypeOK
  <2> QED  BY <1>5, <2>1 DEF ProcessOutbox, LeaseInv, OneSender, Waited, WorksOn
<1>6. ASSUME NEW d \in Dispatchers, CommitOutbox(d) PROVE LeaseInv' /\ OneSender'
  <2>1. Waited(d) /\ \A c \in Dispatchers \ {d} : cycle'[c] = cycle[c]
    BY <1>0, <1>6 DEF CommitOutbox, At, LeaseInv, TypeOK
  <2>2. \A r \in Rows : \/ delivery'[r] = delivery[r]
                        \/ delivery[r].status = "absent" /\ delivery'[r] = CreateDelivery
    BY <1>0, <1>6 DEF CommitOutbox, OutboxInv, TypeOK
  <2>3. CreateDelivery.status = "pending"
    BY DEF CreateDelivery
  <2>4. \A c \in Dispatchers, r \in Rows : WorksOn(c, r) => delivery'[r] = delivery[r]
    BY <2>2 DEF LeaseInv
  <2> QED  BY <1>6, <2>1, <2>2, <2>3, <2>4 DEF CommitOutbox, LeaseInv, OneSender, Waited, WorksOn, history
<1>7. ASSUME NEW d \in Dispatchers, ProcessDeliveries(d) PROVE LeaseInv' /\ OneSender'
  <2>1. PICK due \in SUBSET Rows :
          /\ \A r \in due : /\ delivery[r].status \in {"pending", "failed"}
                            /\ delivery[r].next_retry_at = "passed"
                            /\ delivery'[r].next_retry_at = "lease"
                            /\ job'[d][r] = [pc |-> "queued", attempt |-> delivery[r].attempt]
          /\ \A r \in Rows \ due : delivery'[r] = delivery[r] /\ job'[d][r] = NoJob
          /\ \A r \in Rows : /\ delivery'[r].status = delivery[r].status
                             /\ delivery'[r].attempt = delivery[r].attempt
          /\ \A c \in Dispatchers \ {d} : job'[c] = job[c]
    BY <1>7, ClaimEffect
  <2>2. /\ cycle'[d].pc = "outbox" /\ \A c \in Dispatchers \ {d} : cycle'[c] = cycle[c]
        /\ doubled' = doubled
    BY <1>0, <1>7 DEF ProcessDeliveries, NoClaim, TypeOK, history
  <2>3. \A c \in Dispatchers \ {d}, r \in due : WorksOn(c, r) => r \in doubled
    BY <2>1 DEF LeaseInv
  <2>4. \A r \in Rows \ due : ~WorksOn(d, r)'
    BY <2>1 DEF WorksOn, NoJob
  <2>5. \A c \in Dispatchers \ {d}, r \in Rows : WorksOn(c, r)' <=> WorksOn(c, r)
    BY <2>1 DEF WorksOn
  <2>6. LeaseInv'
    <3>1. \A c \in Dispatchers : cycle'[c].pc # "outbox" => Waited(c)'
      BY <2>2, <2>5 DEF LeaseInv, Waited
    <3>2. \A r \in Rows : delivery'[r].next_retry_at = "lease" => delivery'[r].status \in {"pending", "failed"}
      <4>1. \A r \in due : delivery'[r].status \in {"pending", "failed"}
        BY <2>1
      <4>2. \A r \in Rows \ due : delivery'[r] = delivery[r]
        BY <2>1
      <4> QED  BY <4>1, <4>2 DEF LeaseInv
    <3>3. ASSUME NEW c \in Dispatchers, NEW r \in Rows, WorksOn(c, r)'
          PROVE  /\ delivery'[r].status # "absent"
                 /\ r \notin doubled' => delivery'[r].next_retry_at # "passed"
      <4>1. CASE r \in due
        BY <2>1, <4>1
      <4>2. CASE r \notin due
        BY <2>1, <2>2, <2>4, <2>5, <3>3, <4>2 DEF LeaseInv
      <4> QED  BY <4>1, <4>2
    <3> QED  BY <3>1, <3>2, <3>3 DEF LeaseInv
  <2>7. OneSender'
    BY <2>2, <2>3, <2>4, <2>5 DEF OneSender
  <2> QED  BY <2>6, <2>7
<1>8. ASSUME NEW d \in Dispatchers, NEW r \in Rows, WriteResult(d, r) PROVE LeaseInv' /\ OneSender'
  <2>1. \A c \in Dispatchers, q \in Rows : WorksOn(c, q)' => WorksOn(c, q)
    BY <1>8, AttemptEffect
  <2>2. \A q \in Rows : \/ delivery'[q] = delivery[q]
                        \/ /\ delivery'[q].next_retry_at \in {"backoff", "null"}
                           /\ delivery'[q].status # "absent"
    BY <1>8, WriteEffect
  <2> QED  BY <1>8, <2>1, <2>2 DEF WriteResult, LeaseInv, OneSender, Waited, history
<1>9. ASSUME NEW d \in Dispatchers, Crash(d) PROVE LeaseInv' /\ OneSender'
  <2>1. /\ \A c \in Dispatchers, q \in Rows : WorksOn(c, q)' => WorksOn(c, q)
        /\ \A c \in Dispatchers : cycle'[c].pc # "outbox" => cycle[c].pc # "outbox"
    BY <1>0, <1>9 DEF Crash, NoJob, NoClaim, WorksOn, TypeOK
  <2> QED  BY <1>1, <1>9, <2>1 DEF Crash, history
<1>10. ASSUME NEW r \in Rows, LeaseEnds(r) \/ BackoffEnds(r) PROVE LeaseInv' /\ OneSender'
  <2>1. /\ \A q \in Rows : delivery'[q].status = delivery[q].status
        /\ delivery'[r].next_retry_at = "passed"
        /\ \A q \in Rows \ {r} : delivery'[q].next_retry_at = delivery[q].next_retry_at
    BY <1>10, TimeEffect
  <2>2. doubled \subseteq doubled' /\ \A d \in Dispatchers : WorksOn(d, r) => r \in doubled'
    BY <1>10 DEF LeaseEnds, BackoffEnds, history
  <2>3. UNCHANGED <<job, cycle>>
    BY <1>10 DEF LeaseEnds, BackoffEnds
  <2> QED  BY <2>1, <2>2, <2>3 DEF LeaseInv, OneSender, Waited, WorksOn
<1>11. ASSUME NEW d \in Dispatchers, NEW r \in Rows,
              LoadAttempt(d, r) \/ Send(d, r) \/ CountResult(d, r) \/ LoseResult(d, r)
       PROVE  LeaseInv' /\ OneSender'
  <2>1. \A c \in Dispatchers, q \in Rows : WorksOn(c, q)' => WorksOn(c, q)
    BY <1>11, AttemptEffect
  <2>2. UNCHANGED <<cycle, delivery, doubled>>
    BY <1>11 DEF LoadAttempt, Send, CountResult, LoseResult, history
  <2> QED  BY <1>1, <2>1, <2>2
<1>12. ASSUME NEW w \in Webhooks,
              CheckWebhookQuota(w) \/ CreateWebhook(w) \/ UpdateWebhook(w) \/ DeleteWebhook(w)
       PROVE  LeaseInv' /\ OneSender'
  BY <1>2, <1>3, <1>12 DEF CheckWebhookQuota, CreateWebhook, UpdateWebhook, DeleteWebhook, history
<1>13. ASSUME NEW e \in Events, Write(e) \/ PurgeOldEvents(e) PROVE LeaseInv' /\ OneSender'
  BY <1>2, <1>3, <1>13 DEF Write, PurgeOldEvents, history
<1>14. CASE UNCHANGED vars
  BY <1>2, <1>14 DEF vars
<1> QED  BY <1>4, <1>5, <1>6, <1>7, <1>8, <1>9, <1>10, <1>11, <1>12, <1>13, <1>14
           DEF Next, Clients, Dispatch

LEMMA LeaseInit == Init => OutboxInv /\ LeaseInv /\ OneSender
<1> SUFFICES ASSUME Init PROVE OutboxInv /\ LeaseInv /\ OneSender
  OBVIOUS
<1>1. \A d \in Dispatchers, r \in Rows : ~WorksOn(d, r)
  BY DEF Init, NoJob, WorksOn
<1>2. \A r \in Rows : delivery[r].status = "absent" /\ delivery[r].next_retry_at = "null"
  BY DEF Init, NoDelivery
<1>3. \A d \in Dispatchers : cycle[d].pc = "outbox" /\ cycle[d].evs = {} /\ cycle[d].hooks = {}
  BY DEF Init, NoClaim
<1> QED  BY <1>1, <1>2, <1>3 DEF OutboxInv, LeaseInv, OneSender

SenderInv == TypeInv /\ OutboxInv /\ LeaseInv /\ OneSender

LEMMA SenderInvHolds == Spec => []SenderInv
<1>1. Init => SenderInv
  BY InitType, LeaseInit DEF SenderInv
<1>2. SenderInv /\ [Next]_vars => SenderInv'
  BY NextType, OutboxStep, LeaseStep DEF SenderInv
<1> QED  BY <1>1, <1>2, PTL DEF Spec

\* Two dispatchers never work on one delivery unless its lease ran out under the first,
\* however many processes a deployment leaves running (dispatcher.go:165-187).
THEOREM ExclusiveClaims == Spec => []OneSender
<1>1. SenderInv => OneSender
  BY DEF SenderInv
<1> QED  BY <1>1, SenderInvHolds, PTL

-------------------------------------------------------------------------------
(* Counting: every request an endpoint gets.                               *)

\* An attempt whose result is not written yet.
AtHand == {"queued", "send", "ok", "bad", "inactive"}

\* Until its result is written an attempt knows its delivery as the row has it, and an
\* answer of 2xx means that the endpoint was told.
CountInv ==
    /\ \A r \in Rows : delivery[r].status = "absent" => sent[r] = 0
    /\ \A d \in Dispatchers, r \in Rows \ doubled : job[d][r].pc \in AtHand /\ Exists(r) =>
          /\ delivery[r].status \in {"pending", "failed"}
          /\ delivery[r].attempt = job[d][r].attempt
    /\ \A d \in Dispatchers, r \in Rows : job[d][r].pc = "ok" => r \in told

Uncounted(r) == \E d \in Dispatchers : job[d][r].pc \in {"ok", "bad"}

Counted(r) == sent[r] <= delivery[r].attempt + faults + (IF Uncounted(r) THEN 1 ELSE 0)

LEMMA CountedMeans == AttemptsCounted <=> \A r \in Rows \ doubled : Exists(r) => Counted(r)
  BY DEF AttemptsCounted, Counted, Uncounted

\* The count stays right for a delivery that was not sent in this step, if a result that is no
\* longer awaited was written or lost.
LEMMA CountKept ==
    ASSUME TypeInv, TypeInv', NEW r \in Rows, Counted(r), sent'[r] = sent[r],
           delivery'[r].attempt >= delivery[r].attempt, faults' >= faults,
           Uncounted(r) => \/ Uncounted(r)'
                           \/ delivery'[r].attempt > delivery[r].attempt
                           \/ faults' > faults
    PROVE  Counted(r)'
<1>1. /\ sent[r] \in Nat /\ delivery[r].attempt \in Nat /\ faults \in Nat
      /\ sent'[r] \in Nat /\ delivery'[r].attempt \in Nat /\ faults' \in Nat
  BY DEF TypeInv, TypeOK, Delivery
<1>2. CASE Uncounted(r)
  BY <1>1, <1>2 DEF Counted
<1>3. CASE ~Uncounted(r)
  BY <1>1, <1>3 DEF Counted
<1> QED  BY <1>2, <1>3

LEMMA CountInvStep == SenderInv /\ SenderInv' /\ CountInv /\ [Next]_vars => CountInv'
<1> SUFFICES ASSUME SenderInv, SenderInv', CountInv, [Next]_vars PROVE CountInv'
  OBVIOUS
<1>0. TypeInv /\ TypeOK /\ OutboxInv /\ LeaseInv /\ OneSender /\ DeliveriesAssumption
  BY DeliveriesAssumption DEF SenderInv, TypeInv
<1>1. ASSUME UNCHANGED <<job, delivery, sent, told, doubled>> PROVE CountInv'
  BY <1>1 DEF CountInv, Exists
<1>2. ASSUME NEW S, delivery' = Cascaded(S), UNCHANGED <<job, sent, told, doubled>> PROVE CountInv'
  <2>1. \A r \in Rows : delivery'[r] = delivery[r] \/ delivery'[r].status = "deleted"
    BY <1>0, <1>2, CascadeType
  <2> QED  BY <1>2, <2>1 DEF CountInv, Exists
<1>3. ASSUME \A r \in Rows : \/ delivery'[r] = delivery[r]
                             \/ delivery[r].status = "absent" /\ delivery'[r] = CreateDelivery,
             UNCHANGED <<job, sent, told, doubled>>
      PROVE  CountInv'
  <2>1. \A d \in Dispatchers, r \in Rows : job[d][r].pc \in AtHand => delivery'[r] = delivery[r]
    BY <1>0, <1>3 DEF LeaseInv, WorksOn, AtHand
  <2>2. CreateDelivery.status = "pending"
    BY DEF CreateDelivery
  <2> QED  BY <1>3, <2>1, <2>2 DEF CountInv, Exists
<1>4. ASSUME NEW past \in Rows, Redeliver(past) PROVE CountInv'
  <2>1. PICK r \in Redeliveries : delivery[r].status = "absent" /\ delivery' = [delivery EXCEPT ![r] = CreateDelivery]
    BY <1>4 DEF Redeliver
  <2> QED  BY <1>0, <1>3, <1>4, <2>1 DEF Redeliver, TypeOK, history
<1>5. ASSUME NEW d \in Dispatchers, CommitOutbox(d) PROVE CountInv'
  <2>1. \A r \in Rows : \/ delivery'[r] = delivery[r]
                        \/ delivery[r].status = "absent" /\ delivery'[r] = CreateDelivery
    BY <1>0, <1>5 DEF CommitOutbox, OutboxInv, TypeOK
  <2> QED  BY <1>3, <1>5, <2>1 DEF CommitOutbox, history
<1>6. ASSUME NEW d \in Dispatchers, ProcessDeliveries(d) PROVE CountInv'
  <2>1. PICK due \in SUBSET Rows :
          /\ \A r \in due : /\ delivery[r].status \in {"pending", "failed"}
                            /\ delivery[r].next_retry_at = "passed"
                            /\ delivery'[r].next_retry_at = "lease"
                            /\ job'[d][r] = [pc |-> "queued", attempt |-> delivery[r].attempt]
          /\ \A r \in Rows \ due : delivery'[r] = delivery[r] /\ job'[d][r] = NoJob
          /\ \A r \in Rows : /\ delivery'[r].status = delivery[r].status
                             /\ delivery'[r].attempt = delivery[r].attempt
          /\ \A c \in Dispatchers \ {d} : job'[c] = job[c]
    BY <1>0, <1>6, ClaimEffect
  <2>2. UNCHANGED <<sent, told, doubled>>
    BY <1>6 DEF ProcessDeliveries, history
  <2>3. \A r \in due : job'[d][r].pc = "queued" /\ job'[d][r].attempt = delivery[r].attempt
    <3> TAKE r \in due
    <3>1. job'[d][r] = [pc |-> "queued", attempt |-> delivery[r].attempt]
      BY <2>1
    <3> QED  BY <3>1
  <2>4. \A r \in Rows \ due : job'[d][r].pc = "none"
    BY <2>1 DEF NoJob
  <2>5. ASSUME NEW c \in Dispatchers, NEW r \in Rows \ doubled, job'[c][r].pc \in AtHand, Exists(r)'
        PROVE  delivery'[r].status \in {"pending", "failed"} /\ delivery'[r].attempt = job'[c][r].attempt
    <3>1. CASE c = d
      BY <2>1, <2>3, <2>4, <2>5, <3>1 DEF AtHand
    <3>2. CASE c # d
      BY <2>1, <2>2, <2>5, <3>2 DEF CountInv, Exists
    <3> QED  BY <3>1, <3>2
  <2>6. ASSUME NEW c \in Dispatchers, NEW r \in Rows, job'[c][r].pc = "ok" PROVE r \in told'
    <3>1. c # d
      BY <2>3, <2>4, <2>6
    <3> QED  BY <2>1, <2>2, <2>6, <3>1 DEF CountInv
  <2> QED  BY <2>1, <2>2, <2>5, <2>6 DEF CountInv
<1>7. ASSUME NEW d \in Dispatchers, NEW r \in Rows, WriteResult(d, r) PROVE CountInv'
  <2>1. /\ \A q \in Rows \ {r} : delivery'[q] = delivery[q]
        /\ ~Exists(r) => delivery' = delivery
        /\ Exists(r) => delivery'[r].status # "absent"
    BY <1>0, <1>7, WriteEffect
  <2>2. UNCHANGED <<sent, told, doubled>> /\ WorksOn(d, r)
    BY <1>0, <1>7, AttemptEffect DEF WriteResult, history
  <2>3. /\ job'[d][r].pc \in {"reset", "count", "none"}
        /\ \A c \in Dispatchers, q \in Rows : c # d \/ q # r => job'[c][q] = job[c][q]
    BY <1>0, <1>7, GotoEffect DEF WriteResult, RecordResult
  <2>4. \A c \in Dispatchers \ {d} : r \notin doubled => job[c][r].pc = "none"
    BY <1>0, <2>2 DEF OneSender, WorksOn
  <2>5. ASSUME NEW c \in Dispatchers, NEW q \in Rows \ doubled, job'[c][q].pc \in AtHand, Exists(q)'
        PROVE  delivery'[q].status \in {"pending", "failed"} /\ delivery'[q].attempt = job'[c][q].attempt
    <3>1. q # r
      BY <2>3, <2>4, <2>5 DEF AtHand
    <3> QED  BY <2>1, <2>3, <2>5, <3>1 DEF CountInv, Exists
  <2>6. \A c \in Dispatchers, q \in Rows : job'[c][q].pc = "ok" => q \in told'
    BY <2>2, <2>3 DEF CountInv
  <2>7. \A q \in Rows : delivery'[q].status = "absent" => delivery[q].status = "absent"
    BY <2>1 DEF Exists
  <2> QED  BY <2>2, <2>5, <2>6, <2>7 DEF CountInv
<1>8. ASSUME NEW d \in Dispatchers, NEW r \in Rows, NEW pc, Goto(d, r, pc), WorksOn(d, r),
             UNCHANGED <<delivery, doubled>>,
             \A q \in Rows : sent'[q] = sent[q] \/ q = r,
             told \subseteq told', pc = "ok" => r \in told',
             pc \in AtHand => job[d][r].pc \in AtHand
      PROVE  CountInv'
  <2>1. /\ \A c \in Dispatchers, q \in Rows : c # d \/ q # r => job'[c][q] = job[c][q]
        /\ job'[d][r].pc = pc /\ (pc # "none" => job'[d][r].attempt = job[d][r].attempt)
    BY <1>0, <1>8, GotoEffect
  <2>2. delivery[r].status # "absent"
    BY <1>0, <1>8 DEF LeaseInv
  <2> QED  BY <1>8, <2>1, <2>2 DEF CountInv, Exists, AtHand
<1>9. ASSUME NEW d \in Dispatchers, NEW r \in Rows, Send(d, r) PROVE CountInv'
  <2>1. PICK received \in BOOLEAN, ok \in BOOLEAN :
          /\ ok => received
          /\ told' = IF received THEN told \cup {r} ELSE told
          /\ Goto(d, r, IF ok THEN "ok" ELSE "bad")
    BY <1>9 DEF Send
  <2>2. WorksOn(d, r) /\ job[d][r].pc \in AtHand
    BY <1>9 DEF Send, JobAt, WorksOn, AtHand
  <2>3. \A q \in Rows : sent'[q] = sent[q] \/ q = r
    BY <1>0, <1>9 DEF Send, TypeOK
  <2> QED  BY <1>8, <1>9, <2>1, <2>2, <2>3 DEF Send
<1>10. ASSUME NEW d \in Dispatchers, NEW r \in Rows,
              LoadAttempt(d, r) \/ CountResult(d, r) \/ LoseResult(d, r)
       PROVE  CountInv'
  <2>1. UNCHANGED <<delivery, doubled, sent, told>>
    BY <1>10 DEF LoadAttempt, CountResult, LoseResult, history
  <2>2. WorksOn(d, r)
    BY <1>0, <1>10, AttemptEffect
  <2>3. PICK pc : Goto(d, r, pc) /\ pc # "ok" /\ (pc \in AtHand => job[d][r].pc \in AtHand)
    BY <1>10 DEF LoadAttempt, CountResult, LoseResult, JobAt, AtHand
  <2> QED  BY <1>8, <2>1, <2>2, <2>3
<1>11. ASSUME NEW d \in Dispatchers, Crash(d) PROVE CountInv'
  <2>1. \A c \in Dispatchers, q \in Rows : job'[c][q] = job[c][q] \/ job'[c][q].pc = "none"
    BY <1>0, <1>11 DEF Crash, NoJob, TypeOK
  <2> QED  BY <1>11, <2>1 DEF Crash, history, CountInv, Exists, AtHand
<1>12. ASSUME NEW r \in Rows, LeaseEnds(r) \/ BackoffEnds(r) PROVE CountInv'
  <2>1. \A q \in Rows : delivery'[q].status = delivery[q].status /\ delivery'[q].attempt = delivery[q].attempt
    BY <1>0, <1>12, TimeEffect
  <2>2. UNCHANGED <<job, sent, told>> /\ doubled \subseteq doubled'
    BY <1>12 DEF LeaseEnds, BackoffEnds, history
  <2> QED  BY <2>1, <2>2 DEF CountInv, Exists
<1>13. ASSUME NEW w \in Webhooks,
              CheckWebhookQuota(w) \/ CreateWebhook(w) \/ UpdateWebhook(w) \/ DeleteWebhook(w)
       PROVE  CountInv'
  BY <1>1, <1>2, <1>13 DEF CheckWebhookQuota, CreateWebhook, UpdateWebhook, DeleteWebhook, history
<1>14. ASSUME NEW e \in Events, Write(e) \/ PurgeOldEvents(e) PROVE CountInv'
  BY <1>1, <1>2, <1>14 DEF Write, PurgeOldEvents, history
<1>15. ASSUME NEW d \in Dispatchers, ProcessOutbox(d) PROVE CountInv'
  BY <1>1, <1>15 DEF ProcessOutbox
<1>16. CASE UNCHANGED vars
  BY <1>1, <1>16 DEF vars
<1> QED  BY <1>4, <1>5, <1>6, <1>7, <1>9, <1>10, <1>11, <1>12, <1>13, <1>14, <1>15, <1>16
           DEF Next, Clients, Dispatch

LEMMA CountedStep ==
    SenderInv /\ SenderInv' /\ CountInv /\ AttemptsCounted /\ [Next]_vars => AttemptsCounted'
<1> SUFFICES ASSUME SenderInv, SenderInv', CountInv, AttemptsCounted, [Next]_vars,
                    NEW r \in Rows, r \notin doubled', Exists(r)'
             PROVE  Counted(r)'
  BY DEF AttemptsCounted, Counted, Uncounted, Exists
<1>0. TypeInv /\ TypeInv' /\ TypeOK /\ OutboxInv /\ LeaseInv /\ OneSender /\ DeliveriesAssumption
  BY DeliveriesAssumption DEF SenderInv, TypeInv
<1>1. sent[r] \in Nat /\ faults \in Nat /\ delivery[r].attempt \in Nat
  BY <1>0 DEF TypeOK, Delivery
<1>2. r \notin doubled /\ Exists(r) => Counted(r)
  BY DEF AttemptsCounted, Counted, Uncounted
\* The step leaves the count and the delivery alone and forgets no attempt.
<1>3. ASSUME delivery'[r] = delivery[r], r \notin doubled, sent'[r] = sent[r], faults' >= faults,
             Uncounted(r) => Uncounted(r)' \/ faults' > faults
      PROVE  Counted(r)'
  BY <1>0, <1>1, <1>2, <1>3, CountKept DEF Exists
<1>4. ASSUME UNCHANGED <<delivery, doubled, sent, job, faults>> PROVE Counted(r)'
  BY <1>1, <1>3, <1>4 DEF Uncounted
\* The step creates the delivery.
<1>5. ASSUME delivery[r].status = "absent", delivery'[r] = CreateDelivery, UNCHANGED <<sent, faults>>
      PROVE  Counted(r)'
  <2>1. sent[r] = 0
    BY <1>5 DEF CountInv
  <2>2. CreateDelivery.attempt = 0
    BY DEF CreateDelivery
  <2> QED  BY <1>1, <1>5, <2>1, <2>2 DEF Counted
<1>6. ASSUME NEW S, delivery' = Cascaded(S), UNCHANGED <<doubled, sent, job, faults>> PROVE Counted(r)'
  <2>1. delivery'[r] = delivery[r]
    BY <1>0, <1>6, CascadeType DEF Exists
  <2> QED  BY <1>1, <1>3, <1>6, <2>1 DEF Uncounted
<1>7. ASSUME NEW past \in Rows, Redeliver(past) PROVE Counted(r)'
  <2>1. PICK q \in Redeliveries : delivery[q].status = "absent" /\ delivery' = [delivery EXCEPT ![q] = CreateDelivery]
    BY <1>7 DEF Redeliver
  <2>2. UNCHANGED <<doubled, sent, job, faults>>
    BY <1>7 DEF Redeliver, history
  <2>3. CASE r = q
    BY <1>0, <1>5, <2>1, <2>2, <2>3 DEF TypeOK
  <2>4. CASE r # q
    BY <1>0, <1>1, <1>3, <2>1, <2>2, <2>4 DEF TypeOK, Uncounted
  <2> QED  BY <2>3, <2>4
<1>8. ASSUME NEW d \in Dispatchers, CommitOutbox(d) PROVE Counted(r)'
  <2>1. \/ delivery'[r] = delivery[r]
        \/ delivery[r].status = "absent" /\ delivery'[r] = CreateDelivery
    BY <1>0, <1>8 DEF CommitOutbox, OutboxInv, TypeOK
  <2>2. UNCHANGED <<doubled, sent, job, faults>>
    BY <1>8 DEF CommitOutbox, history
  <2> QED  BY <1>1, <1>3, <1>5, <2>1, <2>2 DEF Uncounted
<1>9. ASSUME NEW d \in Dispatchers, ProcessDeliveries(d) PROVE Counted(r)'
  <2>1. /\ delivery'[r].status = delivery[r].status /\ delivery'[r].attempt = delivery[r].attempt
        /\ \A c \in Dispatchers \ {d} : job'[c] = job[c]
    BY <1>0, <1>9, ClaimEffect
  <2>2. UNCHANGED <<doubled, sent, faults>>
    BY <1>9 DEF ProcessDeliveries, history
  <2>3. job[d][r].pc = "none"
    BY <1>0, <1>9 DEF ProcessDeliveries, At, LeaseInv, Waited, WorksOn
  <2>4. Uncounted(r) => Uncounted(r)'
    BY <2>1, <2>3 DEF Uncounted
  <2> QED  BY <1>0, <1>1, <1>2, <2>1, <2>2, <2>4, CountKept DEF Exists
<1>10. ASSUME NEW d \in Dispatchers, NEW q \in Rows, WriteResult(d, q) PROVE Counted(r)'
  <2>1. UNCHANGED <<doubled, sent, faults>>
    BY <1>10 DEF WriteResult, history
  <2>2. \A c \in Dispatchers, p \in Rows : c # d \/ p # q => job'[c][p] = job[c][p]
    BY <1>0, <1>10, GotoEffect DEF WriteResult, RecordResult
  <2>3. CASE r # q
    <3>1. delivery'[r] = delivery[r]
      BY <1>0, <1>10, <2>3, WriteEffect
    <3>2. Uncounted(r) => Uncounted(r)'
      BY <2>2, <2>3 DEF Uncounted
    <3> QED  BY <1>1, <1>3, <2>1, <3>1, <3>2
  <2>4. CASE r = q
    <3>1. Exists(r) /\ delivery'[r].attempt = job[d][r].attempt + 1
      BY <1>0, <1>10, <2>4, WriteEffect DEF Exists
    <3>2. job[d][r].pc \in AtHand
      BY <1>10, <2>4 DEF WriteResult, RecordResult, JobAt, AtHand
    <3>3. delivery'[r].attempt = delivery[r].attempt + 1
      BY <2>1, <3>1, <3>2 DEF CountInv
    <3> QED  BY <1>0, <1>1, <1>2, <2>1, <3>1, <3>3, CountKept
  <2> QED  BY <2>3, <2>4
<1>11. ASSUME NEW d \in Dispatchers, NEW q \in Rows, Send(d, q) PROVE Counted(r)'
  <2>1. /\ UNCHANGED <<doubled, delivery, faults>>
        /\ sent' = [sent EXCEPT ![q] = sent[q] + 1]
        /\ job[d][q].pc = "send"
        /\ Goto(d, q, "ok") \/ Goto(d, q, "bad")
    BY <1>11 DEF Send, JobAt
  <2>2. /\ \A c \in Dispatchers, p \in Rows : c # d \/ p # q => job'[c][p] = job[c][p]
        /\ job'[d][q].pc \in {"ok", "bad"}
    BY <1>0, <2>1, GotoEffect
  <2>3. CASE r # q
    <3>1. sent'[r] = sent[r] /\ (Uncounted(r) => Uncounted(r)')
      BY <1>0, <2>1, <2>2, <2>3 DEF TypeOK, Uncounted
    <3> QED  BY <1>1, <1>3, <2>1, <3>1
  <2>4. CASE r = q
    <3>1. Uncounted(r)' /\ ~Uncounted(r)
      BY <1>0, <2>1, <2>2, <2>4 DEF OneSender, WorksOn, Uncounted
    <3>2. sent'[r] = sent[r] + 1
      BY <1>0, <2>1, <2>4 DEF TypeOK
    <3>3. Counted(r)
      BY <1>2, <2>1 DEF Exists
    <3> QED  BY <1>1, <2>1, <3>1, <3>2, <3>3 DEF Counted
  <2> QED  BY <2>3, <2>4
<1>12. ASSUME NEW d \in Dispatchers, NEW q \in Rows, LoadAttempt(d, q) \/ CountResult(d, q) PROVE Counted(r)'
  <2>1. UNCHANGED <<doubled, delivery, sent, faults>> /\ job[d][q].pc \notin {"ok", "bad"}
    BY <1>12 DEF LoadAttempt, CountResult, JobAt, history
  <2>2. \A c \in Dispatchers, p \in Rows : c # d \/ p # q => job'[c][p] = job[c][p]
    BY <1>0, <1>12, AttemptEffect, GotoEffect
  <2>3. Uncounted(r) => Uncounted(r)'
    BY <2>1, <2>2 DEF Uncounted
  <2> QED  BY <1>1, <1>3, <2>1, <2>3
<1>13. ASSUME UNCHANGED <<delivery, doubled, sent>>, faults' = faults + 1 PROVE Counted(r)'
  BY <1>1, <1>3, <1>13
<1>14. ASSUME NEW q \in Rows, LeaseEnds(q) \/ BackoffEnds(q) PROVE Counted(r)'
  <2>1. delivery'[r].status = delivery[r].status /\ delivery'[r].attempt = delivery[r].attempt
    BY <1>0, <1>14, TimeEffect
  <2>2. UNCHANGED <<job, sent, faults>> /\ doubled \subseteq doubled'
    BY <1>14 DEF LeaseEnds, BackoffEnds, history
  <2>3. Uncounted(r) => Uncounted(r)'
    BY <2>2 DEF Uncounted
  <2> QED  BY <1>0, <1>1, <1>2, <2>1, <2>2, <2>3, CountKept DEF Exists
<1>15. ASSUME NEW w \in Webhooks,
              CheckWebhookQuota(w) \/ CreateWebhook(w) \/ UpdateWebhook(w) \/ DeleteWebhook(w)
       PROVE  Counted(r)'
  BY <1>4, <1>6, <1>15 DEF CheckWebhookQuota, CreateWebhook, UpdateWebhook, DeleteWebhook, history
<1>16. ASSUME NEW e \in Events, Write(e) \/ PurgeOldEvents(e) PROVE Counted(r)'
  BY <1>4, <1>6, <1>16 DEF Write, PurgeOldEvents, history
<1>17. ASSUME NEW d \in Dispatchers, ProcessOutbox(d) PROVE Counted(r)'
  BY <1>4, <1>17 DEF ProcessOutbox
<1>18. ASSUME NEW d \in Dispatchers, Crash(d) \/ \E q \in Rows : LoseResult(d, q) PROVE Counted(r)'
  BY <1>13, <1>18 DEF Crash, LoseResult, Fault, history
<1>19. CASE UNCHANGED vars
  BY <1>4, <1>19 DEF vars
<1> QED  BY <1>7, <1>8, <1>9, <1>10, <1>11, <1>12, <1>14, <1>15, <1>16, <1>17, <1>18, <1>19
           DEF Next, Clients, Dispatch

\* Every request an endpoint gets is counted on its delivery, whatever dispatchers do at the same
\* time; beyond that there is one for each crash or lost write (dispatcher.go:206-244).
THEOREM RequestsCounted == Spec => []AttemptsCounted
<1> DEFINE I == SenderInv /\ CountInv /\ AttemptsCounted
<1>1. Init => CountInv /\ AttemptsCounted
  BY DEF Init, CountInv, AttemptsCounted, Exists, NoDelivery, NoJob, AtHand
<1>2. I /\ SenderInv' /\ [Next]_vars => I'
  BY CountInvStep, CountedStep
<1>3. I => AttemptsCounted
  OBVIOUS
<1> QED  BY <1>1, <1>2, <1>3, SenderInvHolds, PTL DEF Spec

-------------------------------------------------------------------------------
(* Fanning out: no steady subscriber is forgotten.                         *)

\* Whoever is steady is active and subscribed now, and was listed by the transaction that holds
\* the event, unless that transaction left an active webhook out.
FanOutInv ==
    /\ \A w \in Webhooks : webhook[w].active => webhook[w].exists
    /\ \A w \in creating : ~webhook[w].exists
    /\ \A e \in Events, w \in Webhooks : w \in steady[e] =>
          /\ webhook[w].active /\ subscribed(webhook[w].events, TypeOf[e])
          /\ event[e] # "none"
    /\ \A d \in Dispatchers : \A e \in cycle[d].evs \ crowded : \A w \in steady[e] : <<w, e, 0>> \in cycle[d].hooks

\* Only a deletion changes whether a webhook that is there exists, and what an attempt counts
\* never brings one back.
LEMMA WebhookEffect ==
    ASSUME TypeInv, FanOutInv,
           \/ \E w \in Webhooks : UpdateWebhook(w) \/ DeleteWebhook(w)
           \/ \E d \in Dispatchers, r \in Rows : CountResult(d, r)
    PROVE  /\ \A w \in Webhooks : webhook'[w].active => webhook'[w].exists
           /\ \A w \in Webhooks : webhook'[w].exists => webhook[w].exists
<1>0. TypeOK /\ webhook \in [Webhooks -> Webhook]
  BY DEF TypeInv, TypeOK
<1> DEFINE Goal == /\ \A w \in Webhooks : webhook'[w].active => webhook'[w].exists
                   /\ \A w \in Webhooks : webhook'[w].exists => webhook[w].exists
<1>1. ASSUME NEW w \in Webhooks, NEW h, webhook' = [webhook EXCEPT ![w] = h],
             h.active => h.exists, h.exists => webhook[w].exists
      PROVE  Goal
  BY <1>0, <1>1 DEF FanOutInv
<1>2. ASSUME NEW w \in Webhooks, UpdateWebhook(w) PROVE Goal
  <2>1. PICK types \in Subscriptions, active \in BOOLEAN :
          webhook' = [webhook EXCEPT ![w] = UpdatedWebhook(webhook[w], types, active)]
    BY <1>2 DEF UpdateWebhook
  <2>2. UpdatedWebhook(webhook[w], types, active).exists = webhook[w].exists
    BY <1>0 DEF UpdatedWebhook, Webhook
  <2> QED  BY <1>1, <1>2, <2>1, <2>2 DEF UpdateWebhook
<1>3. ASSUME NEW w \in Webhooks, DeleteWebhook(w) PROVE Goal
  BY <1>1, <1>3 DEF DeleteWebhook, NoWebhook
<1>4. ASSUME NEW d \in Dispatchers, NEW r \in Rows, CountResult(d, r) PROVE Goal
  <2>1. HookOf(r) \in Webhooks /\ webhook[HookOf(r)] \in Webhook
    BY <1>0, RowParts
  <2>2. \A h \in {RecordWebhookSuccess(webhook[HookOf(r)]), RecordWebhookFailure(webhook[HookOf(r)]),
                   DisableWebhook(webhook[HookOf(r)])} :
          /\ h.exists = webhook[HookOf(r)].exists
          /\ h.active => webhook[HookOf(r)].active
    BY <2>1 DEF RecordWebhookSuccess, RecordWebhookFailure, DisableWebhook, Webhook
  <2>3. PICK h \in {RecordWebhookSuccess(webhook[HookOf(r)]), RecordWebhookFailure(webhook[HookOf(r)]),
                    DisableWebhook(webhook[HookOf(r)])} : Touch(HookOf(r), h)
    BY <1>4 DEF CountResult
  <2>4. (h.active => h.exists) /\ (h.exists => webhook[HookOf(r)].exists)
    BY <2>1, <2>2 DEF FanOutInv
  <2>5. CASE webhook' = webhook
    BY <2>5 DEF FanOutInv
  <2> QED  BY <1>1, <2>1, <2>3, <2>4, <2>5 DEF Touch
<1> QED  BY <1>2, <1>3, <1>4

LEMMA FanOutStep ==
    TypeInv /\ OutboxInv /\ FanOutInv /\ NoneForgotten /\ [Next]_vars => FanOutInv' /\ NoneForgotten'
<1> SUFFICES ASSUME TypeInv, OutboxInv, FanOutInv, NoneForgotten, [Next]_vars
             PROVE  FanOutInv' /\ NoneForgotten'
  OBVIOUS
<1>0. TypeOK
  BY DEF TypeInv
<1>1. ASSUME UNCHANGED <<event, webhook, creating, steady, crowded>>,
             \A c \in Dispatchers : cycle'[c] = cycle[c] \/ cycle'[c].evs = {},
             \A q \in Rows : delivery'[q].status = "absent" => delivery[q].status = "absent"
      PROVE  FanOutInv' /\ NoneForgotten'
  BY <1>1, RowParts DEF FanOutInv, NoneForgotten
\* steady is recomputed.
<1>2. ASSUME StillSteady, UNCHANGED <<event, cycle, creating, crowded>>,
             \A w \in Webhooks : webhook'[w].active => webhook'[w].exists,
             \A w \in Webhooks : webhook'[w].exists => webhook[w].exists,
             \A q \in Rows : delivery'[q].status = "absent" => delivery[q].status = "absent"
      PROVE  FanOutInv' /\ NoneForgotten'
  <2>1. \A e \in Events, w \in Webhooks : w \in steady'[e] =>
           w \in steady[e] /\ webhook'[w].active /\ subscribed(webhook'[w].events, TypeOf[e])
    BY <1>2 DEF StillSteady
  <2>2. /\ \A e \in Events : steady'[e] \subseteq Webhooks
        /\ creating \subseteq Webhooks /\ \A d \in Dispatchers : cycle[d].evs \subseteq Events
    BY <1>0, <1>2 DEF StillSteady, TypeOK
  <2>3. FanOutInv'
    BY <1>2, <2>1, <2>2 DEF FanOutInv
  <2>4. NoneForgotten'
    BY <1>2, <2>1, RowParts DEF NoneForgotten
  <2> QED  BY <2>3, <2>4
<1>3. ASSUME NEW e \in Events, Write(e) PROVE FanOutInv' /\ NoneForgotten'
  <2>1. /\ event[e] = "none" /\ event'[e] = "new" /\ \A f \in Events \ {e} : event'[f] = event[f]
        /\ steady'[e] = Entitled(e) /\ \A f \in Events \ {e} : steady'[f] = steady[f]
        /\ UNCHANGED <<webhook, creating, delivery, cycle, crowded>>
    BY <1>0, <1>3 DEF Write, TypeOK, clients
  <2>2. \A d \in Dispatchers : e \notin cycle[d].evs /\ cycle[d].evs \subseteq Events
    BY <1>0, <2>1 DEF OutboxInv, TypeOK
  <2>3. FanOutInv'
    BY <2>1, <2>2 DEF FanOutInv, Entitled
  <2>4. NoneForgotten'
    BY <2>1 DEF NoneForgotten
  <2> QED  BY <2>3, <2>4
<1>4. ASSUME NEW w \in Webhooks, CheckWebhookQuota(w) PROVE FanOutInv' /\ NoneForgotten'
  BY <1>4 DEF CheckWebhookQuota, FanOutInv, NoneForgotten, history
<1>5. ASSUME NEW w \in Webhooks, CreateWebhook(w) PROVE FanOutInv' /\ NoneForgotten'
  <2>1. PICK types \in Subscriptions : webhook' = [webhook EXCEPT ![w] = CreatedWebhook(types)]
    BY <1>5 DEF CreateWebhook
  <2>2. /\ webhook'[w].exists /\ \A v \in Webhooks \ {w} : webhook'[v] = webhook[v]
        /\ w \notin creating' /\ creating' \subseteq creating /\ creating \subseteq Webhooks
    BY <1>0, <1>5, <2>1 DEF CreateWebhook, CreatedWebhook, TypeOK
  <2>3. \A e \in Events : w \notin steady[e]
    BY <1>5 DEF CreateWebhook, FanOutInv
  <2>4. UNCHANGED <<event, delivery, cycle, steady, crowded>>
    BY <1>5 DEF CreateWebhook, history
  <2>5. FanOutInv'
    BY <2>2, <2>3, <2>4 DEF FanOutInv
  <2>6. NoneForgotten'
    BY <2>4 DEF NoneForgotten
  <2> QED  BY <2>5, <2>6
<1>6. ASSUME NEW w \in Webhooks, UpdateWebhook(w) \/ DeleteWebhook(w) PROVE FanOutInv' /\ NoneForgotten'
  <2>1. StillSteady /\ UNCHANGED <<event, cycle, creating, crowded>>
    BY <1>6 DEF UpdateWebhook, DeleteWebhook
  <2>2. \A q \in Rows : delivery'[q].status = "absent" => delivery[q].status = "absent"
    BY <1>6, AbsentKept DEF UpdateWebhook
  <2> QED  BY <1>2, <1>6, <2>1, <2>2, WebhookEffect
<1>7. ASSUME NEW d \in Dispatchers, NEW r \in Rows, CountResult(d, r) PROVE FanOutInv' /\ NoneForgotten'
  <2>1. StillSteady /\ UNCHANGED <<event, cycle, creating, crowded, delivery>>
    BY <1>7 DEF CountResult, clients
  <2> QED  BY <1>2, <1>7, <2>1, WebhookEffect
<1>8. ASSUME NEW e \in Events, PurgeOldEvents(e) PROVE FanOutInv' /\ NoneForgotten'
  <2>1. event' = [event EXCEPT ![e] = "purged"] /\ UNCHANGED <<webhook, creating, steady, crowded, cycle>>
    BY <1>8 DEF PurgeOldEvents, clients, history
  <2>2. \A q \in Rows : delivery'[q].status = "absent" => delivery[q].status = "absent"
    BY <1>8, AbsentKept
  <2>3. \A f \in Events : event'[f] = event[f] \/ event'[f] = "purged"
    BY <1>0, <2>1 DEF TypeOK
  <2>4. FanOutInv'
    BY <2>1, <2>3 DEF FanOutInv
  <2>5. NoneForgotten'
    BY <2>1, <2>2, <2>3, RowParts DEF NoneForgotten
  <2> QED  BY <2>4, <2>5
<1>9. ASSUME NEW d \in Dispatchers, ProcessOutbox(d) PROVE FanOutInv' /\ NoneForgotten'
  <2>1. PICK evs \in ClaimUnprocessedEvents, hooks \in ListActiveWebhooksForUser :
          /\ cycle' = [cycle EXCEPT ![d] = [pc |-> IF evs = {} THEN "claim" ELSE "commit", evs |-> evs,
                                           hooks |-> Fan(evs, hooks)]]
          /\ Crowding(evs, hooks)
    BY <1>9 DEF ProcessOutbox
  <2>2. evs \subseteq Events /\ crowded \subseteq crowded'
    BY <2>1 DEF ClaimUnprocessedEvents, Limited, Crowding
  <2>3. /\ cycle'[d].evs = evs /\ cycle'[d].hooks = Fan(evs, hooks)
        /\ \A c \in Dispatchers \ {d} : cycle'[c] = cycle[c]
    BY <1>0, <2>1 DEF TypeOK
  <2>4. UNCHANGED <<event, webhook, creating, delivery, steady>>
    BY <1>9 DEF ProcessOutbox, clients
  <2>5. ASSUME NEW e \in evs \ crowded', NEW w \in steady[e] PROVE <<w, e, 0>> \in Fan(evs, hooks)
    <3>1. w \in Webhooks /\ webhook[w].active /\ subscribed(webhook[w].events, TypeOf[e])
      BY <1>0, <2>2 DEF FanOutInv, TypeOK
    <3>2. w \in hooks
      BY <2>1, <3>1 DEF Crowding
    <3> QED  BY <2>2, <3>1, <3>2, RowParts DEF Fan
  <2>6. FanOutInv'
    BY <2>2, <2>3, <2>4, <2>5 DEF FanOutInv
  <2>7. NoneForgotten'
    BY <2>2, <2>4 DEF NoneForgotten
  <2> QED  BY <2>6, <2>7
<1>10. ASSUME NEW d \in Dispatchers, CommitOutbox(d) PROVE FanOutInv' /\ NoneForgotten'
  <2>1. cycle'[d].evs = {} /\ \A c \in Dispatchers \ {d} : cycle'[c] = cycle[c]
    BY <1>0, <1>10 DEF CommitOutbox, NoClaim, TypeOK
  <2>2. UNCHANGED <<webhook, creating, steady, crowded>>
    BY <1>10 DEF CommitOutbox, clients, history
  <2>3. \A e \in Events : event'[e] = event[e] \/ event'[e] = "processed"
    BY <1>0, <1>10 DEF CommitOutbox, TypeOK
  <2>4. FanOutInv'
    BY <2>1, <2>2, <2>3 DEF FanOutInv
  <2>5. ASSUME NEW e \in Events, NEW w \in Webhooks, event'[e] = "processed", e \notin crowded', w \in steady'[e]
        PROVE  delivery'[<<w, e, 0>>].status # "absent"
    <3>1. <<w, e, 0>> \in Rows /\ CreateDelivery.status = "pending"
      BY RowParts DEF CreateDelivery
    <3>2. CASE UNCHANGED <<event, delivery>>
      BY <2>2, <2>5, <3>2 DEF NoneForgotten
    <3>3. CASE /\ event' = [f \in Events |-> IF f \in cycle[d].evs THEN "processed" ELSE event[f]]
               /\ delivery' = [r \in Rows |-> IF r \in cycle[d].hooks THEN CreateDelivery ELSE delivery[r]]
      <4>1. CASE e \in cycle[d].evs
        <5>1. <<w, e, 0>> \in cycle[d].hooks
          BY <2>2, <2>5, <4>1 DEF FanOutInv
        <5> QED  BY <3>1, <3>3, <5>1
      <4>2. CASE e \notin cycle[d].evs
        <5>1. delivery[<<w, e, 0>>].status # "absent"
          BY <2>2, <2>5, <3>3, <4>2 DEF NoneForgotten
        <5> QED  BY <3>1, <3>3, <5>1
      <4> QED  BY <4>1, <4>2
    <3> QED  BY <1>10, <3>2, <3>3 DEF CommitOutbox
  <2> QED  BY <2>4, <2>5 DEF NoneForgotten
<1>11. ASSUME NEW past \in Rows, Redeliver(past) PROVE FanOutInv' /\ NoneForgotten'
  <2>1. PICK r \in Redeliveries : delivery' = [delivery EXCEPT ![r] = CreateDelivery]
    BY <1>11 DEF Redeliver
  <2>2. \A q \in Rows : delivery'[q].status = "absent" => delivery[q].status = "absent"
    BY <1>0, <2>1 DEF CreateDelivery, TypeOK
  <2> QED  BY <1>1, <1>11, <2>2 DEF Redeliver, history
<1>12. ASSUME NEW d \in Dispatchers, ProcessDeliveries(d) \/ Crash(d) PROVE FanOutInv' /\ NoneForgotten'
  <2>1. \A c \in Dispatchers : cycle'[c] = cycle[c] \/ cycle'[c].evs = {}
    BY <1>0, <1>12 DEF ProcessDeliveries, Crash, NoClaim, TypeOK
  <2>2. \A q \in Rows : delivery'[q].status = "absent" => delivery[q].status = "absent"
    BY <1>12, AbsentKept DEF Crash
  <2> QED  BY <1>1, <1>12, <2>1, <2>2 DEF ProcessDeliveries, Crash, clients, history
<1>13. ASSUME NEW d \in Dispatchers, NEW r \in Rows,
              LoadAttempt(d, r) \/ Send(d, r) \/ LoseResult(d, r)
       PROVE  FanOutInv' /\ NoneForgotten'
  BY <1>1, <1>13 DEF LoadAttempt, Send, LoseResult, clients, history
<1>14. ASSUME NEW d \in Dispatchers, NEW r \in Rows, WriteResult(d, r) PROVE FanOutInv' /\ NoneForgotten'
  BY <1>1, <1>14, AbsentKept DEF WriteResult, clients, history
<1>15. ASSUME NEW r \in Rows, LeaseEnds(r) \/ BackoffEnds(r) PROVE FanOutInv' /\ NoneForgotten'
  BY <1>1, <1>15, AbsentKept DEF LeaseEnds, BackoffEnds, clients, history
<1>16. CASE UNCHANGED vars
  BY <1>1, <1>16 DEF vars
<1> QED  BY <1>3, <1>4, <1>5, <1>6, <1>7, <1>8, <1>9, <1>10, <1>11, <1>12, <1>13, <1>14, <1>15, <1>16
           DEF Next, Clients, Dispatch

\* A webhook that stays active and subscribed from an event's writing on has a delivery of it
\* when the event is processed, however transactions, crashes and requests interleave
\* (dispatcher.go:123-162).
THEOREM SubscribersServed == Spec => []NoneForgotten
<1> DEFINE I == SenderInv /\ FanOutInv /\ NoneForgotten
<1>1. Init => FanOutInv /\ NoneForgotten
  BY DEF Init, FanOutInv, NoneForgotten, NoWebhook, CreatedWebhook, NoClaim
<1>2. I /\ SenderInv' /\ [Next]_vars => I'
  BY FanOutStep DEF SenderInv
<1>3. I => NoneForgotten
  OBVIOUS
<1> QED  BY <1>1, <1>2, <1>3, SenderInvHolds, PTL DEF Spec

-------------------------------------------------------------------------------
(* The refinement of DeliveryPromise.                                      *)

LEMMA StateValues ==
    /\ StateOf("absent") = "none" /\ StateOf("pending") = "owed" /\ StateOf("failed") = "owed"
    /\ StateOf("success") = "done" /\ StateOf("dead") = "dropped" /\ StateOf("deleted") = "forgotten"
  BY DEF StateOf

\* What a delivery's state says of its status.
LEMMA StatusOf ==
    ASSUME TypeInv, NEW r \in Rows
    PROVE  LET state == StateOf(delivery[r].status)
           IN  /\ state \in {"none", "owed", "done", "dropped", "forgotten"}
               /\ delivery[r].status = "absent" <=> state = "none"
               /\ delivery[r].status \in {"pending", "failed"} <=> state = "owed"
               /\ delivery[r].status = "success" <=> state = "done"
               /\ delivery[r].status = "dead" <=> state = "dropped"
               /\ delivery[r].status = "deleted" <=> state = "forgotten"
<1>1. delivery[r].status \in {"absent", "pending", "failed", "success", "dead", "deleted"}
  BY DEF TypeInv, TypeOK, Delivery
<1> QED  BY <1>1, StateValues

\* Every step is a step of the promise, or one it does not see.
LEMMA PromiseStep ==
    SenderInv /\ SenderInv' /\ CountInv /\ [Next]_vars => [Promise!Next]_<<News, told, States, doubled>>
<1> DEFINE Goal == [Promise!Next]_<<News, told, States, doubled>>
<1> SUFFICES ASSUME SenderInv, SenderInv', CountInv, [Next]_vars PROVE Goal
  OBVIOUS
<1>0. TypeInv /\ TypeOK /\ TypeInv' /\ OutboxInv /\ LeaseInv /\ DeliveriesAssumption
  BY DeliveriesAssumption DEF SenderInv, TypeInv
<1>a. States = [r \in Rows |-> States[r]] /\ States' = [r \in Rows |-> States'[r]]
  BY DEF States
<1>b. \A r \in Rows : States[r] = StateOf(delivery[r].status) /\ States'[r] = StateOf(delivery'[r].status)
  BY DEF States
\* Steps the promise does not see.
<1>1. ASSUME UNCHANGED <<event, told, doubled>>, \A r \in Rows : States'[r] = States[r] PROVE Goal
  <2>1. News' = News
    BY <1>1 DEF News
  <2>2. States' = States
    BY <1>a, <1>1
  <2> QED  BY <1>1, <1>a, <2>1, <2>2
<1>2. ASSUME UNCHANGED <<event, told, doubled>>, \A r \in Rows : delivery'[r].status = delivery[r].status PROVE Goal
  BY <1>1, <1>2, <1>b
<1>3. ASSUME UNCHANGED <<event, told, doubled, delivery>> PROVE Goal
  BY <1>2, <1>3
<1>4. ASSUME NEW e \in Events, Write(e) PROVE Goal
  <2>1. /\ event[e] = "none" /\ event' = [event EXCEPT ![e] = "new"]
        /\ UNCHANGED <<told, doubled, delivery>>
    BY <1>4 DEF Write
  <2>2. e \notin News /\ News' = News \cup {e}
    BY <1>0, <2>1 DEF News, TypeOK
  <2>3. States' = States
    BY <1>a, <2>1, <1>b
  <2>4. Promise!Record(e)
    BY <1>a, <2>1, <2>2, <2>3 DEF Promise!Record
  <2> QED  BY <2>4 DEF Promise!Next
<1>5. ASSUME NEW d \in Dispatchers, CommitOutbox(d) PROVE Goal
  <2> DEFINE E == cycle[d].evs
             R == cycle[d].hooks
  <2>1. UNCHANGED <<told, doubled>>
    BY <1>5 DEF CommitOutbox, history
  <2>2. CASE UNCHANGED <<event, delivery>>
    BY <1>3, <2>1, <2>2
  <2>3. CASE /\ event' = [e \in Events |-> IF e \in E THEN "processed" ELSE event[e]]
             /\ delivery' = [r \in Rows |-> IF r \in R THEN CreateDelivery ELSE delivery[r]]
    <3>1. E \in SUBSET News /\ E # {}
      BY <1>0, <1>5 DEF CommitOutbox, At, OutboxInv, News, TypeOK
    <3>2. \A r \in R : r \in Rows /\ EventOf(r) \in E /\ CopyOf(r) = 0 /\ event[EventOf(r)] = "new"
      BY <1>0 DEF OutboxInv, TypeOK
    <3>3. \A r \in R : delivery[r].status = "absent"
      BY <1>0, <3>2 DEF OutboxInv
    <3>4. R \in SUBSET {r \in Rows : States[r] = "none"}
      BY <3>2, <3>3, <1>b, StateValues
    <3>5. News' = News \ E
      BY <1>0, <2>3 DEF News, TypeOK
    <3>6. CreateDelivery.status = "pending"
      BY DEF CreateDelivery
    <3>7. \A r \in Rows : States'[r] = IF r \in R THEN "owed" ELSE States[r]
      BY <2>3, <3>6, <1>b, StateValues
    <3>8. States' = [r \in Rows |-> IF r \in R THEN "owed" ELSE States[r]]
      BY <1>a, <3>7
    <3> HIDE DEF E, R
    <3>9. Promise!FanOut
      BY <1>a, <2>1, <3>1, <3>2, <3>4, <3>5, <3>8 DEF Promise!FanOut
    <3> QED  BY <3>9 DEF Promise!Next
  <2> QED  BY <1>5, <2>2, <2>3 DEF CommitOutbox
<1>6. ASSUME NEW S, NEW E \in SUBSET News, delivery' = Cascaded(S), News' = News \ E, UNCHANGED <<told, doubled>>
      PROVE  Goal
  <2> DEFINE R == {r \in S \cap Rows : Exists(r)}
  <2>1. R \in SUBSET {r \in Rows : States[r] # "none"}
    BY <1>0, <1>b, StatusOf DEF Exists
  <2>2. \A r \in Rows : States'[r] = IF r \in R THEN "forgotten" ELSE States[r]
    <3>1. \A r \in Rows : delivery'[r] = IF r \in R THEN [NoDelivery EXCEPT !.status = "deleted"] ELSE delivery[r]
      BY <1>6 DEF Cascaded
    <3>2. [NoDelivery EXCEPT !.status = "deleted"].status = "deleted"
      BY DEF NoDelivery
    <3> QED  BY <1>b, <3>1, <3>2, StateValues
  <2>3. States' = [r \in Rows |-> IF r \in R THEN "forgotten" ELSE States[r]]
    BY <1>a, <2>2
  <2> HIDE DEF R
  <2>4. Promise!Forget
    BY <1>a, <1>6, <2>1, <2>3 DEF Promise!Forget
  <2> QED  BY <2>4 DEF Promise!Next
<1>7. ASSUME NEW w \in Webhooks, DeleteWebhook(w) PROVE Goal
  <2>1. News' = News \ {}
    BY <1>7 DEF DeleteWebhook, News
  <2> QED  BY <1>6, <1>7, <2>1 DEF DeleteWebhook
<1>8. ASSUME NEW e \in Events, PurgeOldEvents(e) PROVE Goal
  <2>1. News' = News \ ({e} \cap News)
    BY <1>0, <1>8 DEF PurgeOldEvents, News, TypeOK
  <2> QED  BY <1>6, <1>8, <2>1 DEF PurgeOldEvents, history
<1>9. ASSUME NEW past \in Rows, Redeliver(past) PROVE Goal
  <2>1. PICK r \in Redeliveries : delivery[r].status = "absent" /\ delivery' = [delivery EXCEPT ![r] = CreateDelivery]
    BY <1>9 DEF Redeliver
  <2>2. r \in Rows /\ CopyOf(r) > 0
    BY RowParts
  <2>3. CreateDelivery.status = "pending"
    BY DEF CreateDelivery
  <2>4. States[r] = "none" /\ States' = [States EXCEPT ![r] = "owed"]
    <3>1. \A q \in Rows : States'[q] = IF q = r THEN "owed" ELSE States[q]
      BY <1>0, <1>b, <2>1, <2>3, StateValues DEF TypeOK
    <3>2. States[r] = "none"
      BY <1>b, <2>1, <2>2, StateValues
    <3> QED  BY <1>a, <3>1, <3>2
  <2>5. UNCHANGED <<News, told, doubled>>
    BY <1>9 DEF Redeliver, News, history
  <2>6. Promise!AskAgain(r)
    BY <1>a, <2>2, <2>4, <2>5 DEF Promise!AskAgain
  <2> QED  BY <2>2, <2>6 DEF Promise!Next
<1>10. ASSUME NEW d \in Dispatchers, NEW r \in Rows, Send(d, r) PROVE Goal
  <2>1. UNCHANGED <<event, doubled, delivery>> /\ (told' = told \cup {r} \/ told' = told)
    BY <1>10 DEF Send
  <2>2. CASE told' = told
    BY <1>3, <2>1, <2>2
  <2>3. CASE told' = told \cup {r}
    <3>1. States[r] = "owed" \/ States[r] = "forgotten" \/ r \in doubled
      <4>1. job[d][r].pc \in AtHand
        BY <1>10 DEF Send, JobAt, AtHand
      <4>2. delivery[r].status # "absent"
        BY <1>0, <1>10 DEF Send, JobAt, WorksOn, LeaseInv
      <4> QED  BY <1>0, <1>b, <4>1, <4>2, StatusOf DEF CountInv, Exists
    <3>2. UNCHANGED <<News, doubled>> /\ States' = States
      BY <1>a, <1>b, <2>1 DEF News
    <3>3. Promise!Tell(r)
      BY <1>a, <2>3, <3>1, <3>2 DEF Promise!Tell
    <3> QED  BY <3>3 DEF Promise!Next
  <2> QED  BY <2>1, <2>2, <2>3
<1>11. ASSUME NEW d \in Dispatchers, NEW r \in Rows, WriteResult(d, r) PROVE Goal
  <2>1. UNCHANGED <<event, told, doubled>> /\ News' = News
    BY <1>11 DEF WriteResult, News, history
  <2>2. CASE ~Exists(r)
    BY <1>0, <1>3, <1>11, <2>1, <2>2, WriteEffect
  <2>3. CASE Exists(r)
    <3>1. /\ \A q \in Rows \ {r} : delivery'[q] = delivery[q]
          /\ \/ job[d][r].pc = "ok" /\ delivery'[r].status = "success"
             \/ job[d][r].pc \in {"bad", "inactive"} /\ delivery'[r].status = "dead"
             \/ job[d][r].pc = "bad" /\ delivery'[r].status = "failed"
      BY <1>0, <1>11, <2>3, WriteEffect
    <3>2. States[r] = "owed" \/ (r \in doubled /\ States[r] \in {"done", "dropped"})
      <4>1. job[d][r].pc \in AtHand
        BY <3>1 DEF AtHand
      <4>2. States[r] \in {"owed", "done", "dropped"}
        BY <1>0, <1>b, <2>3, StatusOf DEF Exists
      <4>3. r \notin doubled => States[r] = "owed"
        BY <1>0, <1>b, <2>3, <4>1, StatusOf DEF CountInv
      <4> QED  BY <4>2, <4>3
    <3>3. States' = [States EXCEPT ![r] = States'[r]]
      <4>1. \A q \in Rows \ {r} : States'[q] = States[q]
        BY <1>b, <3>1
      <4> QED  BY <1>a, <4>1
    <3>4. States'[r] = StateOf(delivery'[r].status)
      BY <1>b
    <3>5. CASE job[d][r].pc = "ok" /\ delivery'[r].status = "success"
      <4>1. r \in told /\ States'[r] = "done"
        BY <3>4, <3>5, StateValues DEF CountInv
      <4>2. Promise!Settle(r)
        BY <1>a, <2>1, <3>2, <3>3, <4>1 DEF Promise!Settle
      <4> QED  BY <4>2 DEF Promise!Next
    <3>6. CASE delivery'[r].status = "dead"
      <4>1. States'[r] = "dropped"
        BY <3>4, <3>6, StateValues
      <4>2. Promise!Settle(r)
        BY <1>a, <2>1, <3>2, <3>3, <4>1 DEF Promise!Settle
      <4> QED  BY <4>2 DEF Promise!Next
    <3>7. CASE delivery'[r].status = "failed"
      <4>1. States'[r] = "owed"
        BY <3>4, <3>7, StateValues
      <4>2. CASE States[r] = "owed"
        <5>1. \A q \in Rows : States'[q] = States[q]
          BY <1>b, <3>1, <4>1, <4>2
        <5> QED  BY <1>1, <2>1, <5>1
      <4>3. CASE r \in doubled /\ States[r] \in {"done", "dropped"}
        <5>1. Promise!OweAgain(r)
          BY <1>a, <2>1, <3>3, <4>1, <4>3 DEF Promise!OweAgain
        <5> QED  BY <5>1 DEF Promise!Next
      <4> QED  BY <3>2, <4>2, <4>3
    <3> QED  BY <3>1, <3>5, <3>6, <3>7
  <2> QED  BY <2>2, <2>3
<1>12. ASSUME NEW r \in Rows, LeaseEnds(r) PROVE Goal
  <2>1. \A q \in Rows : delivery'[q].status = delivery[q].status
    BY <1>0, <1>12, TimeEffect
  <2>2. UNCHANGED <<event, told>> /\ (doubled' = doubled \/ doubled' = doubled \cup {r})
    BY <1>12 DEF LeaseEnds
  <2>3. CASE doubled' = doubled
    BY <1>2, <2>1, <2>2, <2>3
  <2>4. CASE doubled' = doubled \cup {r}
    <3>1. States[r] = "owed"
      BY <1>0, <1>b, <1>12, StatusOf DEF LeaseEnds, LeaseInv
    <3>2. States' = States /\ News' = News
      BY <1>a, <1>b, <2>1, <2>2 DEF News
    <3>3. Promise!Double(r)
      BY <1>a, <2>2, <2>4, <3>1, <3>2 DEF Promise!Double
    <3> QED  BY <3>3 DEF Promise!Next
  <2> QED  BY <2>2, <2>3, <2>4
<1>13. ASSUME NEW r \in Rows, BackoffEnds(r) PROVE Goal
  BY <1>0, <1>2, <1>13, TimeEffect DEF BackoffEnds, history
<1>14. ASSUME NEW d \in Dispatchers, ProcessDeliveries(d) PROVE Goal
  <2>1. \A r \in Rows : delivery'[r].status = delivery[r].status
    BY <1>0, <1>14, ClaimEffect
  <2> QED  BY <1>2, <1>14, <2>1 DEF ProcessDeliveries, history
<1>15. ASSUME NEW d \in Dispatchers, NEW r \in Rows,
              LoadAttempt(d, r) \/ CountResult(d, r) \/ LoseResult(d, r)
       PROVE  Goal
  BY <1>3, <1>15 DEF LoadAttempt, CountResult, LoseResult, history
<1>16. ASSUME NEW d \in Dispatchers, ProcessOutbox(d) \/ Crash(d) PROVE Goal
  BY <1>3, <1>16 DEF ProcessOutbox, Crash, history
<1>17. ASSUME NEW w \in Webhooks, CheckWebhookQuota(w) \/ CreateWebhook(w) \/ UpdateWebhook(w) PROVE Goal
  BY <1>3, <1>17 DEF CheckWebhookQuota, CreateWebhook, UpdateWebhook, history
<1>18. CASE UNCHANGED vars
  BY <1>3, <1>18 DEF vars
<1> HIDE DEF Goal
<1> QED  BY <1>4, <1>5, <1>7, <1>8, <1>9, <1>10, <1>11, <1>12, <1>13, <1>14, <1>15, <1>16, <1>17, <1>18
           DEF Next, Clients, Dispatch

\* The pipeline is what it promises to be: it fans every event out once and all at once, calls
\* done only what an endpoint was told, and settles a delivery for good unless its lease ran
\* out (dispatcher.go:123-244).
THEOREM KeepsPromise == Spec => PromiseKept
<1> DEFINE I == SenderInv /\ CountInv
<1>1. Init => CountInv /\ Promise!Init
  <2> SUFFICES ASSUME Init PROVE CountInv /\ Promise!Init
    OBVIOUS
  <2>1. CountInv
    BY DEF Init, CountInv, Exists, NoDelivery, NoJob, AtHand
  <2>2. News = {} /\ told = {} /\ doubled = {}
    BY DEF Init, News
  <2>3. \A r \in Rows : StateOf(delivery[r].status) = "none"
    BY StateValues DEF Init, NoDelivery
  <2> QED  BY <2>1, <2>2, <2>3 DEF Promise!Init, States
<1>2. I /\ SenderInv' /\ [Next]_vars => I'
  BY CountInvStep
<1>3. SenderInv /\ SenderInv' /\ CountInv /\ [Next]_vars => [Promise!Next]_Promise!vars
  BY PromiseStep DEF Promise!vars
<1> QED  BY <1>1, <1>2, <1>3, SenderInvHolds, PTL DEF Spec, PromiseKept, Promise!Spec

-------------------------------------------------------------------------------
(* What the promise implies, and so the pipeline.                          *)

LEMMA StatesFacts ==
    /\ States = [r \in Rows |-> States[r]] /\ DOMAIN States = Rows
    /\ States' = [r \in Rows |-> States'[r]]
  BY DEF States

LEMMA DoneInit == Promise!Init => Promise!DoneWereTold
  BY DEF Promise!Init, Promise!DoneWereTold

\* Who was told is told for good, and a delivery becomes done in one action only, which asks.
LEMMA DoneStep == Promise!DoneWereTold /\ [Promise!Next]_Promise!vars => Promise!DoneWereTold'
<1> SUFFICES ASSUME Promise!DoneWereTold, [Promise!Next]_Promise!vars, NEW r \in Rows, States'[r] = "done"
             PROVE  r \in told'
  BY DEF Promise!DoneWereTold
<1>1. States[r] = "done" => r \in told
  BY DEF Promise!DoneWereTold
<1>2. told \subseteq told'
  BY DEF Promise!Next, Promise!vars, Promise!Record, Promise!FanOut, Promise!Forget, Promise!AskAgain,
         Promise!Tell, Promise!Settle, Promise!Double, Promise!OweAgain
<1>3. CASE States' = States
  BY <1>1, <1>2, <1>3
<1>4. CASE Promise!FanOut \/ Promise!Forget
  BY <1>1, <1>2, <1>4 DEF Promise!FanOut, Promise!Forget
<1>5. ASSUME NEW q \in Rows, Promise!AskAgain(q) \/ Promise!OweAgain(q) PROVE r \in told'
  BY <1>1, <1>2, <1>5, StatesFacts DEF Promise!AskAgain, Promise!OweAgain
<1>6. ASSUME NEW q \in Rows, Promise!Settle(q) PROVE r \in told'
  BY <1>1, <1>2, <1>6, StatesFacts DEF Promise!Settle
<1> QED
  BY <1>3, <1>4, <1>5, <1>6 DEF Promise!Next, Promise!vars, Promise!Record, Promise!Tell, Promise!Double

\* A settled delivery is written by a deletion only, or after its lease ran out.
LEMMA SettledStep ==
    ASSUME [Promise!Next]_Promise!vars, NEW r \in Rows
    PROVE  Promise!Stands(r)
<1>1. CASE States' = States
  BY <1>1 DEF Promise!Stands
<1>2. CASE Promise!FanOut \/ Promise!Forget
  BY <1>2 DEF Promise!FanOut, Promise!Forget, Promise!Stands
<1>3. ASSUME NEW q \in Rows, Promise!AskAgain(q) \/ Promise!OweAgain(q) \/ Promise!Settle(q)
      PROVE  Promise!Stands(r)
  BY <1>3, StatesFacts DEF Promise!AskAgain, Promise!OweAgain, Promise!Settle, Promise!Stands
<1> QED
  BY <1>1, <1>2, <1>3 DEF Promise!Next, Promise!vars, Promise!Record, Promise!Tell, Promise!Double

\* A delivery that is recorded as a success was received by its endpoint, whatever leases,
\* crashes and lost writes came between the request and the record.
THEOREM SuccessWasReceived == Spec => []Promise!DoneWereTold
<1>1. Spec => Promise!Init /\ [][Promise!Next]_Promise!vars
  BY KeepsPromise DEF PromiseKept, Promise!Spec
<1> QED  BY <1>1, DoneInit, DoneStep, PTL

\* A delivery that succeeded or died is not owed again nor turned into the other, unless its
\* lease ran out under a dispatcher; one that was deleted does not come back.
THEOREM OutcomesStand == Spec => Promise!SettledForGood
<1>1. Spec => [][Promise!Next]_Promise!vars
  BY KeepsPromise, PTL DEF PromiseKept, Promise!Spec
<1>2. [Promise!Next]_Promise!vars => [\A r \in Rows : Promise!Stands(r)]_Promise!vars
  BY SettledStep
<1> QED  BY <1>1, <1>2, PTL DEF Promise!SettledForGood
================================================================================
