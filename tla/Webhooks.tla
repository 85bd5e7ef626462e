------------------------------ MODULE Webhooks ------------------------------
(***************************************************************************)
(* Webhooks and the log of their deliveries (services/webhooks.ts,         *)
(* routes/webhooks.ts, services/webhookCleanup.ts).  A delivery runs in    *)
(* the background of the request that caused it, for as long as three      *)
(* attempts take, on the row of the webhook as it was then.                *)
(***************************************************************************)
EXTENDS Naturals, Sequences, FiniteSets, Selection

CONSTANTS Hooks,       \* bound: webhooks that are ever registered
          OwnerOf,     \* the user who registers each
          Events,      \* share.created, sync.completed and the others
          MaxEvents,   \* bound: events that happen
          MaxPerHook,  \* WEBHOOK_DELIVERY_MAX_PER_WEBHOOK, 0 for no limit
          KeepFor,     \* hours a row is kept, 0 for ever
          MaxHour      \* bound: the clock

ASSUME WebhooksAssumption ==
    /\ DOMAIN OwnerOf = Hooks
    /\ MaxEvents \in Nat /\ MaxPerHook \in Nat /\ KeepFor \in Nat
    /\ MaxHour \in Nat

VARIABLES
    hook,       \* hook[h]: the row of a webhook
    patches,    \* PATCH requests that wait for their body
    happened,   \* events so far
    jobs,       \* deliveries that are underway
    deliveries, \* the rows of webhook_deliveries, oldest first
    posts,      \* history: posts[n][h]: requests about event n that the receiver got
    hour

webhookVars == <<hook, patches, happened, jobs, deliveries, posts, hour>>

MaxAttempts == 3
NoHook == [active |-> "none"]
Deleted == [active |-> "gone"]
NoCode == "none"
HookRows == [events : SUBSET Events, active : BOOLEAN]
Jobs == [event : 1 .. MaxEvents, hook : Hooks, attempts : 0 .. MaxAttempts, code : {NoCode, "error"}]
Deliveries == [event : 1 .. MaxEvents, hook : Hooks, status : {"success", "failed"},
               attempts : 0 .. MaxAttempts, code : {NoCode, "error", "ok"}, at : 0 .. MaxHour]

HasHook(h) == hook[h] \notin {NoHook, Deleted}

WebhooksInit ==
    /\ hook = [h \in Hooks |-> NoHook]
    /\ patches = {}
    /\ happened = 0
    /\ jobs = {}
    /\ deliveries = <<>>
    /\ posts = [n \in 1 .. MaxEvents |-> [h \in Hooks |-> 0]]
    /\ hour = 0

----------------------------------------------------------------------------
(* Webhooks.                                                               *)

\* The identifier of a webhook that was deleted is not drawn again.
AddHook(h, events, active) ==
    /\ hook[h] = NoHook
    /\ events # {}
    /\ hook' = [hook EXCEPT ![h] = [events |-> events, active |-> active]]
    /\ UNCHANGED <<patches, happened, jobs, deliveries, posts, hour>>

BeginPatch(h) ==
    /\ HasHook(h)
    /\ patches' = patches \cup {h}
    /\ UNCHANGED <<hook, happened, jobs, deliveries, posts, hour>>

\* The update finds no row when the webhook was deleted meanwhile.
EndPatch(h, events, active) ==
    /\ h \in patches /\ patches' = patches \ {h}
    /\ events # {}
    /\ hook' = IF HasHook(h)
               THEN [hook EXCEPT ![h] = [events |-> events, active |-> active]] ELSE hook
    /\ UNCHANGED <<happened, jobs, deliveries, posts, hour>>

RefusePatch(h) ==
    /\ h \in patches /\ patches' = patches \ {h}
    /\ UNCHANGED <<hook, happened, jobs, deliveries, posts, hour>>

\* Its deliveries go with the webhook; those underway go on.
RemoveHook(h) ==
    /\ HasHook(h)
    /\ hook' = [hook EXCEPT ![h] = Deleted]
    /\ deliveries' = Keep(deliveries, {i \in DOMAIN deliveries : deliveries[i].hook # h})
    /\ UNCHANGED <<patches, happened, jobs, posts, hour>>

Subscribed(u, event) ==
    {h \in Hooks : HasHook(h) /\ OwnerOf[h] = u /\ hook[h].active /\ event \in hook[h].events}

\* scheduleWebhookDispatch, called when the change has been stored.
Dispatch(u, event) ==
    /\ happened < MaxEvents
    /\ happened' = happened + 1
    /\ jobs' = jobs \cup {[event |-> happened + 1, hook |-> h, attempts |-> 0, code |-> NoCode] :
                            h \in Subscribed(u, event)}
    /\ UNCHANGED <<hook, patches, deliveries, posts, hour>>

\* The outcome is stored; the insert fails when the webhook is gone.
Conclude(job, status, attempts, code) ==
    /\ jobs' = jobs \ {job}
    /\ deliveries' = IF HasHook(job.hook)
         THEN Append(deliveries, [event |-> job.event, hook |-> job.hook, status |-> status,
                                  attempts |-> attempts, code |-> code, at |-> hour])
         ELSE deliveries
    /\ UNCHANGED <<hook, patches, happened, hour>>

\* The URL is not allowed, or its host has no allowed address: nothing is sent.
Reject(job) ==
    /\ job.attempts = 0
    /\ Conclude(job, "failed", 0, NoCode)
    /\ UNCHANGED posts

\* The request arrives and is answered with a 2xx.
Succeed(job) ==
    /\ posts' = [posts EXCEPT ![job.event][job.hook] = @ + 1]
    /\ Conclude(job, "success", job.attempts + 1, "ok")

\* Mutant of Retry: a fourth attempt is made.
RetryOnce(job, code) ==
    IF job.attempts = MaxAttempts THEN Conclude(job, "failed", MaxAttempts, code)
    ELSE /\ jobs' = (jobs \ {job}) \cup {[job EXCEPT !.attempts = @ + 1, !.code = code]}
         /\ UNCHANGED <<hook, patches, happened, deliveries, hour>>

\* One more attempt without success; the third is the last.
Retry(job, code) ==
    IF job.attempts + 1 = MaxAttempts THEN Conclude(job, "failed", MaxAttempts, code)
    ELSE /\ jobs' = (jobs \ {job}) \cup {[job EXCEPT !.attempts = @ + 1, !.code = code]}
         /\ UNCHANGED <<hook, patches, happened, deliveries, hour>>

\* The receiver answers with an error.
Fail(job) ==
    /\ posts' = [posts EXCEPT ![job.event][job.hook] = @ + 1]
    /\ Retry(job, "error")

\* Mutant of Miss: it is stored as an answer.
MissAsError(job, arrives) ==
    /\ posts' = [posts EXCEPT ![job.event][job.hook] = IF arrives THEN @ + 1 ELSE @]
    /\ Retry(job, "error")

\* No usable answer: the host was not reached, redirects, or answers too late.
\* The code of an earlier attempt is kept.
Miss(job, arrives) ==
    /\ posts' = [posts EXCEPT ![job.event][job.hook] = IF arrives THEN @ + 1 ELSE @]
    /\ Retry(job, job.code)

----------------------------------------------------------------------------
(* Retention.                                                              *)

TooOld(row) == KeepFor > 0 /\ row.at + KeepFor < hour

Newer(i, rows) == {j \in rows : j > i /\ deliveries[j].hook = deliveries[i].hook}

\* cleanupWebhookDeliveries: by age, then by number.
ForgetDeliveries ==
    LET young == {i \in DOMAIN deliveries : ~TooOld(deliveries[i])}
        kept == {i \in young : MaxPerHook > 0 => Cardinality(Newer(i, young)) < MaxPerHook}
    IN  /\ kept # DOMAIN deliveries
        /\ deliveries' = Keep(deliveries, kept)
        /\ UNCHANGED <<hook, patches, happened, jobs, posts, hour>>

NextHour ==
    /\ hour < MaxHour
    /\ hour' = hour + 1
    /\ UNCHANGED <<hook, patches, happened, jobs, deliveries, posts>>

\* What is underway is lost with the process.
Stop ==
    /\ jobs' = {} /\ patches' = {}
    /\ UNCHANGED <<hook, happened, deliveries, posts, hour>>

HookSteps(h) ==
    \/ \E events \in SUBSET Events, active \in BOOLEAN :
          AddHook(h, events, active) \/ EndPatch(h, events, active)
    \/ BeginPatch(h)
    \/ RefusePatch(h)
    \/ RemoveHook(h)

JobSteps(job) ==
    \/ Reject(job)
    \/ Succeed(job)
    \/ Fail(job)
    \/ \E arrives \in BOOLEAN : Miss(job, arrives)

WebhooksNext ==
    \/ \E h \in Hooks : HookSteps(h)
    \/ \E h \in Hooks, event \in Events : Dispatch(OwnerOf[h], event)
    \/ \E job \in jobs : JobSteps(job)
    \/ ForgetDeliveries
    \/ NextHour
    \/ Stop

WebhooksSpec == WebhooksInit /\ [][WebhooksNext]_webhookVars

----------------------------------------------------------------------------
(* Properties.                                                             *)

\* The variables keep their types.
WebhooksTypeOK ==
    /\ hook \in [Hooks -> HookRows \cup {NoHook, Deleted}]
    /\ patches \subseteq Hooks
    /\ happened \in 0 .. MaxEvents
    /\ jobs \subseteq Jobs
    /\ deliveries \in Seq(Deliveries)
    /\ posts \in [1 .. MaxEvents -> [Hooks -> Nat]]
    /\ hour \in 0 .. MaxHour

\* What the log says about a delivery is what the receiver saw of it, whatever
\* becomes of the webhook meanwhile: one row per event and webhook, for
\* webhooks that exist; a success was received, nothing was received more often
\* than it was attempted, and nothing at all where no attempt is recorded.
DeliveriesAreTrue ==
    \A i \in DOMAIN deliveries :
      LET row == deliveries[i]
          received == posts[row.event][row.hook]
      IN  /\ HasHook(row.hook)
          /\ received <= row.attempts
          /\ row.status = "success" => received > 0 /\ row.code = "ok"
          /\ row.code # NoCode => received > 0
          /\ \A j \in DOMAIN deliveries :
               deliveries[j].event = row.event /\ deliveries[j].hook = row.hook => i = j
=============================================================================
