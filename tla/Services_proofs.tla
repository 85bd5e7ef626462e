--------------------------- MODULE Services_proofs ---------------------------
(***************************************************************************)
(* What the services beside the repositories promise, for any number of    *)
(* webhooks and events, clients and limits, pages and visitors: the log of *)
(* deliveries, the limiters, the views that are counted.                   *)
(***************************************************************************)
EXTENDS Webhooks, RateLimits, Views, Selection_proofs

-----------------------------------------------------------------------------
(* Webhooks: a job is the only one of its event and webhook, nothing of it is   *)
(* in the log yet, and it knows how often its receiver can have been asked.     *)

JobsInv ==
    /\ \A job \in jobs : /\ job.event <= happened /\ job.attempts < MaxAttempts
                         /\ posts[job.event][job.hook] <= job.attempts
                         /\ job.code # NoCode => posts[job.event][job.hook] > 0
    /\ \A job, other \in jobs : job.event = other.event /\ job.hook = other.hook => job = other

LogInv ==
    /\ \A i \in DOMAIN deliveries : deliveries[i].event <= happened
    /\ \A i \in DOMAIN deliveries, job \in jobs :
          ~(deliveries[i].event = job.event /\ deliveries[i].hook = job.hook)

\* Nothing is sent of an event that has not happened.
SilenceInv == \A n \in 1 .. MaxEvents, h \in Hooks : n > happened => posts[n][h] = 0

DeliveryInv == WebhooksTypeOK /\ JobsInv /\ LogInv /\ SilenceInv /\ DeliveriesAreTrue

\* A webhook that exists is neither of the two values that stand for none.
LEMMA HookRowsExist == NoHook \notin HookRows /\ Deleted \notin HookRows
<1>1. \A row \in HookRows : DOMAIN row = {"events", "active"}
  BY DEF HookRows
<1>2. DOMAIN NoHook = {"active"} /\ DOMAIN Deleted = {"active"}
  BY DEF NoHook, Deleted
<1> QED
  BY <1>1, <1>2

\* Of a log that keeps some of its rows, all that DeliveriesAreTrue says stays
\* true, as long as the webhooks of those that stay do.
LEMMA KeptRowsAreTrue ==
    ASSUME WebhooksTypeOK, LogInv, DeliveriesAreTrue, NEW kept \in SUBSET (DOMAIN deliveries),
           deliveries' = Keep(deliveries, kept), UNCHANGED <<jobs, happened, posts>>,
           \A i \in kept : hook'[deliveries[i].hook] \notin {NoHook, Deleted}
    PROVE  LogInv' /\ DeliveriesAreTrue' /\ deliveries' \in Seq(Deliveries)
<1> DEFINE rest == Keep(deliveries, kept)
           source(n) == Nth(n, kept)
<1>0. deliveries \in Seq(Deliveries)
  BY DEF WebhooksTypeOK
<1>1. /\ rest \in Seq(Deliveries) /\ DOMAIN rest = 1 .. Len(rest)
      /\ \A n \in DOMAIN rest : source(n) \in kept /\ rest[n] = deliveries[source(n)]
      /\ \A m, n \in DOMAIN rest : m < n => source(m) < source(n)
  BY <1>0, KeepSources
<1>2. deliveries' = rest
  OBVIOUS
<1> HIDE DEF rest, source
<1>3. \A n \in DOMAIN deliveries' :
        source(n) \in kept /\ source(n) \in DOMAIN deliveries /\ deliveries'[n] = deliveries[source(n)]
  BY <1>1, <1>2
<1>4. \A m, n \in DOMAIN deliveries' : source(m) = source(n) => m = n
  <2>1. DOMAIN deliveries = 1 .. Len(deliveries) /\ Len(deliveries) \in Nat /\ Len(rest) \in Nat
    BY <1>0, <1>1, LenProperties
  <2>2. \A n \in DOMAIN deliveries' : source(n) \in Nat /\ n \in Nat
    BY <1>1, <1>2, <1>3, <2>1
  <2> QED
    BY <1>1, <1>2, <2>2
<1>5. LogInv'
  BY <1>3 DEF LogInv
<1>6. DeliveriesAreTrue'
  <2>1. ASSUME NEW n \in DOMAIN deliveries'
        PROVE  /\ hook'[deliveries'[n].hook] \notin {NoHook, Deleted}
               /\ deliveries'[n] = deliveries[source(n)] /\ source(n) \in DOMAIN deliveries
    BY <1>3
  <2>2. \A m, n \in DOMAIN deliveries' :
          deliveries'[m].event = deliveries'[n].event /\ deliveries'[m].hook = deliveries'[n].hook
            => m = n
    BY <2>1, <1>4 DEF DeliveriesAreTrue
  <2> QED
    BY <2>1, <2>2 DEF DeliveriesAreTrue, HasHook, NoHook, Deleted
<1> QED
  BY <1>1, <1>2, <1>5, <1>6

LEMMA DeliveryInit == ASSUME WebhooksInit PROVE DeliveryInv
<1> USE WebhooksAssumption
<1>1. DOMAIN deliveries = {} /\ deliveries \in Seq(Deliveries)
  BY DEF WebhooksInit
<1>2. WebhooksTypeOK
  BY <1>1 DEF WebhooksInit, WebhooksTypeOK
<1> QED
  BY <1>1, <1>2 DEF WebhooksInit, DeliveryInv, JobsInv, LogInv, SilenceInv, DeliveriesAreTrue

\* Whatever happens to the webhooks and to the requests that change them, as long
\* as none of them goes: the log, the jobs and what was received are as they were.
LEMMA HooksChange ==
    ASSUME DeliveryInv, hook' \in [Hooks -> HookRows \cup {NoHook, Deleted}], patches' \subseteq Hooks,
           hour' \in 0 .. MaxHour, UNCHANGED <<happened, deliveries, posts>>, jobs' \subseteq jobs,
           \A h \in Hooks : HasHook(h) => hook'[h] \notin {NoHook, Deleted}
    PROVE  DeliveryInv'
<1>1. WebhooksTypeOK'
  BY DEF DeliveryInv, WebhooksTypeOK
<1>2. JobsInv' /\ LogInv' /\ SilenceInv'
  BY DEF DeliveryInv, JobsInv, LogInv, SilenceInv
<1>3. \A i \in DOMAIN deliveries : deliveries[i].hook \in Hooks
  <2>1. \A i \in DOMAIN deliveries : deliveries[i] \in Deliveries
    BY ElementOfSeq, LenProperties DEF DeliveryInv, WebhooksTypeOK
  <2> QED
    BY <2>1 DEF Deliveries
<1>4. DeliveriesAreTrue'
  BY <1>3 DEF DeliveryInv, DeliveriesAreTrue, HasHook, NoHook, Deleted
<1> QED
  BY <1>1, <1>2, <1>4 DEF DeliveryInv

\* A delivery that ends stores its outcome, or nothing when the webhook is gone.
\* What it stores is true if what happened to the requests about it agrees.
LEMMA ConcludeKeeps ==
    ASSUME DeliveryInv, NEW job \in jobs, NEW status \in {"success", "failed"},
           NEW attempts \in 0 .. MaxAttempts, NEW code \in {NoCode, "error", "ok"},
           Conclude(job, status, attempts, code),
           posts' \in [1 .. MaxEvents -> [Hooks -> Nat]],
           \A n \in 1 .. MaxEvents, h \in Hooks :
              ~(n = job.event /\ h = job.hook) => posts'[n][h] = posts[n][h],
           posts'[job.event][job.hook] <= attempts,
           status = "success" => posts'[job.event][job.hook] > 0 /\ code = "ok",
           code # NoCode => posts'[job.event][job.hook] > 0
    PROVE  DeliveryInv'
<1> USE WebhooksAssumption
<1>1. /\ job \in Jobs /\ job.event \in 1 .. MaxEvents /\ job.hook \in Hooks /\ job.event <= happened
      /\ happened \in Nat
  BY DEF DeliveryInv, WebhooksTypeOK, JobsInv, Jobs
<1> DEFINE row == [event |-> job.event, hook |-> job.hook, status |-> status,
                   attempts |-> attempts, code |-> code, at |-> hour]
<1>2. row \in Deliveries
  BY <1>1 DEF DeliveryInv, WebhooksTypeOK, Deliveries
<1>3. /\ deliveries \in Seq(Deliveries) /\ Len(deliveries) \in Nat
      /\ DOMAIN deliveries = 1 .. Len(deliveries)
      /\ \A i \in DOMAIN deliveries : deliveries[i] \in Deliveries
  BY ElementOfSeq, LenProperties DEF DeliveryInv, WebhooksTypeOK
<1>4. CASE ~HasHook(job.hook)
  <2>1. deliveries' = deliveries /\ jobs' = jobs \ {job} /\ UNCHANGED <<hook, patches, happened, hour>>
    BY <1>4 DEF Conclude
  <2>2. WebhooksTypeOK'
    BY <2>1 DEF DeliveryInv, WebhooksTypeOK
  <2>3. \A other \in jobs' : /\ other \in Jobs /\ ~(other.event = job.event /\ other.hook = job.hook)
                             /\ posts'[other.event][other.hook] = posts[other.event][other.hook]
    BY <2>1, <1>1 DEF DeliveryInv, WebhooksTypeOK, JobsInv, Jobs
  <2>4. JobsInv' /\ LogInv'
    BY <2>1, <2>3 DEF DeliveryInv, JobsInv, LogInv
  <2>5. SilenceInv'
    <3> SUFFICES ASSUME NEW n \in 1 .. MaxEvents, NEW h \in Hooks, n > happened PROVE posts'[n][h] = 0
      BY <2>1 DEF SilenceInv
    <3>1. posts[n][h] = 0
      BY DEF DeliveryInv, SilenceInv
    <3>2. n # job.event
      BY <1>1
    <3> QED
      BY <3>1, <3>2
  <2>6. \A i \in DOMAIN deliveries :
          posts'[deliveries[i].event][deliveries[i].hook] = posts[deliveries[i].event][deliveries[i].hook]
    BY <1>3 DEF DeliveryInv, LogInv, Deliveries
  <2>7. DeliveriesAreTrue'
    BY <2>1, <2>6 DEF DeliveryInv, DeliveriesAreTrue, HasHook
  <2> QED
    BY <2>2, <2>4, <2>5, <2>7 DEF DeliveryInv
<1>5. CASE HasHook(job.hook)
  <2>1. /\ deliveries' = Append(deliveries, row) /\ jobs' = jobs \ {job}
        /\ UNCHANGED <<hook, patches, happened, hour>>
    BY <1>5 DEF Conclude
  <2> HIDE DEF row
  <2>2. /\ deliveries' \in Seq(Deliveries) /\ Len(deliveries') = Len(deliveries) + 1
        /\ DOMAIN deliveries' = 1 .. (Len(deliveries) + 1)
        /\ deliveries'[Len(deliveries) + 1] = row
        /\ \A i \in DOMAIN deliveries : deliveries'[i] = deliveries[i]
    BY <2>1, <1>2, <1>3, AppendProperties, LenProperties
  <2>3. WebhooksTypeOK'
    BY <2>1, <2>2 DEF DeliveryInv, WebhooksTypeOK
  <2>4. \A other \in jobs' : /\ other \in Jobs /\ ~(other.event = job.event /\ other.hook = job.hook)
                             /\ posts'[other.event][other.hook] = posts[other.event][other.hook]
    BY <2>1, <1>1 DEF DeliveryInv, WebhooksTypeOK, JobsInv, Jobs
  <2>5. JobsInv'
    BY <2>1, <2>4 DEF DeliveryInv, JobsInv
  <2>6. SilenceInv'
    <3> SUFFICES ASSUME NEW n \in 1 .. MaxEvents, NEW h \in Hooks, n > happened PROVE posts'[n][h] = 0
      BY <2>1 DEF SilenceInv
    <3>1. posts[n][h] = 0
      BY DEF DeliveryInv, SilenceInv
    <3>2. n # job.event
      BY <1>1
    <3> QED
      BY <3>1, <3>2
  <2>7. \A i \in DOMAIN deliveries' :
          \/ i \in DOMAIN deliveries /\ deliveries'[i] = deliveries[i]
          \/ i = Len(deliveries) + 1 /\ deliveries'[i] = row
    BY <2>2, <1>3
  <2>8. row.event = job.event /\ row.hook = job.hook /\ row.status = status /\ row.attempts = attempts
        /\ row.code = code
    BY DEF row
  <2>9. LogInv'
    <3>1. \A i \in DOMAIN deliveries : deliveries[i].event <= happened
      BY DEF DeliveryInv, LogInv
    <3>2. \A i \in DOMAIN deliveries, other \in jobs' :
            ~(deliveries[i].event = other.event /\ deliveries[i].hook = other.hook)
      BY <2>1 DEF DeliveryInv, LogInv
    <3>3. \A i \in DOMAIN deliveries' : deliveries'[i].event <= happened'
      BY <2>1, <2>7, <2>8, <3>1, <1>1
    <3>4. \A i \in DOMAIN deliveries', other \in jobs' :
            ~(deliveries'[i].event = other.event /\ deliveries'[i].hook = other.hook)
      <4> SUFFICES ASSUME NEW i \in DOMAIN deliveries', NEW other \in jobs'
                   PROVE  ~(deliveries'[i].event = other.event /\ deliveries'[i].hook = other.hook)
        OBVIOUS
      <4>1. CASE i \in DOMAIN deliveries /\ deliveries'[i] = deliveries[i]
        BY <4>1, <3>2
      <4>2. CASE deliveries'[i] = row
        BY <4>2, <2>4, <2>8
      <4> QED
        BY <4>1, <4>2, <2>7
    <3> QED
      BY <3>3, <3>4 DEF LogInv
  <2>10. \A i \in DOMAIN deliveries :
           /\ posts'[deliveries[i].event][deliveries[i].hook] = posts[deliveries[i].event][deliveries[i].hook]
           /\ ~(deliveries[i].event = job.event /\ deliveries[i].hook = job.hook)
    BY <1>3 DEF DeliveryInv, LogInv, Deliveries
  <2>11. DeliveriesAreTrue'
    <3> SUFFICES ASSUME NEW i \in DOMAIN deliveries'
        PROVE  LET d == deliveries'[i]
                   received == posts'[d.event][d.hook]
               IN  /\ hook'[d.hook] \notin {NoHook, Deleted}
                   /\ received <= d.attempts
                   /\ d.status = "success" => received > 0 /\ d.code = "ok"
                   /\ d.code # NoCode => received > 0
                   /\ \A j \in DOMAIN deliveries' :
                        deliveries'[j].event = d.event /\ deliveries'[j].hook = d.hook => i = j
      BY DEF DeliveriesAreTrue, HasHook, NoHook, Deleted, NoCode
    <3>1. CASE i \in DOMAIN deliveries /\ deliveries'[i] = deliveries[i]
      <4>1. \A j \in DOMAIN deliveries' :
              deliveries'[j].event = deliveries'[i].event /\ deliveries'[j].hook = deliveries'[i].hook
                => i = j
        <5> SUFFICES ASSUME NEW j \in DOMAIN deliveries', deliveries'[j].event = deliveries[i].event,
                            deliveries'[j].hook = deliveries[i].hook
                     PROVE  i = j
          BY <3>1
        <5>1. j \in DOMAIN deliveries /\ deliveries'[j] = deliveries[j]
          BY <3>1, <2>7, <2>8, <2>10
        <5>2. \A k, l \in DOMAIN deliveries :
                deliveries[l].event = deliveries[k].event /\ deliveries[l].hook = deliveries[k].hook => k = l
          BY DEF DeliveryInv, DeliveriesAreTrue
        <5> QED
          BY <5>1, <5>2, <3>1
      <4> QED
        BY <4>1, <3>1, <2>1, <2>10 DEF DeliveryInv, DeliveriesAreTrue, HasHook, NoHook, Deleted, NoCode
    <3>2. CASE i = Len(deliveries) + 1 /\ deliveries'[i] = row
      <4>1. \A j \in DOMAIN deliveries' :
              deliveries'[j].event = deliveries'[i].event /\ deliveries'[j].hook = deliveries'[i].hook
                => i = j
        BY <3>2, <2>7, <2>8, <2>10
      <4> QED
        BY <4>1, <3>2, <2>1, <2>8, <1>5 DEF HasHook, NoHook, Deleted, NoCode
    <3> QED
      BY <3>1, <3>2, <2>7
  <2> QED
    BY <2>3, <2>5, <2>6, <2>9, <2>11 DEF DeliveryInv
<1> QED
  BY <1>4, <1>5

\* A job after one more attempt.
LEMMA RetriedJob ==
    ASSUME NEW job \in Jobs, NEW code \in {NoCode, "error"},
           job.attempts < MaxAttempts, job.attempts + 1 # MaxAttempts
    PROVE  LET more == [job EXCEPT !.attempts = @ + 1, !.code = code]
           IN  /\ more \in Jobs /\ more.event = job.event /\ more.hook = job.hook
               /\ more.attempts = job.attempts + 1 /\ more.code = code /\ more.attempts < MaxAttempts
<1> DEFINE more == [job EXCEPT !.attempts = @ + 1, !.code = code]
<1>1. /\ DOMAIN job = {"event", "hook", "attempts", "code"}
      /\ job.event \in 1 .. MaxEvents /\ job.hook \in Hooks /\ job.attempts \in Nat
  BY DEF Jobs
<1>2. /\ DOMAIN more = {"event", "hook", "attempts", "code"} /\ more.event = job.event /\ more.hook = job.hook
      /\ more.attempts = job.attempts + 1 /\ more.code = code
  BY <1>1
<1>3. job.attempts + 1 \in 0 .. MaxAttempts /\ job.attempts + 1 < MaxAttempts
  BY <1>1 DEF MaxAttempts
<1>5. more \in Jobs
  BY <1>3 DEF Jobs
<1> QED
  BY <1>2, <1>3, <1>5 DEF more

\* An attempt without success: the job knows of one attempt more, or is over.
LEMMA RetryKeeps ==
    ASSUME DeliveryInv, NEW job \in jobs, NEW code \in {NoCode, "error"}, Retry(job, code),
           posts' \in [1 .. MaxEvents -> [Hooks -> Nat]],
           \A n \in 1 .. MaxEvents, h \in Hooks :
              ~(n = job.event /\ h = job.hook) => posts'[n][h] = posts[n][h],
           posts'[job.event][job.hook] <= job.attempts + 1,
           code # NoCode => posts'[job.event][job.hook] > 0
    PROVE  DeliveryInv'
<1> USE WebhooksAssumption
<1>1. /\ job \in Jobs /\ job.event \in 1 .. MaxEvents /\ job.hook \in Hooks /\ job.event <= happened
      /\ happened \in Nat /\ job.attempts \in Nat /\ job.attempts < MaxAttempts
      /\ posts \in [1 .. MaxEvents -> [Hooks -> Nat]] /\ posts[job.event][job.hook] <= job.attempts
  <2>1. job \in Jobs /\ happened \in 0 .. MaxEvents /\ posts \in [1 .. MaxEvents -> [Hooks -> Nat]]
    BY DEF DeliveryInv, WebhooksTypeOK
  <2>2. job.event <= happened /\ job.attempts < MaxAttempts /\ posts[job.event][job.hook] <= job.attempts
    BY DEF DeliveryInv, JobsInv
  <2>3. job.event \in 1 .. MaxEvents /\ job.hook \in Hooks /\ job.attempts \in Nat
    BY <2>1 DEF Jobs
  <2> QED
    BY <2>1, <2>2, <2>3
<1>5. CASE job.attempts + 1 = MaxAttempts
  <2>1. Conclude(job, "failed", MaxAttempts, code) /\ MaxAttempts \in 0 .. MaxAttempts
    BY <1>5 DEF Retry, MaxAttempts
  <2>2. posts'[job.event][job.hook] <= MaxAttempts
    BY <1>5
  <2>3. code \in {NoCode, "error", "ok"} /\ "failed" \in {"success", "failed"} /\ "failed" # "success"
    OBVIOUS
  <2> QED
    BY <2>1, <2>2, <2>3, ConcludeKeeps
<1>6. CASE job.attempts + 1 # MaxAttempts
  <2> DEFINE more == [job EXCEPT !.attempts = @ + 1, !.code = code]
  <2>1. jobs' = (jobs \ {job}) \cup {more} /\ UNCHANGED <<hook, patches, happened, deliveries, hour>>
    BY <1>6 DEF Retry
  <2>2. /\ more \in Jobs /\ more.event = job.event /\ more.hook = job.hook
        /\ more.attempts = job.attempts + 1 /\ more.code = code /\ more.attempts < MaxAttempts
    BY <1>1, <1>6, RetriedJob
  <2> HIDE DEF more
  <2>3. WebhooksTypeOK'
    BY <2>1, <2>2 DEF DeliveryInv, WebhooksTypeOK
  <2>4. \A other \in jobs' : other # more =>
          /\ other \in Jobs /\ other \in jobs /\ ~(other.event = job.event /\ other.hook = job.hook)
          /\ posts'[other.event][other.hook] = posts[other.event][other.hook]
    BY <2>1, <1>1 DEF DeliveryInv, WebhooksTypeOK, JobsInv, Jobs
  <2>5. JobsInv'
    <3>1. \A other \in jobs' \ {more} :
            /\ other.event <= happened /\ other.attempts < MaxAttempts
            /\ posts'[other.event][other.hook] <= other.attempts
            /\ other.code # NoCode => posts'[other.event][other.hook] > 0
      BY <2>4 DEF DeliveryInv, JobsInv
    <3>2. /\ more.event <= happened /\ more.attempts < MaxAttempts
          /\ posts'[more.event][more.hook] <= more.attempts
          /\ more.code # NoCode => posts'[more.event][more.hook] > 0
      BY <2>2, <1>1
    <3>3. \A one, other \in jobs' : one.event = other.event /\ one.hook = other.hook => one = other
      BY <2>1, <2>2, <2>4 DEF DeliveryInv, JobsInv
    <3> QED
      BY <2>1, <3>1, <3>2, <3>3 DEF JobsInv, NoCode, MaxAttempts
  <2>6. LogInv'
    BY <2>1, <2>2, <2>4 DEF DeliveryInv, LogInv
  <2>7. SilenceInv'
    <3> SUFFICES ASSUME NEW n \in 1 .. MaxEvents, NEW h \in Hooks, n > happened PROVE posts'[n][h] = 0
      BY <2>1 DEF SilenceInv
    <3>1. posts[n][h] = 0
      BY DEF DeliveryInv, SilenceInv
    <3>2. n # job.event
      BY <1>1
    <3> QED
      BY <3>1, <3>2
  <2>8. \A i \in DOMAIN deliveries :
          posts'[deliveries[i].event][deliveries[i].hook] = posts[deliveries[i].event][deliveries[i].hook]
    <3>1. \A i \in DOMAIN deliveries : deliveries[i] \in Deliveries
      BY ElementOfSeq, LenProperties DEF DeliveryInv, WebhooksTypeOK
    <3> QED
      BY <3>1 DEF DeliveryInv, LogInv, Deliveries
  <2>9. DeliveriesAreTrue'
    BY <2>1, <2>8 DEF DeliveryInv, DeliveriesAreTrue, HasHook
  <2> QED
    BY <2>3, <2>5, <2>6, <2>7, <2>9 DEF DeliveryInv
<1> QED
  BY <1>5, <1>6

LEMMA HookStepsKeep == ASSUME DeliveryInv, NEW h \in Hooks, HookSteps(h) PROVE DeliveryInv'
<1>1. hook \in [Hooks -> HookRows \cup {NoHook, Deleted}] /\ patches \subseteq Hooks /\ hour \in 0 .. MaxHour
  BY DEF DeliveryInv, WebhooksTypeOK
<1>2. ASSUME NEW events \in SUBSET Events, NEW active \in BOOLEAN,
             AddHook(h, events, active) \/ EndPatch(h, events, active)
      PROVE  DeliveryInv'
  <2> DEFINE row == [events |-> events, active |-> active]
  <2>1. row \in HookRows
    BY DEF HookRows
  <2>2. row \notin {NoHook, Deleted}
    BY <2>1, HookRowsExist
  <2>3. /\ hook' = [hook EXCEPT ![h] = row] \/ hook' = hook
        /\ patches' \subseteq Hooks /\ UNCHANGED <<happened, jobs, deliveries, posts, hour>>
    BY <1>1, <1>2 DEF AddHook, EndPatch
  <2> HIDE DEF row
  <2>4. hook' \in [Hooks -> HookRows \cup {NoHook, Deleted}]
    BY <1>1, <2>1, <2>3
  <2>5. \A g \in Hooks : HasHook(g) => hook'[g] \notin {NoHook, Deleted}
    BY <1>1, <2>2, <2>3 DEF HasHook
  <2>6. hour' \in 0 .. MaxHour /\ jobs' \subseteq jobs
    BY <1>1, <2>3
  <2> QED
    BY <2>3, <2>4, <2>5, <2>6, HooksChange
<1>3. CASE BeginPatch(h) \/ RefusePatch(h)
  BY <1>1, <1>3, HooksChange DEF BeginPatch, RefusePatch, HasHook
<1>4. CASE RemoveHook(h)
  <2> DEFINE kept == {i \in DOMAIN deliveries : deliveries[i].hook # h}
  <2>1. /\ hook' = [hook EXCEPT ![h] = Deleted] /\ deliveries' = Keep(deliveries, kept)
        /\ UNCHANGED <<patches, happened, jobs, posts, hour>>
    BY <1>4 DEF RemoveHook
  <2>2. \A i \in kept : hook'[deliveries[i].hook] \notin {NoHook, Deleted}
    BY <1>1, <2>1 DEF DeliveryInv, DeliveriesAreTrue, HasHook
  <2>3. kept \in SUBSET (DOMAIN deliveries)
    OBVIOUS
  <2> HIDE DEF kept
  <2>4. LogInv' /\ DeliveriesAreTrue' /\ deliveries' \in Seq(Deliveries)
    BY <2>1, <2>2, <2>3, KeptRowsAreTrue DEF DeliveryInv
  <2>5. WebhooksTypeOK'
    BY <1>1, <2>1, <2>4 DEF DeliveryInv, WebhooksTypeOK
  <2>6. JobsInv' /\ SilenceInv'
    BY <2>1 DEF DeliveryInv, JobsInv, SilenceInv
  <2> QED
    BY <2>4, <2>5, <2>6 DEF DeliveryInv
<1> QED
  BY <1>2, <1>3, <1>4 DEF HookSteps

\* An event that happens starts one delivery for each webhook that is subscribed.
LEMMA DispatchKeeps ==
    ASSUME DeliveryInv, NEW u, NEW event \in Events, Dispatch(u, event) PROVE DeliveryInv'
<1> USE WebhooksAssumption
<1> DEFINE job(h) == [event |-> happened + 1, hook |-> h, attempts |-> 0, code |-> NoCode]
           started == {job(h) : h \in Subscribed(u, event)}
<1>1. /\ happened' = happened + 1 /\ happened < MaxEvents /\ jobs' = jobs \cup started
      /\ UNCHANGED <<hook, patches, deliveries, posts, hour>>
  BY DEF Dispatch
<1>2. happened \in Nat /\ happened + 1 \in 1 .. MaxEvents
  BY <1>1 DEF DeliveryInv, WebhooksTypeOK
<1>3. \A new \in started :
        /\ new \in Jobs /\ new.hook \in Hooks /\ new.event = happened + 1
        /\ new.attempts = 0 /\ new.code = NoCode
  BY <1>2 DEF Jobs, Subscribed, MaxAttempts
<1>4. \A one, other \in started : one.hook = other.hook => one = other
  OBVIOUS
<1> HIDE DEF started
<1>5. WebhooksTypeOK'
  BY <1>1, <1>2, <1>3 DEF DeliveryInv, WebhooksTypeOK
<1>6. \A old \in jobs : old.event <= happened /\ old.event \in Nat
  BY DEF DeliveryInv, JobsInv, WebhooksTypeOK, Jobs
<1>7. \A new \in started : posts[new.event][new.hook] = 0
  BY <1>2, <1>3 DEF DeliveryInv, SilenceInv
<1>8. JobsInv'
  <2>1. \A new \in started :
          /\ new.event <= happened' /\ new.attempts < MaxAttempts
          /\ posts[new.event][new.hook] <= new.attempts /\ new.code = NoCode
    BY <1>1, <1>2, <1>3, <1>7 DEF MaxAttempts
  <2>2. \A old \in jobs :
          /\ old.event <= happened' /\ old.attempts < MaxAttempts
          /\ posts[old.event][old.hook] <= old.attempts
          /\ old.code # NoCode => posts[old.event][old.hook] > 0
    BY <1>1, <1>2, <1>6 DEF DeliveryInv, JobsInv
  <2>3. \A one, other \in jobs' : one.event = other.event /\ one.hook = other.hook => one = other
    <3>1. \A old \in jobs, new \in started : old.event # new.event
      BY <1>2, <1>3, <1>6
    <3>2. \A one, other \in jobs : one.event = other.event /\ one.hook = other.hook => one = other
      BY DEF DeliveryInv, JobsInv
    <3> QED
      BY <1>1, <1>4, <3>1, <3>2
  <2> QED
    BY <1>1, <2>1, <2>2, <2>3 DEF JobsInv, MaxAttempts, NoCode
<1>9. \A i \in DOMAIN deliveries : deliveries[i].event <= happened /\ deliveries[i].event \in Nat
  <2>1. \A i \in DOMAIN deliveries : deliveries[i] \in Deliveries
    BY ElementOfSeq, LenProperties DEF DeliveryInv, WebhooksTypeOK
  <2> QED
    BY <2>1 DEF DeliveryInv, LogInv, Deliveries
<1>10. LogInv'
  <2>1. \A i \in DOMAIN deliveries, new \in started : deliveries[i].event # new.event
    BY <1>2, <1>3, <1>9
  <2>2. \A i \in DOMAIN deliveries : deliveries[i].event <= happened'
    BY <1>1, <1>2, <1>9
  <2> QED
    BY <1>1, <2>1, <2>2 DEF DeliveryInv, LogInv
<1>11. SilenceInv'
  BY <1>1, <1>2 DEF DeliveryInv, SilenceInv
<1>12. DeliveriesAreTrue'
  BY <1>1 DEF DeliveryInv, DeliveriesAreTrue, HasHook
<1> QED
  BY <1>5, <1>8, <1>10, <1>11, <1>12 DEF DeliveryInv

\* What one more request, or none, does to the number of those received.
LEMMA PostCounts ==
    ASSUME DeliveryInv, NEW job \in jobs, NEW arrives \in BOOLEAN,
           posts' = [posts EXCEPT ![job.event][job.hook] = IF arrives THEN @ + 1 ELSE @]
    PROVE  /\ job \in Jobs /\ job.attempts < MaxAttempts /\ job.attempts + 1 \in 0 .. MaxAttempts
           /\ posts' \in [1 .. MaxEvents -> [Hooks -> Nat]]
           /\ \A n \in 1 .. MaxEvents, h \in Hooks :
                 ~(n = job.event /\ h = job.hook) => posts'[n][h] = posts[n][h]
           /\ posts'[job.event][job.hook] <= job.attempts + 1
           /\ posts[job.event][job.hook] \in Nat
           /\ posts[job.event][job.hook] <= posts'[job.event][job.hook]
           /\ arrives => posts'[job.event][job.hook] > 0
           /\ job.code # NoCode => posts'[job.event][job.hook] > 0
<1>1. job \in Jobs /\ posts \in [1 .. MaxEvents -> [Hooks -> Nat]]
  BY DEF DeliveryInv, WebhooksTypeOK
<1>2. /\ job.attempts < MaxAttempts /\ posts[job.event][job.hook] <= job.attempts
      /\ job.code # NoCode => posts[job.event][job.hook] > 0
  BY DEF DeliveryInv, JobsInv
<1>3. job.event \in 1 .. MaxEvents /\ job.hook \in Hooks /\ job.attempts \in Nat
  BY <1>1 DEF Jobs
<1>4. /\ posts' \in [1 .. MaxEvents -> [Hooks -> Nat]]
      /\ posts'[job.event][job.hook]
           = IF arrives THEN posts[job.event][job.hook] + 1 ELSE posts[job.event][job.hook]
      /\ \A n \in 1 .. MaxEvents, h \in Hooks :
            ~(n = job.event /\ h = job.hook) => posts'[n][h] = posts[n][h]
  BY <1>1, <1>3
<1>5. posts[job.event][job.hook] \in Nat
  BY <1>1, <1>3
<1> DEFINE before == posts[job.event][job.hook]
           after == posts'[job.event][job.hook]
<1>6. /\ before \in Nat /\ before <= job.attempts /\ after = IF arrives THEN before + 1 ELSE before
      /\ job.code # NoCode => before > 0
  BY <1>2, <1>4, <1>5
<1>7. job.attempts + 1 \in 0 .. MaxAttempts
  BY <1>2, <1>3 DEF MaxAttempts
<1> HIDE DEF before, after
<1>8. /\ after <= job.attempts + 1 /\ before <= after
      /\ arrives => after > 0
      /\ job.code # NoCode => after > 0
  BY <1>3, <1>6
<1>9. /\ posts'[job.event][job.hook] <= job.attempts + 1
      /\ posts[job.event][job.hook] <= posts'[job.event][job.hook]
      /\ arrives => posts'[job.event][job.hook] > 0
      /\ job.code # NoCode => posts'[job.event][job.hook] > 0
  BY <1>8 DEF before, after
<1>10. \A n \in 1 .. MaxEvents, h \in Hooks :
         ~(n = job.event /\ h = job.hook) => posts'[n][h] = posts[n][h]
  BY <1>4
<1>11. /\ job \in Jobs /\ job.attempts < MaxAttempts /\ job.attempts + 1 \in 0 .. MaxAttempts
       /\ posts' \in [1 .. MaxEvents -> [Hooks -> Nat]] /\ posts[job.event][job.hook] \in Nat
  BY <1>1, <1>2, <1>4, <1>5, <1>7
<1> QED
  BY <1>9, <1>10, <1>11

LEMMA JobStepsKeep == ASSUME DeliveryInv, NEW job \in jobs, JobSteps(job) PROVE DeliveryInv'
<1>1. CASE Reject(job)
  <2>1. Conclude(job, "failed", 0, NoCode) /\ posts' = posts /\ job.attempts = 0
    BY <1>1 DEF Reject
  <2>2. posts \in [1 .. MaxEvents -> [Hooks -> Nat]] /\ posts[job.event][job.hook] <= 0
    BY <2>1 DEF DeliveryInv, WebhooksTypeOK, JobsInv
  <2>3. /\ 0 \in 0 .. MaxAttempts /\ NoCode \in {NoCode, "error", "ok"} /\ "failed" \in {"success", "failed"}
        /\ "failed" # "success"
    BY DEF MaxAttempts
  <2> QED
    BY <2>1, <2>2, <2>3, ConcludeKeeps
<1>2. CASE Succeed(job)
  <2>1. /\ posts' = [posts EXCEPT ![job.event][job.hook] = IF TRUE THEN @ + 1 ELSE @]
        /\ Conclude(job, "success", job.attempts + 1, "ok")
    BY <1>2 DEF Succeed
  <2>2. /\ job.attempts + 1 \in 0 .. MaxAttempts
        /\ posts' \in [1 .. MaxEvents -> [Hooks -> Nat]]
        /\ \A n \in 1 .. MaxEvents, h \in Hooks :
              ~(n = job.event /\ h = job.hook) => posts'[n][h] = posts[n][h]
        /\ posts'[job.event][job.hook] <= job.attempts + 1
        /\ posts'[job.event][job.hook] > 0
    BY <2>1, PostCounts
  <2>3. "ok" \in {NoCode, "error", "ok"} /\ "success" \in {"success", "failed"}
    OBVIOUS
  <2> QED
    BY <2>1, <2>2, <2>3, ConcludeKeeps
<1>3. CASE Fail(job)
  <2>1. /\ posts' = [posts EXCEPT ![job.event][job.hook] = IF TRUE THEN @ + 1 ELSE @]
        /\ Retry(job, "error")
    BY <1>3 DEF Fail
  <2>2. /\ posts' \in [1 .. MaxEvents -> [Hooks -> Nat]]
        /\ \A n \in 1 .. MaxEvents, h \in Hooks :
              ~(n = job.event /\ h = job.hook) => posts'[n][h] = posts[n][h]
        /\ posts'[job.event][job.hook] <= job.attempts + 1
        /\ posts'[job.event][job.hook] > 0
    BY <2>1, PostCounts
  <2>3. "error" \in {NoCode, "error"}
    OBVIOUS
  <2> QED
    BY <2>1, <2>2, <2>3, RetryKeeps
<1>4. ASSUME NEW arrives \in BOOLEAN, Miss(job, arrives) PROVE DeliveryInv'
  <2>1. /\ posts' = [posts EXCEPT ![job.event][job.hook] = IF arrives THEN @ + 1 ELSE @]
        /\ Retry(job, job.code)
    BY <1>4 DEF Miss
  <2>2. /\ job \in Jobs
        /\ posts' \in [1 .. MaxEvents -> [Hooks -> Nat]]
        /\ \A n \in 1 .. MaxEvents, h \in Hooks :
              ~(n = job.event /\ h = job.hook) => posts'[n][h] = posts[n][h]
        /\ posts'[job.event][job.hook] <= job.attempts + 1
        /\ job.code # NoCode => posts'[job.event][job.hook] > 0
    BY <2>1, PostCounts
  <2>3. job.code \in {NoCode, "error"}
    BY <2>2 DEF Jobs
  <2> QED
    BY <2>1, <2>2, <2>3, RetryKeeps
<1> QED
  BY <1>1, <1>2, <1>3, <1>4 DEF JobSteps

LEMMA DeliveryStep == DeliveryInv /\ [WebhooksNext]_webhookVars => DeliveryInv'
<1> SUFFICES ASSUME DeliveryInv, [WebhooksNext]_webhookVars PROVE DeliveryInv'
  OBVIOUS
<1> USE WebhooksAssumption
<1>1. /\ hook \in [Hooks -> HookRows \cup {NoHook, Deleted}] /\ patches \subseteq Hooks
      /\ hour \in 0 .. MaxHour
  BY DEF DeliveryInv, WebhooksTypeOK
<1>2. ASSUME NEW h \in Hooks, HookSteps(h) PROVE DeliveryInv'
  BY <1>2, HookStepsKeep
<1>3. ASSUME NEW h \in Hooks, NEW event \in Events, Dispatch(OwnerOf[h], event) PROVE DeliveryInv'
  BY <1>3, DispatchKeeps
<1>4. ASSUME NEW job \in jobs, JobSteps(job) PROVE DeliveryInv'
  BY <1>4, JobStepsKeep
<1>5. CASE ForgetDeliveries
  <2>1. PICK kept \in SUBSET (DOMAIN deliveries) :
          deliveries' = Keep(deliveries, kept) /\ UNCHANGED <<hook, patches, happened, jobs, posts, hour>>
    BY <1>5 DEF ForgetDeliveries
  <2>2. \A i \in kept : hook'[deliveries[i].hook] \notin {NoHook, Deleted}
    BY <2>1 DEF DeliveryInv, DeliveriesAreTrue, HasHook
  <2>3. LogInv' /\ DeliveriesAreTrue' /\ deliveries' \in Seq(Deliveries)
    BY <2>1, <2>2, KeptRowsAreTrue DEF DeliveryInv
  <2>4. WebhooksTypeOK'
    BY <1>1, <2>1, <2>3 DEF DeliveryInv, WebhooksTypeOK
  <2>5. JobsInv' /\ SilenceInv'
    BY <2>1 DEF DeliveryInv, JobsInv, SilenceInv
  <2> QED
    BY <2>3, <2>4, <2>5 DEF DeliveryInv
<1>6. CASE NextHour \/ Stop \/ UNCHANGED webhookVars
  <2>1. /\ hook' = hook /\ patches' \subseteq patches /\ UNCHANGED <<happened, deliveries, posts>>
        /\ jobs' \subseteq jobs /\ hour' \in 0 .. MaxHour
    BY <1>1, <1>6 DEF NextHour, Stop, webhookVars
  <2> QED
    BY <1>1, <2>1, HooksChange DEF HasHook
<1> QED
  BY <1>2, <1>3, <1>4, <1>5, <1>6 DEF WebhooksNext

LEMMA DeliveryAlways == WebhooksSpec => []DeliveryInv
<1>1. WebhooksInit => DeliveryInv
  BY DeliveryInit
<1>2. DeliveryInv /\ [WebhooksNext]_webhookVars => DeliveryInv'
  BY DeliveryStep
<1> QED
  BY <1>1, <1>2, PTL DEF WebhooksSpec

\* The rows of services/webhooks.ts keep their types for any number of webhooks,
\* events and hours, whatever the retention deletes.
THEOREM WebhookTypes == WebhooksSpec => []WebhooksTypeOK
<1>1. DeliveryInv => WebhooksTypeOK
  BY DEF DeliveryInv
<1> QED
  BY <1>1, DeliveryAlways, PTL

\* deliverToWebhook and the cleanup of its log: what a row says of a delivery is
\* what the receiver saw of it, for any number of webhooks, events and hours,
\* wherever a webhook is changed or deleted between its attempts.
THEOREM DeliveriesHonest == WebhooksSpec => []DeliveriesAreTrue
<1>1. DeliveryInv => DeliveriesAreTrue
  BY DEF DeliveryInv
<1> QED
  BY <1>1, DeliveryAlways, PTL

-----------------------------------------------------------------------------
(* Views: those of a page from one address are a window apart, so that each of  *)
(* them has the window in which it was recorded, counted from the start of the  *)
(* clock, for itself.                                                           *)

ViewsInv ==
    /\ ViewsTypeOK
    /\ \A v \in views : v.at <= minute
    /\ \A v, w \in views :
          v # w /\ v.page = w.page /\ v.visitor.ip = w.visitor.ip =>
            v.at + ViewWindow <= w.at \/ w.at + ViewWindow <= v.at

LEMMA ViewRowFields ==
    ASSUME ViewsTypeOK, NEW v \in views
    PROVE  v.at \in Nat /\ v.page \in Pages /\ v.visitor \in Visitors
BY ViewsAssumption DEF ViewsTypeOK, ViewRows

LEMMA ViewsStep == ViewsInv /\ [ViewsNext]_viewVars => ViewsInv'
<1> SUFFICES ASSUME ViewsInv, [ViewsNext]_viewVars PROVE ViewsInv'
  OBVIOUS
<1> USE ViewsAssumption
<1>0. minute \in Nat /\ minute \in 0 .. MaxMinute /\ views \subseteq ViewRows
  BY DEF ViewsInv, ViewsTypeOK
<1>1. \A v \in views : v.at \in Nat
  BY ViewRowFields DEF ViewsInv
<1>2. ASSUME NEW page \in Pages, NEW v \in Visitors, View(page, v) PROVE ViewsInv'
  <2> DEFINE new == [page |-> page, visitor |-> v, at |-> minute]
  <2>1. views' = views \cup {new} /\ minute' = minute /\ ~Counted(page, v)
    BY <1>2 DEF View
  <2>2. new \in ViewRows /\ new.page = page /\ new.visitor = v /\ new.at = minute
    BY <1>0 DEF ViewRows
  <2> HIDE DEF new
  <2>3. \A old \in views : old.page = page /\ old.visitor.ip = v.ip => old.at + ViewWindow <= minute
    BY <1>0, <1>1, <2>1 DEF Counted
  <2>4. ViewsTypeOK'
    BY <1>0, <2>1, <2>2 DEF ViewsTypeOK
  <2>5. \A view \in views' : view.at <= minute'
    BY <1>0, <2>1, <2>2 DEF ViewsInv
  <2>6. \A one, other \in views' :
          one # other /\ one.page = other.page /\ one.visitor.ip = other.visitor.ip =>
            one.at + ViewWindow <= other.at \/ other.at + ViewWindow <= one.at
    BY <2>1, <2>2, <2>3 DEF ViewsInv
  <2> QED
    BY <2>4, <2>5, <2>6 DEF ViewsInv
<1>3. CASE ForgetViews
  <2>1. views' \subseteq views /\ minute' = minute
    BY <1>3 DEF ForgetViews
  <2> QED
    BY <2>1 DEF ViewsInv, ViewsTypeOK
<1>4. CASE NextMinute \/ UNCHANGED viewVars
  <2>1. views' = views /\ minute' \in 0 .. MaxMinute /\ minute <= minute'
    BY <1>0, <1>4 DEF NextMinute, viewVars
  <2>2. \A v \in views : v.at <= minute'
    BY <1>0, <1>1, <2>1 DEF ViewsInv
  <2> QED
    BY <2>1, <2>2 DEF ViewsInv, ViewsTypeOK
<1> QED
  BY <1>2, <1>3, <1>4 DEF ViewsNext

LEMMA WindowsBetween ==
    ASSUME NEW w \in Nat \ {0}, NEW a \in Nat, NEW b \in Nat
    PROVE  /\ a \div w \in Nat
           /\ a <= b => a \div w <= b \div w
           /\ a + w <= b => a \div w # b \div w
<1>1. w * (a \div w) <= a /\ a < w * (a \div w) + w /\ a \div w \in Nat
  OBVIOUS
<1>2. w * (b \div w) <= b /\ b < w * (b \div w) + w /\ b \div w \in Nat
  OBVIOUS
<1>3. ASSUME a <= b PROVE a \div w <= b \div w
  BY <1>3
<1>4. ASSUME a + w <= b PROVE a \div w < b \div w
  BY <1>4
<1> QED
  BY <1>1, <1>2, <1>3, <1>4

LEMMA ViewsBounded == ViewsInv => ViewsCountOnce
<1> SUFFICES ASSUME ViewsInv, NEW page \in Pages
             PROVE  /\ \A v, w \in Of(page) :
                         v # w /\ v.visitor.ip = w.visitor.ip =>
                           v.at + ViewWindow <= w.at \/ w.at + ViewWindow <= v.at
                    /\ TotalViews(page) <= Cardinality(Addresses) * (minute \div ViewWindow + 1)
                    /\ UniqueVisitors(page) <= TotalViews(page)
  BY DEF ViewsCountOnce
<1> USE ViewsAssumption
<1>1. /\ minute \in Nat /\ ViewWindow \in Nat \ {0} /\ minute \div ViewWindow \in Nat
      /\ \A v \in Of(page) : /\ v.at \in Nat /\ v.at <= minute /\ v.visitor.ip \in Addresses
  <2>1. minute \in Nat
    BY DEF ViewsInv, ViewsTypeOK
  <2>2. \A v \in Of(page) : v.at \in Nat /\ v.at <= minute /\ v.visitor \in Visitors
    BY ViewRowFields DEF ViewsInv, Of
  <2> QED
    BY <2>1, <2>2, WindowsBetween DEF Addresses
<1>2. \A v, w \in Of(page) :
        v # w /\ v.visitor.ip = w.visitor.ip =>
          v.at + ViewWindow <= w.at \/ w.at + ViewWindow <= v.at
  BY DEF ViewsInv, Of
<1> DEFINE last == minute \div ViewWindow
           cells == Addresses \X (0 .. last)
           cell == [v \in Of(page) |-> <<v.visitor.ip, v.at \div ViewWindow>>]
<1>3. \A v \in Of(page) : v.at \div ViewWindow \in 0 .. last
  <2> SUFFICES ASSUME NEW v \in Of(page) PROVE v.at \div ViewWindow \in 0 .. last
    OBVIOUS
  <2>1. v.at \in Nat /\ v.at <= minute
    BY <1>1
  <2>2. v.at \div ViewWindow \in Nat /\ v.at \div ViewWindow <= last
    BY <1>1, <2>1, WindowsBetween
  <2> QED
    BY <1>1, <2>2
<1>4. cell \in Injection(Of(page), cells)
  <2>1. cell \in [Of(page) -> cells]
    BY <1>1, <1>3
  <2>2. ASSUME NEW v \in Of(page), NEW w \in Of(page), v # w PROVE cell[v] # cell[w]
    <3>1. CASE v.visitor.ip # w.visitor.ip
      BY <3>1
    <3>2. CASE v.visitor.ip = w.visitor.ip
      <4>1. v.at + ViewWindow <= w.at \/ w.at + ViewWindow <= v.at
        BY <1>2, <2>2, <3>2
      <4>2. v.at \div ViewWindow # w.at \div ViewWindow
        BY <1>1, <4>1, WindowsBetween
      <4> QED
        BY <4>2
    <3> QED
      BY <3>1, <3>2
  <2> QED
    BY <2>1, <2>2 DEF Injection, IsInjective
<1>5. IsFiniteSet(Addresses)
  <2> DEFINE ipOf == [v \in Visitors |-> v.ip]
  <2>1. ipOf \in Surjection(Visitors, Addresses)
    BY DEF Addresses, Surjection
  <2> QED
    BY <2>1, FS_Surjection
<1>6. /\ IsFiniteSet(0 .. last) /\ Cardinality(0 .. last) = last + 1
      /\ IsFiniteSet(cells) /\ Cardinality(cells) = Cardinality(Addresses) * (last + 1)
  <2>1. last \in Nat
    BY <1>1
  <2> HIDE DEF last
  <2>2. IsFiniteSet(0 .. last) /\ Cardinality(0 .. last) = last + 1
    BY <2>1, FS_Interval
  <2> QED
    BY <1>5, <2>2, FS_Product
<1>7. IsFiniteSet(Of(page)) /\ Cardinality(Of(page)) <= Cardinality(Addresses) * (last + 1)
  <2> HIDE DEF cell, cells, last
  <2>1. IsFiniteSet(Of(page)) /\ Cardinality(Of(page)) <= Cardinality(cells)
    BY <1>4, <1>6, FS_Injection
  <2> QED
    BY <1>6, <2>1
<1>8. UniqueVisitors(page) <= Cardinality(Of(page))
  <2> DEFINE pairs == {<<view.visitor.ip, view.visitor.agent>> : view \in Of(page)}
             pairOf == [view \in Of(page) |-> <<view.visitor.ip, view.visitor.agent>>]
  <2>1. pairOf \in Surjection(Of(page), pairs)
    BY DEF Surjection
  <2>2. Cardinality(pairs) <= Cardinality(Of(page))
    <3> HIDE DEF pairs, pairOf
    <3> QED
      BY <1>7, <2>1, FS_Surjection
  <2> QED
    BY <2>2 DEF UniqueVisitors
<1> QED
  BY <1>2, <1>7, <1>8 DEF TotalViews

LEMMA ViewsAlways == ViewsSpec => []ViewsInv
<1>1. ViewsInit => ViewsInv
  BY ViewsAssumption DEF ViewsInit, ViewsInv, ViewsTypeOK
<1>2. ViewsInv /\ [ViewsNext]_viewVars => ViewsInv'
  BY ViewsStep
<1> QED
  BY <1>1, <1>2, PTL DEF ViewsSpec

\* The rows of services/analytics.ts keep their types for any pages and visitors
\* and any retention.
THEOREM ViewTypes == ViewsSpec => []ViewsTypeOK
<1>1. ViewsInv => ViewsTypeOK
  BY DEF ViewsInv
<1> QED
  BY <1>1, ViewsAlways, PTL

\* recordViewEventDeduped: however many visitors there are and whatever window
\* and retention are set, the total of a page grows by at most one for each
\* address and window, and its visitors by as much.
THEOREM ViewsCountedOnce == ViewsSpec => []ViewsCountOnce
BY ViewsBounded, ViewsAlways, PTL

-----------------------------------------------------------------------------
(* Rate limits: what a check leaves of a store.                              *)

Distinct(buckets) == \A i, j \in DOMAIN buckets : buckets[i].key = buckets[j].key => i = j

OpenOf(buckets) == {buckets[i] : i \in {j \in DOMAIN buckets : IsOpen(buckets[j])}}

\* The buckets of `some` are buckets of `all`, and none of them is there twice.
Drawn(some, all) ==
    /\ some \in Seq(Bucket) /\ Len(some) <= Len(all)
    /\ \E source \in [DOMAIN some -> DOMAIN all] :
         /\ \A n \in DOMAIN some : some[n] = all[source[n]]
         /\ \A m, n \in DOMAIN some : source[m] = source[n] => m = n

LEMMA DrawnKeeps ==
    ASSUME NEW some, NEW all, Drawn(some, all)
    PROVE  /\ Distinct(all) => Distinct(some)
           /\ OpenOf(some) \subseteq OpenOf(all)
           /\ \A n \in DOMAIN some : \E i \in DOMAIN all : some[n] = all[i]
<1>1. PICK source \in [DOMAIN some -> DOMAIN all] :
         /\ \A n \in DOMAIN some : some[n] = all[source[n]]
         /\ \A m, n \in DOMAIN some : source[m] = source[n] => m = n
  BY DEF Drawn
<1>2. \A n \in DOMAIN some : source[n] \in DOMAIN all
  BY <1>1
<1>3. ASSUME Distinct(all) PROVE Distinct(some)
  BY <1>1, <1>2, <1>3 DEF Distinct
<1>4. OpenOf(some) \subseteq OpenOf(all)
  BY <1>1, <1>2 DEF OpenOf
<1> QED
  BY <1>1, <1>2, <1>3, <1>4

LEMMA DrawnTwice ==
    ASSUME NEW some, NEW more, NEW all, Drawn(some, more), Drawn(more, all), all \in Seq(Bucket)
    PROVE  Drawn(some, all)
<1>1. PICK first \in [DOMAIN some -> DOMAIN more] :
         /\ \A n \in DOMAIN some : some[n] = more[first[n]]
         /\ \A m, n \in DOMAIN some : first[m] = first[n] => m = n
  BY DEF Drawn
<1>2. PICK second \in [DOMAIN more -> DOMAIN all] :
         /\ \A n \in DOMAIN more : more[n] = all[second[n]]
         /\ \A m, n \in DOMAIN more : second[m] = second[n] => m = n
  BY DEF Drawn
<1> DEFINE both == [n \in DOMAIN some |-> second[first[n]]]
<1>3. \A n \in DOMAIN some : first[n] \in DOMAIN more /\ both[n] \in DOMAIN all
  BY <1>1, <1>2
<1>4. both \in [DOMAIN some -> DOMAIN all]
  BY <1>3
<1>5. \A n \in DOMAIN some : some[n] = all[both[n]]
  BY <1>1, <1>2, <1>3
<1>6. \A m, n \in DOMAIN some : both[m] = both[n] => m = n
  BY <1>1, <1>2, <1>3
<1>7. some \in Seq(Bucket) /\ Len(some) <= Len(all)
  <2>1. Len(some) \in Nat /\ Len(more) \in Nat /\ Len(all) \in Nat
    BY LenProperties DEF Drawn
  <2> QED
    BY <2>1 DEF Drawn
<1> HIDE DEF both
<1> QED
  BY <1>4, <1>5, <1>6, <1>7 DEF Drawn

\* What is kept of a store is drawn from it, in its order.
LEMMA KeepDraws ==
    ASSUME NEW rows \in Seq(Bucket), NEW kept \in SUBSET (DOMAIN rows)
    PROVE  /\ Drawn(Keep(rows, kept), rows)
           /\ \A n \in DOMAIN Keep(rows, kept) : \E i \in kept : Keep(rows, kept)[n] = rows[i]
           /\ \A i \in kept : \E n \in DOMAIN Keep(rows, kept) : Keep(rows, kept)[n] = rows[i]
           /\ Len(rows) \in kept => /\ Len(Keep(rows, kept)) > 0
                                    /\ Keep(rows, kept)[Len(Keep(rows, kept))] = rows[Len(rows)]
<1> DEFINE rest == Keep(rows, kept)
           source == [n \in DOMAIN rest |-> Nth(n, kept)]
<1>1. /\ rest \in Seq(Bucket) /\ Len(rest) <= Len(rows) /\ DOMAIN rest = 1 .. Len(rest)
      /\ \A n \in DOMAIN rest : source[n] \in kept /\ rest[n] = rows[source[n]]
      /\ \A m, n \in DOMAIN rest : m < n => source[m] < source[n]
      /\ \A i \in kept : \E n \in DOMAIN rest : source[n] = i
      /\ source \in [DOMAIN rest -> DOMAIN rows]
  <2>1. /\ rest \in Seq(Bucket) /\ Len(rest) <= Len(rows) /\ DOMAIN rest = 1 .. Len(rest)
        /\ \A n \in DOMAIN rest : Nth(n, kept) \in kept /\ rest[n] = rows[Nth(n, kept)]
        /\ \A m, n \in DOMAIN rest : m < n => Nth(m, kept) < Nth(n, kept)
        /\ \A i \in kept : \E n \in DOMAIN rest : Nth(n, kept) = i
    BY KeepSources
  <2> HIDE DEF rest
  <2> QED
    BY <2>1
<1> HIDE DEF rest, source
<1>2. /\ Len(rest) \in Nat /\ Len(rows) \in Nat /\ DOMAIN rows = 1 .. Len(rows)
  BY <1>1, LenProperties
<1>3. \A n \in DOMAIN rest : source[n] \in Nat /\ source[n] <= Len(rows) /\ n \in Nat
  BY <1>1, <1>2
<1>4. \A m, n \in DOMAIN rest : source[m] = source[n] => m = n
  BY <1>1, <1>3
<1>5. Drawn(rest, rows)
  BY <1>1, <1>4 DEF Drawn
<1>6. ASSUME Len(rows) \in kept PROVE Len(rest) > 0 /\ rest[Len(rest)] = rows[Len(rows)]
  <2>1. PICK n \in DOMAIN rest : source[n] = Len(rows)
    BY <1>1, <1>6
  <2>2. Len(rest) \in DOMAIN rest /\ n <= Len(rest) /\ n \in Nat
    BY <1>1, <1>2, <2>1
  <2>3. ~ (n < Len(rest))
    BY <1>1, <1>2, <1>3, <2>1, <2>2
  <2> QED
    BY <1>1, <1>2, <2>1, <2>2, <2>3
<1>7. \A i \in kept : \E n \in DOMAIN rest : rest[n] = rows[i]
  BY <1>1
<1> QED
  BY <1>1, <1>5, <1>6, <1>7 DEF rest

LEMMA PrunedOpen ==
    ASSUME NEW rows \in Seq(Bucket)
    PROVE  /\ Drawn(Pruned(rows), rows) /\ OpenOf(Pruned(rows)) = OpenOf(rows)
           /\ Len(rows) > 0 /\ IsOpen(rows[Len(rows)]) =>
                /\ Len(Pruned(rows)) > 0
                /\ Pruned(rows)[Len(Pruned(rows))] = rows[Len(rows)]
<1> DEFINE kept == {i \in DOMAIN rows : IsOpen(rows[i])}
           rest == Keep(rows, kept)
<1>1. /\ Drawn(rest, rows)
      /\ \A n \in DOMAIN rest : \E i \in kept : rest[n] = rows[i]
      /\ \A i \in kept : \E n \in DOMAIN rest : rest[n] = rows[i]
      /\ Len(rows) \in kept => Len(rest) > 0 /\ rest[Len(rest)] = rows[Len(rows)]
  BY KeepDraws
<1>2. Pruned(rows) = rest
  BY DEF Pruned
<1>3. Len(rows) \in Nat /\ DOMAIN rows = 1 .. Len(rows)
  BY LenProperties
<1>4. Len(rows) > 0 /\ IsOpen(rows[Len(rows)]) => Len(rows) \in kept
  BY <1>3
<1> HIDE DEF rest
<1>5. OpenOf(rest) = OpenOf(rows)
  <2>1. ASSUME NEW n \in DOMAIN rest PROVE rest[n] \in OpenOf(rows)
    BY <1>1 DEF OpenOf
  <2>2. ASSUME NEW i \in DOMAIN rows, IsOpen(rows[i]) PROVE rows[i] \in OpenOf(rest)
    <3>1. i \in kept
      BY <2>2
    <3>2. PICK n \in DOMAIN rest : rest[n] = rows[i]
      BY <1>1, <3>1
    <3> QED
      BY <2>2, <3>2 DEF OpenOf
  <2> QED
    BY <2>1, <2>2 DEF OpenOf
<1> QED
  BY <1>1, <1>2, <1>4, <1>5

\* enforceMaxEntries: no more than there may be, and the newest stays.
LEMMA BoundedDraws ==
    ASSUME NEW rows \in Seq(Bucket), NEW most \in Nat \ {0}
    PROVE  /\ Drawn(Bounded(rows, most), rows) /\ Len(Bounded(rows, most)) <= most
           /\ Len(rows) > 0 /\ IsOpen(rows[Len(rows)]) =>
                rows[Len(rows)] \in OpenOf(Bounded(rows, most))
<1>0. Len(rows) \in Nat /\ DOMAIN rows = 1 .. Len(rows)
  BY LenProperties
<1>1. CASE Len(rows) <= most
  <2>1. Bounded(rows, most) = rows
    BY <1>1 DEF Bounded
  <2>2. Drawn(rows, rows)
    <3> DEFINE source == [n \in DOMAIN rows |-> n]
    <3>1. /\ source \in [DOMAIN rows -> DOMAIN rows]
          /\ \A n \in DOMAIN rows : source[n] = n
      OBVIOUS
    <3> HIDE DEF source
    <3> QED
      BY <1>0, <3>1 DEF Drawn
  <2>3. Len(rows) > 0 => Len(rows) \in DOMAIN rows
    BY <1>0
  <2> QED
    BY <1>1, <2>1, <2>2, <2>3 DEF OpenOf
<1>2. CASE ~ (Len(rows) <= most)
  <2> DEFINE kept == Pruned(rows)
             excess == IF Len(kept) > most THEN Len(kept) - most ELSE 0
             rest == SubSeq(kept, excess + 1, Len(kept))
  <2>1. Bounded(rows, most) = rest
    BY <1>2 DEF Bounded
  <2>2. /\ Drawn(kept, rows)
        /\ Len(rows) > 0 /\ IsOpen(rows[Len(rows)]) =>
             Len(kept) > 0 /\ kept[Len(kept)] = rows[Len(rows)]
    BY PrunedOpen
  <2> HIDE DEF kept
  <2>3. kept \in Seq(Bucket) /\ Len(kept) \in Nat /\ DOMAIN kept = 1 .. Len(kept)
    BY <2>2, LenProperties DEF Drawn
  <2>4. excess \in Nat /\ excess <= Len(kept) /\ Len(kept) - excess <= most
        /\ (Len(kept) > 0 => excess < Len(kept))
    BY <2>3
  <2> HIDE DEF excess
  <2>5. /\ rest \in Seq(Bucket) /\ Len(rest) = Len(kept) - excess
        /\ \A n \in 1 .. Len(rest) : rest[n] = kept[n + excess] /\ n + excess \in DOMAIN kept
    <3> DEFINE first == excess + 1
               last == Len(kept)
    <3>1. /\ first \in Int /\ last \in Int /\ \A n \in first .. last : kept[n] \in Bucket
      BY <2>3, <2>4, ElementOfSeq
    <3>2. first <= last + 1 /\ last - first + 1 = Len(kept) - excess
      BY <2>3, <2>4
    <3> HIDE DEF first, last
    <3>3. /\ SubSeq(kept, first, last) \in Seq(Bucket)
          /\ Len(SubSeq(kept, first, last)) = IF first <= last THEN last - first + 1 ELSE 0
          /\ \A n \in 1 .. last - first + 1 : SubSeq(kept, first, last)[n] = kept[first + n - 1]
      BY <3>1, SubSeqProperties, SMT
    <3>4. rest = SubSeq(kept, first, last)
      BY DEF first, last
    <3> HIDE DEF rest
    <3>5. rest \in Seq(Bucket) /\ Len(rest) = last - first + 1
      BY <3>1, <3>2, <3>3, <3>4
    <3>6. \A n \in 1 .. Len(rest) : rest[n] = kept[first + n - 1]
      BY <3>3, <3>4, <3>5
    <3>7. \A n \in 1 .. Len(rest) : first + n - 1 = n + excess /\ n + excess \in 1 .. Len(kept)
      BY <3>2, <3>5, <2>3, <2>4 DEF first
    <3> QED
      BY <2>3, <3>2, <3>5, <3>6, <3>7
  <2> HIDE DEF rest
  <2>6. Len(rest) \in Nat /\ DOMAIN rest = 1 .. Len(rest) /\ Len(rest) <= Len(kept) /\ Len(rest) <= most
    BY <2>3, <2>4, <2>5, LenProperties
  <2>7. Drawn(rest, kept)
    <3> DEFINE source == [n \in DOMAIN rest |-> n + excess]
    <3>1. source \in [DOMAIN rest -> DOMAIN kept] /\ \A n \in DOMAIN rest : rest[n] = kept[source[n]]
      BY <2>5, <2>6
    <3>2. \A m, n \in DOMAIN rest : source[m] = source[n] => m = n
      BY <2>4, <2>6
    <3> HIDE DEF source
    <3> QED
      BY <2>5, <2>6, <3>1, <3>2 DEF Drawn
  <2>8. Drawn(rest, rows)
    BY <2>2, <2>7, DrawnTwice
  <2>9. ASSUME Len(rows) > 0, IsOpen(rows[Len(rows)]) PROVE rows[Len(rows)] \in OpenOf(rest)
    <3>1. Len(kept) > 0 /\ kept[Len(kept)] = rows[Len(rows)]
      BY <2>2, <2>9
    <3>2. Len(rest) \in DOMAIN rest /\ rest[Len(rest)] = rows[Len(rows)]
      BY <2>3, <2>4, <2>5, <2>6, <3>1
    <3> QED
      BY <2>9, <3>2 DEF OpenOf
  <2> QED
    BY <2>1, <2>6, <2>8, <2>9
<1> QED
  BY <1>1, <1>2

\* A bucket that a check adds, and one that it counts a request in.
NewBucket(key) == [key |-> key, count |-> 1, resetAt |-> clock + Window]
Counting(bucket) == [bucket EXCEPT !.count = @ + 1]

LEMMA BucketFields ==
    ASSUME NEW bucket \in Bucket
    PROVE  /\ bucket.key \in Keys /\ bucket.count \in Nat /\ bucket.resetAt \in Nat
           /\ Counting(bucket) \in Bucket /\ Counting(bucket).key = bucket.key
           /\ Counting(bucket).resetAt = bucket.resetAt /\ Counting(bucket).count = bucket.count + 1
           /\ Counting(bucket) # bucket
BY DEF Bucket, Counting

LEMMA FreshBucket ==
    ASSUME NEW key \in Keys, clock \in Nat
    PROVE  /\ NewBucket(key) \in Bucket /\ NewBucket(key).key = key /\ NewBucket(key).count = 1
           /\ NewBucket(key).resetAt = clock + Window /\ IsOpen(NewBucket(key))
BY RateLimitsAssumption DEF NewBucket, Bucket, IsOpen

\* The check of a request by limiter l, for the buckets of its store: what is open
\* of the others stays open or is evicted, unchanged; of its own there is one, that
\* counts the request when the limiter allows it.
LEMMA CheckLeaves ==
    ASSUME NEW l \in Limiters, NEW c \in Clients, NEW swept \in BOOLEAN, clock \in Nat,
           hits \in [Stores -> Seq(Bucket)], Distinct(hits[StoreOf(l)]),
           Len(hits[StoreOf(l)]) <= Capacity[StoreOf(l)]
    PROVE  LET old == hits[StoreOf(l)]
               new == Checked(l, c, swept)
               key == KeyOf(l, c)
           IN  /\ new \in Seq(Bucket) /\ Len(new) <= Capacity[StoreOf(l)] /\ Distinct(new)
               /\ \A n \in DOMAIN new :
                     \/ new[n] = NewBucket(key)
                     \/ \E i \in DOMAIN old : new[n].key = old[i].key /\ new[n].resetAt = old[i].resetAt
               /\ \A b \in OpenOf(old) : b.key = key /\ Allows(l, c) =>
                     OpenOf(new) = (OpenOf(old) \ {b}) \cup {Counting(b)}
               /\ (\E b \in OpenOf(old) : b.key = key) /\ ~Allows(l, c) => OpenOf(new) = OpenOf(old)
               /\ (\A b \in OpenOf(old) : b.key # key) =>
                     NewBucket(key) \in OpenOf(new) /\ OpenOf(new) \subseteq OpenOf(old) \cup {NewBucket(key)}
<1> DEFINE old == hits[StoreOf(l)]
           new == Checked(l, c, swept)
           key == KeyOf(l, c)
           found == Found(StoreOf(l), swept)
           open == {i \in DOMAIN found : found[i].key = key /\ IsOpen(found[i])}
           most == Capacity[StoreOf(l)]
<1>1. old \in Seq(Bucket) /\ key \in Keys /\ StoreOf(l) \in Stores /\ most \in Nat \ {0}
  <2>1. StoreOf(l) \in Stores
    BY DEF StoreOf, Limiters, Stores
  <2>2. most \in Nat \ {0}
    BY <2>1, RateLimitsAssumption
  <2>3. key \in Keys
    BY DEF Keys
  <2> QED
    BY <2>1, <2>2, <2>3
<1>2. found \in Seq(Bucket) /\ Distinct(found) /\ OpenOf(found) = OpenOf(old) /\ Drawn(found, old)
  <2>1. CASE swept
    <3>1. found = Pruned(old)
      BY <2>1 DEF Found
    <3>2. Drawn(Pruned(old), old) /\ OpenOf(Pruned(old)) = OpenOf(old)
      BY <1>1, PrunedOpen
    <3>3. Pruned(old) \in Seq(Bucket) /\ Distinct(Pruned(old))
      BY <3>2, DrawnKeeps DEF Drawn
    <3> QED
      BY <3>1, <3>2, <3>3
  <2>2. CASE ~swept
    <3>1. found = old
      BY <2>2 DEF Found
    <3> DEFINE source == [n \in DOMAIN old |-> n]
    <3>2. /\ source \in [DOMAIN old -> DOMAIN old]
          /\ \A n \in DOMAIN old : source[n] = n
      OBVIOUS
    <3> HIDE DEF source, old, found
    <3>3. Len(old) \in Nat
      BY <1>1, LenProperties
    <3>4. Drawn(old, old)
      BY <1>1, <3>2, <3>3 DEF Drawn
    <3> QED
      BY <1>1, <3>1, <3>4 DEF old
  <2> QED
    BY <2>1, <2>2
<1>3. /\ Len(found) \in Nat /\ DOMAIN found = 1 .. Len(found) /\ Len(found) <= most
      /\ \A i \in DOMAIN found : found[i] \in Bucket
      /\ \A i \in DOMAIN found : \E j \in DOMAIN old : found[i] = old[j]
  <2>1. Len(found) <= Len(old) /\ Len(old) \in Nat /\ Len(old) <= most /\ most \in Nat
    BY <1>1, <1>2, LenProperties DEF Drawn
  <2>2. Len(found) \in Nat /\ DOMAIN found = 1 .. Len(found) /\ \A i \in DOMAIN found : found[i] \in Bucket
    BY <1>2, LenProperties, ElementOfSeq
  <2>3. \A i \in DOMAIN found : \E j \in DOMAIN old : found[i] = old[j]
    BY <1>2, DrawnKeeps
  <2> QED
    BY <2>1, <2>2, <2>3
<1>4. new = IF open = {}
            THEN Bounded(Append(Without(found, key), NewBucket(key)), most)
            ELSE [i \in DOMAIN found |-> IF i \in open /\ Allows(l, c) THEN Counting(found[i]) ELSE found[i]]
  BY DEF Checked, NewBucket, Counting
<1>5. open = {} <=> \A b \in OpenOf(found) : b.key # key
  BY DEF OpenOf
<1> HIDE DEF old, new, key, found, most
<1>6. CASE open = {}
  <2> DEFINE others == Without(found, key)
             rows == Append(others, NewBucket(key))
  <2>1. /\ Drawn(others, found) /\ \A n \in DOMAIN others : others[n].key # key
    <3> DEFINE kept == {i \in DOMAIN found : found[i].key # key}
    <3>0. kept \in SUBSET (DOMAIN found) /\ \A i \in kept : found[i].key # key
      OBVIOUS
    <3>1. /\ Drawn(Keep(found, kept), found)
          /\ \A n \in DOMAIN Keep(found, kept) : \E i \in kept : Keep(found, kept)[n] = found[i]
      <4> HIDE DEF kept
      <4> QED
        BY <1>2, <3>0, KeepDraws
    <3>2. others = Keep(found, kept)
      BY DEF Without
    <3> HIDE DEF others
    <3> QED
      BY <3>0, <3>1, <3>2
  <2>2. /\ others \in Seq(Bucket) /\ Distinct(others) /\ OpenOf(others) \subseteq OpenOf(found)
        /\ \A n \in DOMAIN others : \E i \in DOMAIN found : others[n] = found[i]
    BY <1>2, <2>1, DrawnKeeps DEF Drawn
  <2> HIDE DEF others
  <2>3. NewBucket(key) \in Bucket /\ NewBucket(key).key = key /\ IsOpen(NewBucket(key))
    BY <1>1, FreshBucket
  <2>4. /\ rows \in Seq(Bucket) /\ Len(rows) = Len(others) + 1 /\ Len(others) \in Nat
        /\ DOMAIN rows = 1 .. Len(rows) /\ DOMAIN others = 1 .. Len(others)
        /\ rows[Len(rows)] = NewBucket(key)
        /\ \A i \in DOMAIN others : rows[i] = others[i]
    BY <2>2, <2>3, AppendProperties, LenProperties
  <2> HIDE DEF rows
  <2>5. \A i \in DOMAIN rows : i = Len(rows) \/ (i \in DOMAIN others /\ rows[i] = others[i])
    BY <2>4
  <2>6. Distinct(rows)
    BY <2>1, <2>2, <2>3, <2>4, <2>5 DEF Distinct
  <2>7. OpenOf(rows) \subseteq OpenOf(found) \cup {NewBucket(key)}
    BY <2>2, <2>4, <2>5 DEF OpenOf
  <2>8. /\ Drawn(new, rows) /\ Len(new) <= most
        /\ Len(rows) > 0 /\ IsOpen(rows[Len(rows)]) => rows[Len(rows)] \in OpenOf(new)
    <3>1. new = Bounded(rows, most)
      BY <1>4, <1>6 DEF rows, others
    <3> QED
      BY <1>1, <2>4, <3>1, BoundedDraws
  <2>9. /\ Distinct(new) /\ OpenOf(new) \subseteq OpenOf(rows) /\ new \in Seq(Bucket)
        /\ \A n \in DOMAIN new : \E i \in DOMAIN rows : new[n] = rows[i]
    BY <2>6, <2>8, DrawnKeeps DEF Drawn
  <2>10. \A n \in DOMAIN new :
            \/ new[n] = NewBucket(key)
            \/ \E i \in DOMAIN old : new[n].key = old[i].key /\ new[n].resetAt = old[i].resetAt
    <3> SUFFICES ASSUME NEW n \in DOMAIN new, new[n] # NewBucket(key)
                 PROVE  \E i \in DOMAIN old : new[n].key = old[i].key /\ new[n].resetAt = old[i].resetAt
      OBVIOUS
    <3>1. PICK i \in DOMAIN rows : new[n] = rows[i]
      BY <2>9
    <3>2. i \in DOMAIN others /\ new[n] = others[i]
      BY <2>4, <2>5, <3>1
    <3>3. PICK j \in DOMAIN found : new[n] = found[j]
      BY <2>2, <3>2
    <3> QED
      BY <1>3, <3>3
  <2>11. Len(rows) > 0
    BY <2>4
  <2>12. NewBucket(key) \in OpenOf(new) /\ OpenOf(new) \subseteq OpenOf(old) \cup {NewBucket(key)}
    BY <1>2, <2>3, <2>4, <2>7, <2>8, <2>9, <2>11
  <2>13. \A b \in OpenOf(old) : b.key # key
    BY <1>2, <1>5, <1>6
  <2> QED
    BY <2>8, <2>9, <2>10, <2>12, <2>13 DEF old, new, key, most
<1>7. CASE open # {}
  <2>1. new = [i \in DOMAIN found |->
                 IF i \in open /\ Allows(l, c) THEN Counting(found[i]) ELSE found[i]]
    BY <1>4, <1>7
  <2>2. \A i \in DOMAIN found :
          /\ new[i] \in Bucket /\ new[i].key = found[i].key /\ new[i].resetAt = found[i].resetAt
    BY <1>3, <2>1, BucketFields
  <2>3. DOMAIN new = DOMAIN found /\ new \in Seq(Bucket) /\ Len(new) = Len(found)
    <3>1. new \in [1 .. Len(found) -> Bucket]
      BY <1>3, <2>1, <2>2
    <3> QED
      BY <1>3, <3>1, IsASeq, LenProperties
  <2>4. Distinct(new)
    BY <1>2, <2>2, <2>3 DEF Distinct
  <2>5. \A n \in DOMAIN new :
          \E i \in DOMAIN old : new[n].key = old[i].key /\ new[n].resetAt = old[i].resetAt
    BY <1>3, <2>2, <2>3
  <2>6. OpenOf(new) = {new[i] : i \in {j \in DOMAIN found : IsOpen(found[j])}}
    BY <2>2, <2>3 DEF OpenOf, IsOpen
  <2>7. ASSUME ~Allows(l, c) PROVE OpenOf(new) = OpenOf(old)
    <3>1. \A i \in DOMAIN found : new[i] = found[i]
      BY <2>1, <2>7
    <3> QED
      BY <1>2, <2>6, <3>1 DEF OpenOf
  <2>8. ASSUME Allows(l, c), NEW b \in OpenOf(old), b.key = key
        PROVE  OpenOf(new) = (OpenOf(old) \ {b}) \cup {Counting(b)}
    <3>1. PICK i \in DOMAIN found : found[i] = b /\ IsOpen(found[i])
      BY <1>2, <2>8 DEF OpenOf
    <3>2. \A j \in DOMAIN found : j \in open <=> j = i
      BY <1>2, <2>8, <3>1 DEF Distinct
    <3>3. new[i] = Counting(b) /\ \A j \in DOMAIN found : j # i => new[j] = found[j]
      BY <2>1, <2>8, <3>1, <3>2
    <3>4. \A j \in DOMAIN found : j # i => found[j] # b
      BY <1>2, <3>1 DEF Distinct
    <3>5. OpenOf(old) = {found[j] : j \in {k \in DOMAIN found : IsOpen(found[k])}}
      BY <1>2 DEF OpenOf
    <3> HIDE DEF open
    <3> QED
      BY <2>6, <3>1, <3>3, <3>4, <3>5
  <2>9. \E b \in OpenOf(old) : b.key = key
    BY <1>2, <1>5, <1>7
  <2> QED
    BY <1>3, <2>3, <2>4, <2>5, <2>7, <2>8, <2>9 DEF old, new, key, most
<1> QED
  BY <1>6, <1>7

\* Whose key it is can be read off it, and so can the store it is in.
LEMMA KeysApart ==
    ASSUME NEW l \in Limiters, NEW m \in Limiters, NEW c \in Clients, NEW d \in Clients,
           KeyOf(l, c) = KeyOf(m, d)
    PROVE  l = m
<1>1. KeyOf(l, c)[1] = l
  BY DEF KeyOf, Limiters
<1>2. KeyOf(m, d)[1] = m
  BY DEF KeyOf, Limiters
<1> QED
  BY <1>1, <1>2

\* No store is asked twice on the way of a request.
LEMMA RouteStores ==
    ASSUME NEW kind
    PROVE  /\ Route(kind) \in Seq(Limiters) /\ Len(Route(kind)) \in Nat
           /\ DOMAIN Route(kind) = 1 .. Len(Route(kind))
           /\ \A i, j \in DOMAIN Route(kind) : StoreOf(Route(kind)[i]) = StoreOf(Route(kind)[j]) => i = j
<1> DEFINE guard == IF Enabled THEN (IF kind = "signIn" THEN <<"auth">> ELSE <<"public">>) ELSE <<>>
           own == IF kind = "submit" THEN <<"global", "ip", "visitor">> ELSE <<>>
<1>1. Route(kind) = guard \o own
  BY DEF Route
<1>2. /\ guard \in Seq(Limiters) /\ Len(guard) \in {0, 1}
      /\ \A i \in 1 .. Len(guard) : StoreOf(guard[i]) = "shared"
  <2>1. guard = <<>> \/ guard = <<"auth">> \/ guard = <<"public">>
    OBVIOUS
  <2> HIDE DEF guard
  <2>2. CASE guard = <<>>
    BY <2>2
  <2>3. CASE guard = <<"auth">>
    BY <2>3 DEF Limiters, StoreOf
  <2>4. CASE guard = <<"public">>
    BY <2>4 DEF Limiters, StoreOf
  <2> QED
    BY <2>1, <2>2, <2>3, <2>4
<1>3. /\ own \in Seq(Limiters) /\ Len(own) \in {0, 3}
      /\ Len(own) = 3 => own[1] = "global" /\ own[2] = "ip" /\ own[3] = "visitor"
  <2>1. own = <<>> \/ own = <<"global", "ip", "visitor">>
    OBVIOUS
  <2> HIDE DEF own
  <2>2. CASE own = <<>>
    BY <2>2
  <2>3. CASE own = <<"global", "ip", "visitor">>
    BY <2>3 DEF Limiters
  <2> QED
    BY <2>1, <2>2, <2>3
<1> HIDE DEF guard, own
<1>4. \A i \in 1 .. Len(own) : StoreOf(own[i]) # "shared"
  BY <1>3 DEF StoreOf
<1>5. \A i, j \in 1 .. Len(own) : StoreOf(own[i]) = StoreOf(own[j]) => i = j
  BY <1>3 DEF StoreOf
<1> DEFINE route == guard \o own
<1>6. /\ route \in Seq(Limiters) /\ Len(route) = Len(guard) + Len(own)
      /\ \A i \in 1 .. Len(route) :
            route[i] = IF i <= Len(guard) THEN guard[i] ELSE own[i - Len(guard)]
  BY <1>2, <1>3, ConcatProperties
<1> HIDE DEF route
<1>7. Len(route) \in Nat /\ DOMAIN route = 1 .. Len(route)
  BY <1>6, LenProperties
<1>8. \A i, j \in 1 .. Len(route) : StoreOf(route[i]) = StoreOf(route[j]) => i = j
  <2>1. \A i \in 1 .. Len(route) : i <= Len(guard) => i = 1 /\ StoreOf(route[i]) = "shared"
    BY <1>2, <1>6, <1>7
  <2>2. \A i \in 1 .. Len(route) : ~(i <= Len(guard)) =>
           i - Len(guard) \in 1 .. Len(own) /\ route[i] = own[i - Len(guard)]
    BY <1>2, <1>3, <1>6, <1>7
  <2> SUFFICES ASSUME NEW i \in 1 .. Len(route), NEW j \in 1 .. Len(route),
                      StoreOf(route[i]) = StoreOf(route[j])
               PROVE  i = j
    OBVIOUS
  <2>3. CASE i <= Len(guard)
    <3>1. j <= Len(guard)
      BY <2>1, <2>2, <2>3, <1>4
    <3> QED
      BY <2>1, <2>3, <3>1
  <2>4. CASE ~(i <= Len(guard))
    <3>1. ~(j <= Len(guard))
      BY <2>1, <2>2, <2>4, <1>4
    <3>2. i - Len(guard) = j - Len(guard)
      BY <2>2, <2>4, <3>1, <1>5
    <3> QED
      BY <3>2, <1>2, <1>7
  <2> QED
    BY <2>3, <2>4
<1> QED
  BY <1>1, <1>6, <1>7, <1>8 DEF route

\* The limiters that let a request pass, and the one that does not.
Passed(kind, n) == {Route(kind)[i] : i \in 1 .. (n - 1)}
Refused(kind, n) == IF n <= Len(Route(kind)) THEN {Route(kind)[n]} ELSE {}
Evicted(k) == \E s \in Stores : k \in LiveKeys(hits[s]) /\ k \notin LiveKeys(hits'[s])

LEMMA PassMeans ==
    ASSUME NEW c \in Clients, NEW kind, NEW n \in 1 .. Len(Route(kind)) + 1, Pass(c, kind, n)
    PROVE  LET passed == Passed(kind, n)
               refused == Refused(kind, n)
           IN  /\ passed \subseteq Limiters /\ refused \subseteq Limiters
               /\ \A l \in passed : Allows(l, c)
               /\ \A l \in refused : ~Allows(l, c)
               /\ \E swept \in BOOLEAN :
                     \A l \in passed \cup refused : hits'[StoreOf(l)] = Checked(l, c, swept)
               /\ \A s \in Stores :
                     (\A l \in passed \cup refused : StoreOf(l) # s) => hits'[s] = hits[s]
               /\ \E f : hits' = [s \in Stores |-> f[s]]
               /\ spent' = [k \in Keys |->
                     IF \E l \in passed : KeyOf(l, c) = k THEN OneMore(Recent(spent[k]))
                     ELSE IF Evicted(k) THEN {} ELSE spent[k]]
               /\ answer' = NoAnswer \/ \E l \in refused : answer' = [limiter |-> l, client |-> c]
<1> DEFINE route == Route(kind)
           last == IF n > Len(route) THEN Len(route) ELSE n
           asked == {route[i] : i \in 1 .. last}
           passed == Passed(kind, n)
           refused == Refused(kind, n)
<1>1. /\ route \in Seq(Limiters) /\ Len(route) \in Nat /\ DOMAIN route = 1 .. Len(route)
      /\ \A i, j \in DOMAIN route : StoreOf(route[i]) = StoreOf(route[j]) => i = j
      /\ \A i \in DOMAIN route : route[i] \in Limiters
  BY RouteStores, ElementOfSeq
<1>2. /\ \A l \in passed : Allows(l, c)
      /\ n <= Len(route) => ~Allows(route[n], c)
      /\ spent' = [k \in Keys |->
           IF \E l \in passed : KeyOf(l, c) = k THEN OneMore(Recent(spent[k]))
           ELSE IF k \in UNION {LiveKeys(hits[s]) \ LiveKeys(hits'[s]) : s \in Stores}
                THEN {} ELSE spent[k]]
      /\ answer' = IF n > Len(route) THEN NoAnswer ELSE [limiter |-> route[n], client |-> c]
  BY DEF Pass, Passed
<1>3. PICK swept \in BOOLEAN :
        hits' = [s \in Stores |->
           IF \E l \in asked : StoreOf(l) = s
           THEN Checked(CHOOSE l \in asked : StoreOf(l) = s, c, swept) ELSE hits[s]]
  BY DEF Pass
<1>4. n \in Nat /\ last \in 0 .. Len(route) /\ last <= n /\ n - 1 <= last
      /\ (n <= Len(route) => n \in DOMAIN route /\ last = n)
      /\ (~(n <= Len(route)) => last = n - 1)
  <2> DEFINE len == Len(Route(kind))
  <2>1. len \in Nat /\ n \in 1 .. (len + 1) /\ last = (IF n > len THEN len ELSE n)
        /\ DOMAIN route = 1 .. len /\ Len(route) = len
    BY <1>1
  <2> HIDE DEF len, route, last
  <2>2. CASE n <= len
    <3>1. last = n
      BY <2>1, <2>2
    <3> QED
      BY <2>1, <2>2, <3>1
  <2>3. CASE ~(n <= len)
    <3>1. last = len /\ n = len + 1
      BY <2>1, <2>3
    <3> QED
      BY <2>1, <2>3, <3>1
  <2> QED
    BY <2>2, <2>3
<1>5. asked = passed \cup refused
  <2>1. CASE n <= Len(route)
    <3>1. last = n /\ refused = {route[n]} /\ \A i \in 1 .. n : i = n \/ i \in 1 .. (n - 1)
      BY <1>4, <2>1 DEF Refused
    <3>2. n \in 1 .. n /\ \A i \in 1 .. (n - 1) : i \in 1 .. n
      BY <1>4, <2>1
    <3> QED
      BY <3>1, <3>2 DEF Passed
  <2>2. CASE ~(n <= Len(route))
    <3>1. last = n - 1 /\ refused = {}
      BY <1>4, <2>2 DEF Refused
    <3> QED
      BY <3>1 DEF Passed
  <2> QED
    BY <2>1, <2>2
<1>6. asked \subseteq Limiters /\ \A l, m \in asked : StoreOf(l) = StoreOf(m) => l = m
  BY <1>1, <1>4
<1>7. \A l \in asked : StoreOf(l) \in Stores
  BY <1>6 DEF StoreOf, Stores, Limiters
<1> HIDE DEF asked, last
<1>8. \A l \in asked : hits'[StoreOf(l)] = Checked(l, c, swept)
  <2> SUFFICES ASSUME NEW l \in asked PROVE hits'[StoreOf(l)] = Checked(l, c, swept)
    OBVIOUS
  <2>1. (CHOOSE m \in asked : StoreOf(m) = StoreOf(l)) = l
    BY <1>6
  <2>2. hits'[StoreOf(l)] = Checked(CHOOSE m \in asked : StoreOf(m) = StoreOf(l), c, swept)
    BY <1>3, <1>7
  <2> QED
    BY <2>1, <2>2
<1>9. \A s \in Stores : (\A l \in asked : StoreOf(l) # s) => hits'[s] = hits[s]
  BY <1>3
<1>10. \E f : hits' = [s \in Stores |-> f[s]]
  <2>1. hits' = [s \in Stores |-> hits'[s]]
    BY <1>3
  <2> QED
    BY <2>1
<1>11. \A k : k \in UNION {LiveKeys(hits[s]) \ LiveKeys(hits'[s]) : s \in Stores} <=> Evicted(k)
  BY DEF Evicted
<1>12. spent' = [k \in Keys |->
           IF \E l \in passed : KeyOf(l, c) = k THEN OneMore(Recent(spent[k]))
           ELSE IF Evicted(k) THEN {} ELSE spent[k]]
  BY <1>2, <1>11
<1>13. \A l \in refused : ~Allows(l, c)
  BY <1>2 DEF Refused
<1>14. answer' = NoAnswer \/ \E l \in refused : answer' = [limiter |-> l, client |-> c]
  BY <1>1, <1>2, <1>4 DEF Refused
<1> HIDE DEF passed, refused
<1> QED
  BY <1>2, <1>5, <1>6, <1>8, <1>9, <1>10, <1>12, <1>13, <1>14 DEF passed, refused

-----------------------------------------------------------------------------
(* Rate limits: the times a key was allowed and the bucket that counts them.    *)

\* Times of the past, finitely many, those of this instant numbered without a
\* gap, so that one more is a new one.
Numbered(times) ==
    /\ times \subseteq [at : Nat, nth : Nat] /\ IsFiniteSet(times)
    /\ \A time \in times : time.at <= clock
    /\ \A time \in times : time.at = clock =>
          time.nth <= Cardinality({other \in times : other.at = clock})

Since(bucket, times) == {time \in times : time.at + Window >= bucket.resetAt}

\* What the open bucket of a key counts are the times since it was opened, and
\* those of the window before it fit a budget of their own.
Budget(l, opens, times) ==
    /\ opens = {} => /\ Cardinality(Recent(times)) <= Limit[l]
                     /\ \A time \in times : time.at < clock
    /\ \A bucket \in opens :
         /\ bucket.count = Cardinality(Since(bucket, times)) /\ bucket.count <= Limit[l]
         /\ Cardinality(Recent(times) \ Since(bucket, times)) <= Limit[l]

Own(l, c, buckets) == {bucket \in OpenOf(buckets) : bucket.key = KeyOf(l, c)}

StoresInv ==
    \A s \in Stores :
      /\ Len(hits[s]) <= Capacity[s] /\ Distinct(hits[s])
      /\ \A i \in DOMAIN hits[s] :
           /\ \E l \in Limiters, c \in Clients : StoreOf(l) = s /\ hits[s][i].key = KeyOf(l, c)
           /\ hits[s][i].resetAt <= clock + Window

SpentInv == \A k \in Keys : Numbered(spent[k])

BudgetInv ==
    \A l \in Limiters, c \in Clients : Budget(l, Own(l, c, hits[StoreOf(l)]), spent[KeyOf(l, c)])

AnswerInv ==
    answer # NoAnswer =>
      /\ answer.limiter \in Limiters /\ answer.client \in Clients
      /\ Cardinality(Recent(spent[KeyOf(answer.limiter, answer.client)])) >= Limit[answer.limiter]

LimitsInv == LimitsTypeOK /\ StoresInv /\ SpentInv /\ BudgetInv /\ AnswerInv

\* One more time is counted once.
LEMMA OneMoreIsNew ==
    ASSUME NEW times, Numbered(times), clock \in Nat
    PROVE  /\ Numbered(OneMore(Recent(times)))
           /\ \E time : /\ time.at = clock /\ time \notin Recent(times)
                        /\ OneMore(Recent(times)) = Recent(times) \cup {time}
<1> USE RateLimitsAssumption
<1> DEFINE recent == Recent(times)
           now == {time \in recent : time.at = clock}
           time0 == [at |-> clock, nth |-> Cardinality(now) + 1]
           after == recent \cup {time0}
<1>1. /\ recent \subseteq times /\ IsFiniteSet(recent) /\ recent \subseteq [at : Nat, nth : Nat]
      /\ \A time \in recent : time.at <= clock
  <2>1. recent \in SUBSET times
    BY DEF Recent
  <2> QED
    BY <2>1, FS_Subset DEF Numbered
<1>2. IsFiniteSet(now) /\ Cardinality(now) \in Nat
  BY <1>1, FS_Subset, FS_CardinalityType
<1>3. now = {time \in times : time.at = clock}
  BY DEF Recent
<1>4. \A time \in recent : time.at = clock => time.nth <= Cardinality(now)
  BY <1>1, <1>3 DEF Numbered
<1>5. time0 \in [at : Nat, nth : Nat] /\ time0.at = clock /\ time0.nth = Cardinality(now) + 1
  BY <1>2
<1>6. OneMore(recent) = after
  BY DEF OneMore
<1> HIDE DEF time0
<1>7. time0 \notin recent
  BY <1>1, <1>2, <1>4, <1>5
<1>8. /\ IsFiniteSet(now \cup {time0}) /\ Cardinality(now \cup {time0}) = Cardinality(now) + 1
      /\ {time \in after : time.at = clock} = now \cup {time0}
  <2>1. time0 \notin now
    BY <1>7
  <2>2. {time \in after : time.at = clock} = now \cup {time0}
    BY <1>5
  <2> HIDE DEF now
  <2> QED
    BY <1>2, <2>1, <2>2, FS_AddElement
<1>9. IsFiniteSet(after)
  BY <1>1, FS_AddElement
<1>10. Numbered(after)
  <2>1. \A time \in after : time.at = clock => time.nth <= Cardinality(now) + 1
    <3>1. \A time \in recent : time.nth \in Nat
      BY <1>1
    <3> QED
      BY <1>2, <1>4, <1>5, <3>1
  <2>2. \A time \in after : time.at <= clock
    BY <1>1, <1>5
  <2>3. after \subseteq [at : Nat, nth : Nat]
    BY <1>1, <1>5
  <2> HIDE DEF after, now
  <2> QED
    BY <1>8, <1>9, <2>1, <2>2, <2>3 DEF Numbered
<1> QED
  BY <1>5, <1>6, <1>7, <1>10

\* A request that the open bucket allows is counted in it.
LEMMA CountedBudget ==
    ASSUME NEW l \in Limiters, NEW b \in Bucket, NEW times, Numbered(times), clock \in Nat,
           IsOpen(b), b.resetAt <= clock + Window, b.count < Limit[l], Budget(l, {b}, times)
    PROVE  Budget(l, {Counting(b)}, OneMore(Recent(times)))
<1> USE RateLimitsAssumption
<1> DEFINE recent == Recent(times)
           after == OneMore(recent)
<1>1. PICK time : time.at = clock /\ time \notin recent /\ after = recent \cup {time}
  BY OneMoreIsNew
<1>2. /\ \A one \in times : one.at \in Nat /\ one.at <= clock
      /\ IsFiniteSet(times) /\ recent \in SUBSET times
  BY DEF Numbered, Recent
<1>3. /\ Counting(b).resetAt = b.resetAt /\ Counting(b).count = b.count + 1
      /\ b.count \in Nat /\ b.resetAt \in Nat /\ b.resetAt > clock
  BY BucketFields DEF IsOpen
<1>4. Since(b, times) \subseteq recent
  BY <1>2, <1>3 DEF Since, Recent
<1>5. Since(Counting(b), after) = Since(b, times) \cup {time}
  BY <1>1, <1>2, <1>3, <1>4 DEF Since
<1>6. Recent(after) = recent \cup {time}
  BY <1>1 DEF Recent
<1>7. Recent(after) \ Since(Counting(b), after) = recent \ Since(b, times)
  BY <1>1, <1>5, <1>6
<1>8. Cardinality(Since(Counting(b), after)) = Cardinality(Since(b, times)) + 1
  <2>1. IsFiniteSet(Since(b, times))
    BY <1>2, FS_Subset DEF Since
  <2>2. time \notin Since(b, times)
    BY <1>1, <1>4
  <2> QED
    BY <1>5, <2>1, <2>2, FS_AddElement
<1>9. /\ b.count = Cardinality(Since(b, times))
      /\ Cardinality(recent \ Since(b, times)) <= Limit[l]
  BY DEF Budget
<1>10. Limit[l] \in Nat
  OBVIOUS
<1> HIDE DEF recent, after
<1>11. /\ Counting(b).count = Cardinality(Since(Counting(b), after))
       /\ Counting(b).count <= Limit[l]
       /\ Cardinality(Recent(after) \ Since(Counting(b), after)) <= Limit[l]
  <2>1. Counting(b).count = Cardinality(Since(Counting(b), after))
    BY <1>3, <1>8, <1>9
  <2>2. Counting(b).count <= Limit[l]
    BY <1>3, <1>10
  <2>3. Cardinality(Recent(after) \ Since(Counting(b), after)) <= Limit[l]
    BY <1>7, <1>9
  <2> QED
    BY <2>1, <2>2, <2>3
<1> QED
  BY <1>11 DEF Budget, recent, after

\* A request that opens a bucket is the first one in it.
LEMMA OpenedBudget ==
    ASSUME NEW l \in Limiters, NEW key \in Keys, NEW times, Numbered(times), clock \in Nat,
           Budget(l, {}, times)
    PROVE  Budget(l, {NewBucket(key)}, OneMore(Recent(times)))
<1> USE RateLimitsAssumption
<1> DEFINE recent == Recent(times)
           after == OneMore(recent)
<1>1. PICK time : time.at = clock /\ time \notin recent /\ after = recent \cup {time}
  BY OneMoreIsNew
<1>2. \A one \in recent : one.at \in Nat /\ one.at < clock
  BY DEF Numbered, Recent, Budget
<1>3. Cardinality(recent) <= Limit[l]
  BY DEF Budget
<1>4. NewBucket(key).count = 1 /\ NewBucket(key).resetAt = clock + Window
  BY FreshBucket
<1>5. Since(NewBucket(key), after) = {time}
  BY <1>1, <1>2, <1>4 DEF Since
<1>6. Recent(after) = recent \cup {time}
  BY <1>1 DEF Recent
<1>7. Recent(after) \ Since(NewBucket(key), after) = recent
  BY <1>1, <1>5, <1>6
<1>8. Cardinality({time}) = 1 /\ Limit[l] \in Nat \ {0}
  BY FS_Singleton
<1> HIDE DEF recent, after
<1>9. /\ NewBucket(key).count = Cardinality(Since(NewBucket(key), after)) /\ NewBucket(key).count <= Limit[l]
      /\ Cardinality(Recent(after) \ Since(NewBucket(key), after)) <= Limit[l]
  <2>1. NewBucket(key).count = Cardinality(Since(NewBucket(key), after))
    BY <1>4, <1>5, <1>8
  <2>2. NewBucket(key).count <= Limit[l]
    BY <1>4, <1>8
  <2>3. Cardinality(Recent(after) \ Since(NewBucket(key), after)) <= Limit[l]
    BY <1>3, <1>7
  <2> QED
    BY <2>1, <2>2, <2>3
<1> QED
  BY <1>9 DEF Budget, recent, after

\* Two budgets in any window.
LEMMA TwoBudgets ==
    ASSUME NEW l \in Limiters, NEW opens, NEW times, Numbered(times), clock \in Nat,
           Budget(l, opens, times), \A b \in opens : b \in Bucket /\ IsOpen(b)
    PROVE  /\ Cardinality(Recent(times)) <= 2 * Limit[l]
           /\ \A b \in opens : b.count <= Cardinality(Recent(times))
<1> USE RateLimitsAssumption
<1>1. Limit[l] \in Nat
  OBVIOUS
<1>2. IsFiniteSet(Recent(times)) /\ Cardinality(Recent(times)) \in Nat
  BY FS_Subset, FS_CardinalityType DEF Numbered, Recent
<1>3. ASSUME NEW b \in opens
      PROVE  Cardinality(Recent(times)) <= 2 * Limit[l] /\ b.count <= Cardinality(Recent(times))
  <2> DEFINE recent == Recent(times)
             since == Since(b, times)
  <2>1. since \in SUBSET recent /\ recent \cap since = since
    BY BucketFields DEF Since, Recent, IsOpen, Numbered
  <2>2. /\ b.count = Cardinality(since) /\ b.count <= Limit[l]
        /\ Cardinality(recent \ since) <= Limit[l]
    BY DEF Budget
  <2> HIDE DEF recent, since
  <2>3. IsFiniteSet(recent) /\ Cardinality(recent) \in Nat
    BY <1>2 DEF recent
  <2>4. Cardinality(since) <= Cardinality(recent) /\ IsFiniteSet(since)
    BY <2>1, <2>3, FS_Subset
  <2>5. Cardinality(recent \ since) = Cardinality(recent) - Cardinality(since)
    BY <2>1, <2>3, FS_Difference
  <2>6. Cardinality(since) \in Nat
    BY <2>4, FS_CardinalityType
  <2> QED
    BY <1>1, <2>2, <2>3, <2>4, <2>5, <2>6 DEF recent
<1>4. CASE opens = {}
  BY <1>1, <1>2, <1>4 DEF Budget
<1> QED
  BY <1>3, <1>4

LEMMA KeysOfStores ==
    ASSUME LimitsTypeOK, StoresInv, NEW s \in Stores, NEW b \in OpenOf(hits[s])
    PROVE  /\ b \in Bucket /\ IsOpen(b) /\ b.resetAt <= clock + Window
           /\ \A l \in Limiters, c \in Clients : b.key = KeyOf(l, c) => s = StoreOf(l)
           /\ \A d \in OpenOf(hits[s]) : d.key = b.key => d = b
<1>1. PICK i \in DOMAIN hits[s] : b = hits[s][i] /\ IsOpen(b)
  BY DEF OpenOf
<1>2. hits[s] \in Seq(Bucket) /\ Distinct(hits[s]) /\ b \in Bucket
  BY <1>1, ElementOfSeq, LenProperties DEF LimitsTypeOK, StoresInv
<1>3. PICK m \in Limiters, v \in Clients : StoreOf(m) = s /\ b.key = KeyOf(m, v)
  BY <1>1 DEF StoresInv
<1>4. \A l \in Limiters, c \in Clients : b.key = KeyOf(l, c) => s = StoreOf(l)
  BY <1>3, KeysApart
<1>5. \A d \in OpenOf(hits[s]) : d.key = b.key => d = b
  BY <1>1, <1>2 DEF OpenOf, Distinct
<1>6. b.resetAt <= clock + Window
  BY <1>1 DEF StoresInv
<1> QED
  BY <1>1, <1>2, <1>4, <1>5, <1>6

LEMMA AllowsOpen ==
    ASSUME NEW l \in Limiters, NEW c \in Clients
    PROVE  Allows(l, c) <=> \A b \in Own(l, c, hits[StoreOf(l)]) : b.count < Limit[l]
BY DEF Allows, Own, OpenOf

\* A step that leaves the clock alone keeps the invariant if the stores and the
\* times of the keys fit each other as they are now.
LEMMA ClockStays ==
    ASSUME UNCHANGED clock, hits' \in [Stores -> Seq(Bucket)],
           \A s \in Stores :
             /\ Len(hits'[s]) <= Capacity[s] /\ Distinct(hits'[s])
             /\ \A i \in DOMAIN hits'[s] :
                  /\ \E l \in Limiters, c \in Clients : StoreOf(l) = s /\ hits'[s][i].key = KeyOf(l, c)
                  /\ hits'[s][i].resetAt <= clock + Window,
           \A k \in Keys : Numbered(spent'[k]),
           \A l \in Limiters, c \in Clients :
             Budget(l, Own(l, c, hits'[StoreOf(l)]), spent'[KeyOf(l, c)]),
           answer' # NoAnswer =>
             /\ answer'.limiter \in Limiters /\ answer'.client \in Clients
             /\ Cardinality(Recent(spent'[KeyOf(answer'.limiter, answer'.client)])) >= Limit[answer'.limiter]
    PROVE  StoresInv' /\ SpentInv' /\ BudgetInv' /\ AnswerInv'
<1>1. StoresInv'
  BY DEF StoresInv, Distinct
<1>2. SpentInv'
  BY DEF SpentInv, Numbered
<1>3. BudgetInv'
  <2> SUFFICES ASSUME NEW l \in Limiters, NEW c \in Clients
               PROVE  Budget(l, Own(l, c, hits[StoreOf(l)]), spent[KeyOf(l, c)])'
    BY DEF BudgetInv
  <2>1. Own(l, c, hits[StoreOf(l)])' = Own(l, c, hits'[StoreOf(l)])
    BY DEF Own, OpenOf, IsOpen
  <2>2. Recent(spent[KeyOf(l, c)])' = Recent(spent'[KeyOf(l, c)])
    BY DEF Recent
  <2>3. Budget(l, Own(l, c, hits'[StoreOf(l)]), spent'[KeyOf(l, c)])
    OBVIOUS
  <2> QED
    BY <2>1, <2>2, <2>3 DEF Budget, Since
<1>4. AnswerInv'
  BY DEF AnswerInv, Recent, NoAnswer
<1> QED
  BY <1>1, <1>2, <1>3, <1>4

LEMMA PassKeeps ==
    ASSUME LimitsInv, NEW c \in Clients, NEW kind \in Kinds, NEW n \in 1 .. Len(Route(kind)) + 1,
           Pass(c, kind, n), UNCHANGED clock
    PROVE  /\ hits' \in [Stores -> Seq(Bucket)] /\ spent' \in [Keys -> SUBSET [at : Nat, nth : Nat]]
           /\ StoresInv' /\ SpentInv' /\ BudgetInv' /\ AnswerInv'
<1> USE RateLimitsAssumption
<1> DEFINE passed == Passed(kind, n)
           refused == Refused(kind, n)
<1>1. /\ passed \subseteq Limiters /\ refused \subseteq Limiters
      /\ \A l \in passed : Allows(l, c)
      /\ \A l \in refused : ~Allows(l, c)
      /\ \E swept \in BOOLEAN :
            \A l \in passed \cup refused : hits'[StoreOf(l)] = Checked(l, c, swept)
      /\ \A s \in Stores :
            (\A l \in passed \cup refused : StoreOf(l) # s) => hits'[s] = hits[s]
      /\ \E f : hits' = [s \in Stores |-> f[s]]
      /\ spent' = [k \in Keys |->
            IF \E l \in passed : KeyOf(l, c) = k THEN OneMore(Recent(spent[k]))
            ELSE IF Evicted(k) THEN {} ELSE spent[k]]
      /\ answer' = NoAnswer \/ \E l \in refused : answer' = [limiter |-> l, client |-> c]
  BY PassMeans
<1>2. PICK swept \in BOOLEAN :
        \A l \in passed \cup refused : hits'[StoreOf(l)] = Checked(l, c, swept)
  BY <1>1
<1> HIDE DEF passed, refused
<1>3. /\ hits \in [Stores -> Seq(Bucket)] /\ clock \in Nat
      /\ \A k \in Keys : Numbered(spent[k])
      /\ \A l \in Limiters, d \in Clients : StoreOf(l) \in Stores /\ KeyOf(l, d) \in Keys
  <2>1. \A l \in Limiters : StoreOf(l) \in Stores
    BY DEF StoreOf, Stores, Limiters
  <2>2. hits \in [Stores -> Seq(Bucket)] /\ clock \in 0 .. MaxClock
    BY DEF LimitsInv, LimitsTypeOK
  <2>3. \A k \in Keys : Numbered(spent[k])
    BY DEF LimitsInv, SpentInv
  <2>4. \A l \in Limiters, d \in Clients : KeyOf(l, d) \in Keys
    BY DEF Keys
  <2> QED
    BY <2>1, <2>2, <2>3, <2>4
<1>4. ASSUME NEW l \in passed \cup refused
      PROVE  LET s == StoreOf(l)
                 old == hits[s]
                 new == hits'[s]
                 key == KeyOf(l, c)
             IN  /\ new \in Seq(Bucket) /\ Len(new) <= Capacity[s] /\ Distinct(new)
                 /\ \A i \in DOMAIN new :
                       \/ new[i] = NewBucket(key)
                       \/ \E j \in DOMAIN old : new[i].key = old[j].key /\ new[i].resetAt = old[j].resetAt
                 /\ \A b \in OpenOf(old) : b.key = key /\ Allows(l, c) =>
                       OpenOf(new) = (OpenOf(old) \ {b}) \cup {Counting(b)}
                 /\ (\E b \in OpenOf(old) : b.key = key) /\ ~Allows(l, c) => OpenOf(new) = OpenOf(old)
                 /\ (\A b \in OpenOf(old) : b.key # key) =>
                       NewBucket(key) \in OpenOf(new) /\ OpenOf(new) \subseteq OpenOf(old) \cup {NewBucket(key)}
  <2>1. l \in Limiters /\ hits'[StoreOf(l)] = Checked(l, c, swept)
    BY <1>1, <1>2
  <2>2. Distinct(hits[StoreOf(l)]) /\ Len(hits[StoreOf(l)]) <= Capacity[StoreOf(l)]
    BY <1>3, <2>1 DEF LimitsInv, StoresInv
  <2> QED
    BY <1>3, <2>1, <2>2, CheckLeaves
<1>5. ASSUME NEW s \in Stores
      PROVE  /\ hits'[s] \in Seq(Bucket) /\ Len(hits'[s]) <= Capacity[s] /\ Distinct(hits'[s])
             /\ \A i \in DOMAIN hits'[s] :
                  /\ \E l \in Limiters, d \in Clients : StoreOf(l) = s /\ hits'[s][i].key = KeyOf(l, d)
                  /\ hits'[s][i].resetAt <= clock + Window
  <2>1. /\ Len(hits[s]) <= Capacity[s] /\ Distinct(hits[s])
        /\ \A i \in DOMAIN hits[s] :
             /\ \E l \in Limiters, d \in Clients : StoreOf(l) = s /\ hits[s][i].key = KeyOf(l, d)
             /\ hits[s][i].resetAt <= clock + Window
    BY DEF LimitsInv, StoresInv
  <2>2. CASE \A l \in passed \cup refused : StoreOf(l) # s
    <3>1. hits'[s] = hits[s]
      BY <1>1, <2>2
    <3> QED
      BY <1>3, <2>1, <3>1
  <2>3. ASSUME NEW l \in passed \cup refused, StoreOf(l) = s
        PROVE  /\ hits'[s] \in Seq(Bucket) /\ Len(hits'[s]) <= Capacity[s] /\ Distinct(hits'[s])
               /\ \A i \in DOMAIN hits'[s] :
                    /\ \E m \in Limiters, d \in Clients : StoreOf(m) = s /\ hits'[s][i].key = KeyOf(m, d)
                    /\ hits'[s][i].resetAt <= clock + Window
    <3>1. l \in Limiters /\ KeyOf(l, c) \in Keys
      BY <1>1, <1>3
    <3>2. /\ NewBucket(KeyOf(l, c)).key = KeyOf(l, c) /\ NewBucket(KeyOf(l, c)).resetAt = clock + Window
          /\ clock + Window <= clock + Window
      BY <1>3, <3>1, FreshBucket
    <3>3. /\ hits'[s] \in Seq(Bucket) /\ Len(hits'[s]) <= Capacity[s] /\ Distinct(hits'[s])
          /\ \A i \in DOMAIN hits'[s] :
               \/ hits'[s][i] = NewBucket(KeyOf(l, c))
               \/ \E j \in DOMAIN hits[s] :
                     hits'[s][i].key = hits[s][j].key /\ hits'[s][i].resetAt = hits[s][j].resetAt
      <4>1. /\ hits'[StoreOf(l)] \in Seq(Bucket) /\ Len(hits'[StoreOf(l)]) <= Capacity[StoreOf(l)]
            /\ Distinct(hits'[StoreOf(l)])
            /\ \A i \in DOMAIN hits'[StoreOf(l)] :
                 \/ hits'[StoreOf(l)][i] = NewBucket(KeyOf(l, c))
                 \/ \E j \in DOMAIN hits[StoreOf(l)] :
                       /\ hits'[StoreOf(l)][i].key = hits[StoreOf(l)][j].key
                       /\ hits'[StoreOf(l)][i].resetAt = hits[StoreOf(l)][j].resetAt
        BY <1>4, <2>3
      <4> QED
        BY <2>3, <4>1
    <3>4. ASSUME NEW i \in DOMAIN hits'[s]
          PROVE  /\ \E m \in Limiters, d \in Clients : StoreOf(m) = s /\ hits'[s][i].key = KeyOf(m, d)
                 /\ hits'[s][i].resetAt <= clock + Window
      <4>1. CASE hits'[s][i] = NewBucket(KeyOf(l, c))
        BY <2>3, <3>1, <3>2, <4>1
      <4>2. CASE \E j \in DOMAIN hits[s] :
                   hits'[s][i].key = hits[s][j].key /\ hits'[s][i].resetAt = hits[s][j].resetAt
        BY <2>1, <4>2
      <4> QED
        BY <3>3, <4>1, <4>2
    <3> QED
      BY <3>3, <3>4
  <2> QED
    BY <2>2, <2>3
<1>6. \A k \in Keys : Numbered(spent'[k])
  <2>1. Numbered({})
    BY FS_EmptySet DEF Numbered
  <2>2. \A k \in Keys : Numbered(OneMore(Recent(spent[k])))
    BY <1>3, OneMoreIsNew
  <2> QED
    BY <1>1, <1>3, <2>1, <2>2
<1>7. ASSUME NEW l \in Limiters, NEW d \in Clients
      PROVE  Budget(l, Own(l, d, hits'[StoreOf(l)]), spent'[KeyOf(l, d)])
  <2> DEFINE k == KeyOf(l, d)
             s == StoreOf(l)
             old == hits[s]
             new == hits'[s]
             times == spent[k]
  <2>1. /\ k \in Keys /\ s \in Stores /\ Numbered(times) /\ Budget(l, Own(l, d, old), times)
        /\ Limit[l] \in Nat
    BY <1>3 DEF LimitsInv, BudgetInv
  <2>2. \A b \in OpenOf(old) :
          /\ b \in Bucket /\ IsOpen(b) /\ b.resetAt <= clock + Window
          /\ \A other \in OpenOf(old) : other.key = b.key => other = b
    BY <2>1, KeysOfStores DEF LimitsInv
  <2>3. CASE \E m \in passed : KeyOf(m, c) = k
    <3>1. l \in passed /\ KeyOf(l, c) = k
      BY <1>1, <2>3, KeysApart
    <3>2. spent'[k] = OneMore(Recent(times)) /\ Allows(l, c)
      BY <1>1, <2>1, <2>3, <3>1
    <3>3. CASE \E b \in OpenOf(old) : b.key = k
      <4>1. PICK b \in OpenOf(old) : b.key = k
        BY <3>3
      <4>2. OpenOf(new) = (OpenOf(old) \ {b}) \cup {Counting(b)}
        BY <1>4, <3>1, <3>2, <4>1
      <4>3. Own(l, d, old) = {b} /\ b \in Bucket /\ Counting(b).key = k
        BY <2>2, <4>1, BucketFields DEF Own
      <4>4. Own(l, d, new) = {Counting(b)}
        BY <2>2, <4>1, <4>2, <4>3 DEF Own
      <4>5. b.count < Limit[l]
        BY <3>1, <3>2, <4>1, AllowsOpen DEF Own
      <4>6. Budget(l, {Counting(b)}, OneMore(Recent(times)))
        BY <1>3, <2>1, <2>2, <4>1, <4>3, <4>5, CountedBudget
      <4> QED
        BY <3>2, <4>4, <4>6
    <3>4. CASE \A b \in OpenOf(old) : b.key # k
      <4>1. NewBucket(k) \in OpenOf(new) /\ OpenOf(new) \subseteq OpenOf(old) \cup {NewBucket(k)}
        BY <1>4, <3>1, <3>4
      <4>2. Own(l, d, old) = {} /\ NewBucket(k).key = k
        BY <1>3, <2>1, <3>4, FreshBucket DEF Own
      <4>3. Own(l, d, new) = {NewBucket(k)}
        BY <3>4, <4>1, <4>2 DEF Own
      <4>4. Budget(l, {NewBucket(k)}, OneMore(Recent(times)))
        BY <1>3, <2>1, <4>2, OpenedBudget
      <4> QED
        BY <3>2, <4>3, <4>4
    <3> QED
      BY <3>3, <3>4
  <2>4. CASE ~(\E m \in passed : KeyOf(m, c) = k) /\ Evicted(k)
    <3>1. spent'[k] = {}
      BY <1>1, <2>1, <2>4
    <3>2. PICK t \in Stores : k \in LiveKeys(hits[t]) /\ k \notin LiveKeys(hits'[t])
      BY <2>4 DEF Evicted
    <3>3. PICK b \in OpenOf(hits[t]) : b.key = k
      BY <3>2 DEF LiveKeys, OpenOf
    <3>4. t = s
      BY <3>3, KeysOfStores DEF LimitsInv
    <3>5. Own(l, d, new) = {}
      BY <3>2, <3>4 DEF Own, LiveKeys, OpenOf
    <3>6. Recent({}) = {} /\ Cardinality({}) = 0
      BY FS_EmptySet DEF Recent
    <3>7. Budget(l, {}, {})
      <4>0. Limit[l] \in Nat
        BY <2>1
      <4>1. Cardinality(Recent({})) <= Limit[l]
        <5>1. 0 <= Limit[l]
          BY <4>0
        <5>2. Cardinality(Recent({})) = 0
          BY <3>6
        <5> QED
          BY <5>1, <5>2
      <4> HIDE DEF k, s, old, new, times
      <4> QED
        BY <4>1 DEF Budget
    <3> QED
      BY <3>1, <3>5, <3>7
  <2>5. CASE ~(\E m \in passed : KeyOf(m, c) = k) /\ ~Evicted(k)
    <3>1. spent'[k] = times
      BY <1>1, <2>1, <2>5
    <3>2. Own(l, d, new) \subseteq Own(l, d, old)
      <4> SUFFICES ASSUME NEW b \in OpenOf(new), b.key = k PROVE b \in OpenOf(old)
        BY DEF Own
      <4>1. CASE \A m \in passed \cup refused : StoreOf(m) # s
        BY <1>1, <2>1, <4>1
      <4>2. ASSUME NEW m \in passed \cup refused, StoreOf(m) = s PROVE b \in OpenOf(old)
        <5>1. m \in Limiters /\ KeyOf(m, c) \in Keys
          BY <1>1, <1>3
        <5>2. CASE KeyOf(m, c) = k
          <6>1. m \in refused /\ ~Allows(m, c)
            BY <1>1, <2>5, <5>2
          <6>2. \E a \in OpenOf(old) : a.key = KeyOf(m, c)
            BY <4>2, <5>1, <6>1, AllowsOpen DEF Own
          <6>3. OpenOf(new) = OpenOf(old)
            BY <1>4, <4>2, <6>1, <6>2
          <6> QED
            BY <6>3
        <5>3. CASE KeyOf(m, c) # k
          <6>1. CASE \E a \in OpenOf(old) : a.key = KeyOf(m, c)
            <7>1. PICK a \in OpenOf(old) : a.key = KeyOf(m, c)
              BY <6>1
            <7>2. Counting(a).key # k
              BY <2>2, <5>3, <7>1, BucketFields
            <7>3. OpenOf(new) = (OpenOf(old) \ {a}) \cup {Counting(a)} \/ OpenOf(new) = OpenOf(old)
              <8>1. CASE Allows(m, c)
                <9>1. a \in OpenOf(hits[StoreOf(m)])
                  BY <4>2
                <9>2. OpenOf(hits'[StoreOf(m)])
                        = (OpenOf(hits[StoreOf(m)]) \ {a}) \cup {Counting(a)}
                  BY <1>4, <7>1, <8>1, <9>1
                <9> QED
                  BY <4>2, <9>2
              <8>2. CASE ~Allows(m, c)
                BY <1>4, <4>2, <7>1, <8>2
              <8> QED
                BY <8>1, <8>2
            <7> QED
              BY <7>2, <7>3
          <6>2. CASE \A a \in OpenOf(old) : a.key # KeyOf(m, c)
            <7>1. OpenOf(new) \subseteq OpenOf(old) \cup {NewBucket(KeyOf(m, c))}
              BY <1>4, <4>2, <6>2
            <7>2. NewBucket(KeyOf(m, c)).key # k
              BY <1>3, <5>1, <5>3, FreshBucket
            <7> QED
              BY <7>1, <7>2
          <6> QED
            BY <6>1, <6>2
        <5> QED
          BY <5>2, <5>3
      <4> QED
        BY <4>1, <4>2
    <3>3. Own(l, d, new) = {} => Own(l, d, old) = {}
      <4>1. k \in LiveKeys(hits[s]) => k \in LiveKeys(hits'[s])
        BY <2>1, <2>5 DEF Evicted
      <4> QED
        BY <4>1 DEF Own, LiveKeys, OpenOf
    <3> HIDE DEF k, s, old, new, times
    <3>4. Budget(l, Own(l, d, new), times)
      BY <2>1, <3>2, <3>3 DEF Budget
    <3> QED
      BY <3>1, <3>4 DEF k, s, new
  <2> QED
    BY <2>3, <2>4, <2>5
<1>8. ASSUME answer' # NoAnswer
      PROVE  /\ answer'.limiter \in Limiters /\ answer'.client \in Clients
             /\ Cardinality(Recent(spent'[KeyOf(answer'.limiter, answer'.client)])) >= Limit[answer'.limiter]
  <2>1. PICK l \in refused : answer' = [limiter |-> l, client |-> c]
    BY <1>1, <1>8
  <2> DEFINE k == KeyOf(l, c)
             s == StoreOf(l)
  <2>2. l \in Limiters /\ ~Allows(l, c) /\ k \in Keys /\ s \in Stores
    BY <1>1, <1>3
  <2>3. PICK b \in Own(l, c, hits[s]) : ~(b.count < Limit[l])
    BY <2>2, AllowsOpen
  <2>4. b \in OpenOf(hits[s]) /\ b.key = k
    BY <2>3 DEF Own
  <2>5. OpenOf(hits'[s]) = OpenOf(hits[s])
    BY <1>4, <2>2, <2>4
  <2>6. ~Evicted(k)
    <3> SUFFICES ASSUME NEW t \in Stores, k \in LiveKeys(hits[t]) PROVE k \in LiveKeys(hits'[t])
      BY DEF Evicted
    <3>1. PICK a \in OpenOf(hits[t]) : a.key = k
      BY DEF LiveKeys, OpenOf
    <3>2. t = s
      BY <2>2, <3>1, KeysOfStores DEF LimitsInv
    <3> QED
      BY <2>4, <2>5, <3>2 DEF LiveKeys, OpenOf
  <2>7. ~(\E m \in passed : KeyOf(m, c) = k)
    BY <1>1, <2>2, KeysApart
  <2>8. spent'[k] = spent[k]
    BY <1>1, <2>2, <2>6, <2>7
  <2>9. b.count <= Cardinality(Recent(spent[k])) /\ b.count \in Nat /\ Limit[l] \in Nat
        /\ Cardinality(Recent(spent[k])) \in Nat
    <3>1. Numbered(spent[k]) /\ Budget(l, Own(l, c, hits[s]), spent[k])
      BY <1>3, <2>2 DEF LimitsInv, BudgetInv
    <3>2. \A a \in Own(l, c, hits[s]) : a \in Bucket /\ IsOpen(a)
      BY <2>2, KeysOfStores DEF LimitsInv, Own
    <3>3. b.count <= Cardinality(Recent(spent[k]))
      BY <1>3, <2>2, <2>3, <3>1, <3>2, TwoBudgets
    <3>4. IsFiniteSet(Recent(spent[k]))
      BY <3>1, FS_Subset DEF Numbered, Recent
    <3> QED
      BY <2>2, <2>3, <3>2, <3>3, <3>4, FS_CardinalityType, BucketFields
  <2>10. Cardinality(Recent(spent'[k])) >= Limit[l]
    BY <2>3, <2>8, <2>9
  <2> QED
    BY <2>1, <2>2, <2>10
<1>9. hits' \in [Stores -> Seq(Bucket)]
  BY <1>1, <1>5
<1>10. spent' \in [Keys -> SUBSET [at : Nat, nth : Nat]]
  BY <1>1, <1>6 DEF Numbered
<1>11. StoresInv' /\ SpentInv' /\ BudgetInv' /\ AnswerInv'
  BY <1>5, <1>6, <1>7, <1>8, <1>9, ClockStays
<1> QED
  BY <1>9, <1>10, <1>11

\* A submission whose body arrives sweeps the stores of the ingestion.
LEMMA SweepKeeps ==
    ASSUME LimitsInv, UNCHANGED <<clock, spent, answer>>,
           hits' = [s \in Stores |-> IF s = "shared" THEN hits[s] ELSE Pruned(hits[s])]
    PROVE  /\ hits' \in [Stores -> Seq(Bucket)]
           /\ StoresInv' /\ SpentInv' /\ BudgetInv' /\ AnswerInv'
<1> USE RateLimitsAssumption
<1>1. ASSUME NEW s \in Stores
      PROVE  /\ hits'[s] \in Seq(Bucket) /\ OpenOf(hits'[s]) = OpenOf(hits[s])
             /\ Len(hits'[s]) <= Len(hits[s]) /\ Len(hits'[s]) \in Nat /\ Len(hits[s]) \in Nat
             /\ Distinct(hits'[s])
             /\ \A i \in DOMAIN hits'[s] : \E j \in DOMAIN hits[s] : hits'[s][i] = hits[s][j]
  <2> DEFINE old == hits[s]
             new == hits'[s]
  <2>1. old \in Seq(Bucket) /\ Distinct(old)
    BY DEF LimitsInv, LimitsTypeOK, StoresInv
  <2>2. new = old \/ new = Pruned(old)
    OBVIOUS
  <2> HIDE DEF old, new
  <2>3. Drawn(Pruned(old), old) /\ OpenOf(Pruned(old)) = OpenOf(old)
    BY <2>1, PrunedOpen
  <2>4. /\ Pruned(old) \in Seq(Bucket) /\ Len(Pruned(old)) <= Len(old) /\ Distinct(Pruned(old))
        /\ \A i \in DOMAIN Pruned(old) : \E j \in DOMAIN old : Pruned(old)[i] = old[j]
    BY <2>1, <2>3, DrawnKeeps DEF Drawn
  <2>5. new \in Seq(Bucket) /\ Len(new) \in Nat /\ Len(old) \in Nat
    BY <2>1, <2>2, <2>4, LenProperties
  <2>6. CASE new = old
    BY <2>1, <2>5, <2>6 DEF old, new
  <2>7. CASE new = Pruned(old)
    BY <2>3, <2>4, <2>5, <2>7 DEF old, new
  <2> QED
    BY <2>2, <2>6, <2>7
<1>2. hits' \in [Stores -> Seq(Bucket)]
  BY <1>1
<1>3. ASSUME NEW s \in Stores
      PROVE  /\ Len(hits'[s]) <= Capacity[s] /\ Distinct(hits'[s])
             /\ \A i \in DOMAIN hits'[s] :
                  /\ \E l \in Limiters, c \in Clients : StoreOf(l) = s /\ hits'[s][i].key = KeyOf(l, c)
                  /\ hits'[s][i].resetAt <= clock + Window
  <2>1. /\ Len(hits[s]) <= Capacity[s] /\ Capacity[s] \in Nat
        /\ \A i \in DOMAIN hits[s] :
             /\ \E l \in Limiters, c \in Clients : StoreOf(l) = s /\ hits[s][i].key = KeyOf(l, c)
             /\ hits[s][i].resetAt <= clock + Window
    BY DEF LimitsInv, StoresInv
  <2>2. Len(hits'[s]) <= Capacity[s]
    BY <1>1, <2>1
  <2>3. ASSUME NEW i \in DOMAIN hits'[s]
        PROVE  /\ \E l \in Limiters, c \in Clients : StoreOf(l) = s /\ hits'[s][i].key = KeyOf(l, c)
               /\ hits'[s][i].resetAt <= clock + Window
    <3>1. PICK j \in DOMAIN hits[s] : hits'[s][i] = hits[s][j]
      BY <1>1
    <3> QED
      BY <2>1, <3>1
  <2>4. Distinct(hits'[s])
    BY <1>1
  <2> QED
    BY <2>2, <2>3, <2>4
<1>4. ASSUME NEW l \in Limiters, NEW c \in Clients
      PROVE  Budget(l, Own(l, c, hits'[StoreOf(l)]), spent'[KeyOf(l, c)])
  <2>1. StoreOf(l) \in Stores
    BY DEF StoreOf, Stores, Limiters
  <2>2. Own(l, c, hits'[StoreOf(l)]) = Own(l, c, hits[StoreOf(l)])
    BY <1>1, <2>1 DEF Own
  <2> QED
    BY <2>2 DEF LimitsInv, BudgetInv
<1>5. \A k \in Keys : Numbered(spent'[k])
  BY DEF LimitsInv, SpentInv
<1>6. answer' # NoAnswer =>
        /\ answer'.limiter \in Limiters /\ answer'.client \in Clients
        /\ Cardinality(Recent(spent'[KeyOf(answer'.limiter, answer'.client)])) >= Limit[answer'.limiter]
  BY DEF LimitsInv, AnswerInv
<1>7. UNCHANGED clock
  OBVIOUS
<1>8. StoresInv' /\ SpentInv' /\ BudgetInv' /\ AnswerInv'
  BY <1>2, <1>3, <1>4, <1>5, <1>6, <1>7, ClockStays
<1> QED
  BY <1>2, <1>8

\* With the clock, buckets and times expire: what an expired bucket counted fits
\* the budget that the next one has to leave room for.
LEMMA PauseKeeps == ASSUME LimitsInv, Pause PROVE LimitsInv'
<1> USE RateLimitsAssumption
<1>1. /\ clock \in Nat /\ clock' = clock + 1 /\ clock' \in 0 .. MaxClock /\ answer' = NoAnswer
      /\ UNCHANGED <<hits, bodies, spent>>
  BY DEF Pause, LimitsInv, LimitsTypeOK
<1>2. LimitsTypeOK'
  BY <1>1 DEF LimitsInv, LimitsTypeOK
<1>3. AnswerInv'
  BY <1>1 DEF AnswerInv, NoAnswer
<1>4. StoresInv'
  <2> SUFFICES ASSUME NEW s \in Stores, NEW i \in DOMAIN hits[s] PROVE hits[s][i].resetAt <= clock' + Window
    BY <1>1 DEF LimitsInv, StoresInv, Distinct
  <2>1. hits[s][i] \in Bucket /\ hits[s][i].resetAt <= clock + Window
    BY ElementOfSeq, LenProperties DEF LimitsInv, LimitsTypeOK, StoresInv
  <2>2. hits[s][i].resetAt \in Nat
    BY <2>1, BucketFields
  <2> QED
    BY <1>1, <2>1, <2>2
<1>5. SpentInv'
  <2> SUFFICES ASSUME NEW k \in Keys PROVE Numbered(spent[k])'
    BY DEF SpentInv
  <2>1. Numbered(spent[k])
    BY DEF LimitsInv, SpentInv
  <2>2. \A time \in spent[k] : time.at \in Nat /\ time.at <= clock' /\ time.at # clock'
    BY <1>1, <2>1 DEF Numbered
  <2> QED
    BY <1>1, <2>1, <2>2 DEF Numbered
<1>6. BudgetInv'
  <2> SUFFICES ASSUME NEW l \in Limiters, NEW c \in Clients
               PROVE  Budget(l, Own(l, c, hits[StoreOf(l)]), spent[KeyOf(l, c)])'
    BY DEF BudgetInv
  <2> DEFINE k == KeyOf(l, c)
             times == spent[k]
             before == Own(l, c, hits[StoreOf(l)])
             after == {b \in before : b.resetAt > clock'}
             recent == {time \in times : time.at + Window > clock'}
  <2>1. /\ k \in Keys /\ StoreOf(l) \in Stores /\ Limit[l] \in Nat
    BY DEF StoreOf, Stores, Limiters, Keys
  <2>2. /\ \A b \in before : /\ b \in Bucket /\ b.resetAt \in Nat /\ b.resetAt > clock
                             /\ \A other \in before : other = b
    <3>1. \A b \in before : b \in OpenOf(hits[StoreOf(l)]) /\ b.key = k
      BY DEF Own
    <3>2. \A b \in before : b \in Bucket /\ IsOpen(b) /\ \A other \in before : other = b
      BY <2>1, <3>1, KeysOfStores DEF LimitsInv
    <3> QED
      BY <3>2, BucketFields DEF IsOpen
  <2>3. Own(l, c, hits[StoreOf(l)])' = after
    <3>1. \A b \in OpenOf(hits[StoreOf(l)])' : b.resetAt > clock' /\ b \in OpenOf(hits[StoreOf(l)])
      <4> SUFFICES ASSUME NEW i \in DOMAIN hits[StoreOf(l)], hits[StoreOf(l)][i].resetAt > clock'
                   PROVE  hits[StoreOf(l)][i] \in OpenOf(hits[StoreOf(l)])
        BY <1>1 DEF OpenOf, IsOpen
      <4>1. hits[StoreOf(l)][i] \in Bucket
        BY <2>1, ElementOfSeq, LenProperties DEF LimitsInv, LimitsTypeOK
      <4>2. hits[StoreOf(l)][i].resetAt > clock
        BY <1>1, <4>1, BucketFields
      <4> QED
        BY <4>2 DEF OpenOf, IsOpen
    <3>2. \A b \in OpenOf(hits[StoreOf(l)]) : b.resetAt > clock' => b \in OpenOf(hits[StoreOf(l)])'
      BY <1>1 DEF OpenOf, IsOpen
    <3> QED
      BY <3>1, <3>2 DEF Own
  <2>4. Recent(spent[k])' = recent
    BY <1>1 DEF Recent
  <2>5. Numbered(times) /\ Budget(l, before, times)
    BY <2>1 DEF LimitsInv, SpentInv, BudgetInv
  <2>6. \A time \in times : time.at \in Nat /\ time.at <= clock
    BY <2>5 DEF Numbered
  <2>7. recent \subseteq Recent(times) /\ IsFiniteSet(Recent(times))
    <3>1. recent \subseteq Recent(times)
      BY <1>1, <2>6 DEF Recent
    <3>2. IsFiniteSet(Recent(times))
      BY <2>5, FS_Subset DEF Numbered, Recent
    <3> QED
      BY <3>1, <3>2
  <2> HIDE DEF k, times, before, after, recent
  <2>8. ASSUME after = {}
        PROVE  Cardinality(recent) <= Limit[l] /\ \A time \in times : time.at < clock'
    <3>1. \A time \in times : time.at < clock'
      BY <1>1, <2>6
    <3>2. PICK among : among \in SUBSET Recent(times) /\ recent \subseteq among /\ Cardinality(among) <= Limit[l]
      <4>1. CASE before = {}
        BY <2>5, <2>7, <4>1 DEF Budget
      <4>2. CASE before # {}
        <5>1. PICK b \in before : TRUE
          BY <4>2
        <5>2. b.resetAt = clock' /\ b.resetAt \in Nat
          BY <1>1, <2>2, <2>8, <5>1 DEF after
        <5>3. recent \subseteq Since(b, times)
          BY <1>1, <2>6, <5>2 DEF recent, Since
        <5>4. Since(b, times) \subseteq Recent(times)
          BY <1>1, <2>6, <5>2 DEF Since, Recent
        <5>5. /\ b.count = Cardinality(Since(b, times)) /\ b.count <= Limit[l]
          BY <2>5, <5>1 DEF Budget
        <5> QED
          BY <5>3, <5>4, <5>5
      <4> QED
        BY <4>1, <4>2
    <3>3. Cardinality(recent) <= Cardinality(among) /\ Cardinality(recent) \in Nat /\ Cardinality(among) \in Nat
      <4>1. IsFiniteSet(among) /\ recent \in SUBSET among
        BY <2>7, <3>2, FS_Subset
      <4> QED
        BY <4>1, FS_Subset, FS_CardinalityType
    <3> QED
      BY <2>1, <3>1, <3>2, <3>3
  <2>9. ASSUME NEW b \in after
        PROVE  /\ b.count = Cardinality(Since(b, times)) /\ b.count <= Limit[l]
               /\ Cardinality(recent \ Since(b, times)) <= Limit[l]
    <3>1. b \in before
      BY DEF after
    <3>2. /\ b.count = Cardinality(Since(b, times)) /\ b.count <= Limit[l]
          /\ Cardinality(Recent(times) \ Since(b, times)) <= Limit[l]
      BY <2>5, <3>1 DEF Budget
    <3> DEFINE one == Recent(times) \ Since(b, times)
               other == recent \ Since(b, times)
    <3>3. other \in SUBSET one /\ IsFiniteSet(one)
      <4>1. other \in SUBSET one /\ one \in SUBSET Recent(times)
        BY <2>7
      <4> QED
        BY <2>7, <4>1, FS_Subset
    <3> HIDE DEF one, other
    <3>4. Cardinality(other) <= Cardinality(one) /\ Cardinality(one) \in Nat /\ Cardinality(other) \in Nat
      BY <3>3, FS_Subset, FS_CardinalityType
    <3>5. Cardinality(other) <= Limit[l]
      BY <2>1, <3>2, <3>4 DEF one
    <3> QED
      BY <3>2, <3>5 DEF other
  <2>10. times' = times /\ spent[KeyOf(l, c)]' = times /\ Recent(times)' = recent
    BY <1>1, <2>4 DEF times, k
  <2> QED
    BY <2>3, <2>8, <2>9, <2>10 DEF Budget, Since, times, k
<1> QED
  BY <1>2, <1>3, <1>4, <1>5, <1>6 DEF LimitsInv

LEMMA LimitsStep == LimitsInv /\ [LimitsNext]_limitVars => LimitsInv'
<1> SUFFICES ASSUME LimitsInv, [LimitsNext]_limitVars PROVE LimitsInv'
  OBVIOUS
<1> USE RateLimitsAssumption
<1>1. bodies \in 0 .. MaxBodies /\ clock \in 0 .. MaxClock
  BY DEF LimitsInv, LimitsTypeOK
<1>2. ASSUME NEW c \in Clients, NEW kind \in Kinds, Request(c, kind) PROVE LimitsInv'
  <2>1. PICK n \in 1 .. Len(Route(kind)) + 1 :
          /\ Pass(c, kind, n)
          /\ bodies' = IF kind = "submit" /\ n > Len(Route(kind)) THEN bodies + 1 ELSE bodies
    BY <1>2 DEF Request
  <2>2. UNCHANGED clock /\ (kind = "submit" => bodies < MaxBodies)
    BY <1>2 DEF Request
  <2>3. /\ hits' \in [Stores -> Seq(Bucket)] /\ spent' \in [Keys -> SUBSET [at : Nat, nth : Nat]]
        /\ StoresInv' /\ SpentInv' /\ BudgetInv' /\ AnswerInv'
    BY <2>1, <2>2, PassKeeps
  <2>4. bodies' \in 0 .. MaxBodies
    BY <1>1, <2>1, <2>2
  <2> QED
    BY <1>1, <2>2, <2>3, <2>4 DEF LimitsInv, LimitsTypeOK
<1>3. CASE StoreSubmission
  <2>1. /\ hits' = [s \in Stores |-> IF s = "shared" THEN hits[s] ELSE Pruned(hits[s])]
        /\ UNCHANGED <<clock, spent, answer>> /\ bodies' \in 0 .. MaxBodies
    BY <1>1, <1>3 DEF StoreSubmission
  <2>2. hits' \in [Stores -> Seq(Bucket)] /\ StoresInv' /\ SpentInv' /\ BudgetInv' /\ AnswerInv'
    BY <2>1, SweepKeeps
  <2> QED
    BY <1>1, <2>1, <2>2 DEF LimitsInv, LimitsTypeOK
<1>4. CASE RefuseSubmission \/ UNCHANGED limitVars
  <2>1. bodies' \in 0 .. MaxBodies /\ UNCHANGED <<hits, clock, spent, answer>>
    BY <1>1, <1>4 DEF RefuseSubmission, limitVars
  <2>2. LimitsTypeOK'
    BY <2>1 DEF LimitsInv, LimitsTypeOK
  <2>3. StoresInv' /\ SpentInv'
    BY <2>1 DEF LimitsInv, StoresInv, SpentInv, Numbered, Distinct
  <2>4. BudgetInv'
    <3> SUFFICES ASSUME NEW l \in Limiters, NEW c \in Clients
                 PROVE  Budget(l, Own(l, c, hits[StoreOf(l)]), spent[KeyOf(l, c)])'
      BY DEF BudgetInv
    <3>1. Own(l, c, hits[StoreOf(l)])' = Own(l, c, hits[StoreOf(l)])
      BY <2>1 DEF Own, OpenOf, IsOpen
    <3>2. Recent(spent[KeyOf(l, c)])' = Recent(spent[KeyOf(l, c)])
      BY <2>1 DEF Recent
    <3>3. Budget(l, Own(l, c, hits[StoreOf(l)]), spent[KeyOf(l, c)])
      BY DEF LimitsInv, BudgetInv
    <3>4. \A bucket : Since(bucket, spent[KeyOf(l, c)])' = Since(bucket, spent[KeyOf(l, c)])
      BY <2>1 DEF Since
    <3> QED
      BY <2>1, <3>1, <3>2, <3>3, <3>4 DEF Budget
  <2>5. AnswerInv'
    BY <2>1 DEF LimitsInv, AnswerInv, Recent, NoAnswer
  <2> QED
    BY <2>2, <2>3, <2>4, <2>5 DEF LimitsInv
<1>5. CASE Pause
  BY <1>5, PauseKeeps
<1> QED
  BY <1>2, <1>3, <1>4, <1>5 DEF LimitsNext

LEMMA LimitsInitInv == ASSUME LimitsInit PROVE LimitsInv
<1> USE RateLimitsAssumption
<1>1. /\ \A s \in Stores : hits[s] = <<>>
      /\ \A k \in Keys : spent[k] = {}
      /\ clock = 0 /\ bodies = 0 /\ answer = NoAnswer
      /\ \A l \in Limiters, c \in Clients : StoreOf(l) \in Stores /\ KeyOf(l, c) \in Keys
  BY DEF LimitsInit, StoreOf, Stores, Limiters, Keys
<1>2. LimitsTypeOK
  BY <1>1 DEF LimitsInit, LimitsTypeOK
<1>3. StoresInv
  BY <1>1 DEF StoresInv, Distinct
<1>4. SpentInv
  <2>1. Numbered({})
    BY FS_EmptySet DEF Numbered
  <2> QED
    BY <1>1, <2>1 DEF SpentInv
<1>5. BudgetInv
  <2> SUFFICES ASSUME NEW l \in Limiters, NEW c \in Clients
               PROVE  Budget(l, Own(l, c, hits[StoreOf(l)]), spent[KeyOf(l, c)])
    BY DEF BudgetInv
  <2>1. Own(l, c, hits[StoreOf(l)]) = {} /\ spent[KeyOf(l, c)] = {}
    BY <1>1 DEF Own, OpenOf
  <2>2. Recent({}) = {} /\ Cardinality({}) = 0
    BY FS_EmptySet DEF Recent
  <2>3. Cardinality(Recent({})) <= Limit[l]
    <3>1. 0 <= Limit[l]
      OBVIOUS
    <3>2. Cardinality(Recent({})) = 0
      BY <2>2
    <3> QED
      BY <3>1, <3>2
  <2>4. Budget(l, {}, {})
    BY <2>3 DEF Budget
  <2> QED
    BY <2>1, <2>4
<1>6. AnswerInv
  BY <1>1 DEF AnswerInv
<1> QED
  BY <1>2, <1>3, <1>4, <1>5, <1>6 DEF LimitsInv

LEMMA LimitsFair == LimitsInv => LimitersAreFair
<1> SUFFICES ASSUME LimitsInv PROVE LimitersAreFair
  OBVIOUS
<1>1. \A s \in Stores : Len(hits[s]) <= Capacity[s]
  BY DEF LimitsInv, StoresInv
<1>2. answer # NoAnswer =>
        Cardinality(Recent(spent[KeyOf(answer.limiter, answer.client)])) >= Limit[answer.limiter]
  BY DEF LimitsInv, AnswerInv
<1>3. ASSUME NEW l \in Limiters, NEW c \in Clients
      PROVE  Cardinality(Recent(spent[KeyOf(l, c)])) <= 2 * Limit[l]
  <2>1. KeyOf(l, c) \in Keys /\ StoreOf(l) \in Stores /\ clock \in Nat
    BY DEF Keys, StoreOf, Stores, Limiters, LimitsInv, LimitsTypeOK
  <2>2. \A b \in Own(l, c, hits[StoreOf(l)]) : b \in Bucket /\ IsOpen(b)
    BY <2>1, KeysOfStores DEF LimitsInv, Own
  <2>3. /\ Numbered(spent[KeyOf(l, c)])
        /\ Budget(l, Own(l, c, hits[StoreOf(l)]), spent[KeyOf(l, c)])
    BY <2>1 DEF LimitsInv, SpentInv, BudgetInv
  <2> QED
    BY <2>1, <2>2, <2>3, TwoBudgets
<1> QED
  BY <1>1, <1>2, <1>3 DEF LimitersAreFair

LEMMA LimitsAlways == LimitsSpec => []LimitsInv
<1>1. LimitsInit => LimitsInv
  BY LimitsInitInv
<1>2. LimitsInv /\ [LimitsNext]_limitVars => LimitsInv'
  BY LimitsStep
<1> QED
  BY <1>1, <1>2, PTL DEF LimitsSpec

\* The stores of middleware/rateLimit.ts and services/siteData.ts keep their types
\* for any clients, limits, capacities and window.
THEOREM LimitTypes == LimitsSpec => []LimitsTypeOK
<1>1. LimitsInv => LimitsTypeOK
  BY DEF LimitsInv
<1> QED
  BY <1>1, LimitsAlways, PTL

\* createRateLimiter, RateLimiter.check and enforceMaxEntries: for any clients,
\* limits, capacities and window, no store outgrows its capacity, who is refused
\* had a full budget in the window before, and who was never evicted gets no more
\* than two.
THEOREM LimitersFair == LimitsSpec => []LimitersAreFair
BY LimitsFair, LimitsAlways, PTL
=============================================================================
