------------------------------ MODULE RateLimits ------------------------------
(***************************************************************************)
(* The fixed-window limiters that the public routes pass: the two of       *)
(* middleware/rateLimit.ts, which share one Map, and the three of the form *)
(* ingestion (RateLimiter in services/siteData.ts).  A Map keeps the order *)
(* of insertion, so a store is the sequence of its buckets.  A request is  *)
(* checked without interruption up to the read of its body.                *)
(***************************************************************************)
EXTENDS Naturals, Sequences, FiniteSets, Selection

CONSTANTS Clients,    \* [ip, agent]: the address of the connection, the User-Agent
          Kinds,      \* the requests that occur: "submit", "view", "signIn"
          Limit,      \* Limit[l]: the requests limiter l allows in a window
          Capacity,   \* Capacity[s]: the most buckets that store s keeps
          Window,     \* the length of a window
          Enabled,    \* RATE_LIMIT_ENABLED
          MaxBodies,  \* bound: submissions waiting for their body
          MaxClock    \* bound: the clock

Limiters == {"public", "auth", "global", "ip", "visitor"}
Stores == {"shared", "global", "ip", "visitor"}

ASSUME RateLimitsAssumption ==
    /\ Kinds \subseteq {"submit", "view", "signIn"}
    /\ \A c \in Clients : DOMAIN c = {"ip", "agent"}
    /\ Limit \in [Limiters -> Nat \ {0}] /\ Capacity \in [Stores -> Nat \ {0}]
    /\ Window \in Nat \ {0}
    /\ Enabled \in BOOLEAN /\ MaxBodies \in Nat /\ MaxClock \in Nat

VARIABLES
    hits,   \* hits[s]: the buckets of store s, oldest first
    bodies, \* submissions that have passed and wait for their body
    clock,
    spent,  \* history: each time a key was allowed, since its live bucket was last evicted
    answer  \* the last request of this instant, and the limiter that refused it

limitVars == <<hits, bodies, clock, spent, answer>>

StoreOf(l) == IF l \in {"public", "auth"} THEN "shared" ELSE l

\* clientKey, and the three keys of the ingestion; hashVisitor is injective.
KeyOf(l, c) ==
    CASE l = "global"  -> <<"global">>
      [] l = "visitor" -> <<"visitor", c.ip, c.agent>>
      [] OTHER         -> <<l, c.ip>>

Keys == {KeyOf(l, c) : l \in Limiters, c \in Clients}
Bucket == [key : Keys, count : Nat, resetAt : Nat]
NoAnswer == [limiter |-> "none"]

LimitsInit ==
    /\ hits = [s \in Stores |-> <<>>]
    /\ bodies = 0 /\ clock = 0
    /\ spent = [k \in Keys |-> {}]
    /\ answer = NoAnswer

----------------------------------------------------------------------------
(* One check.                                                              *)

IsOpen(bucket) == bucket.resetAt > clock

\* prune, sweepExpired.
Pruned(buckets) == Keep(buckets, {i \in DOMAIN buckets : IsOpen(buckets[i])})

Without(buckets, key) == Keep(buckets, {i \in DOMAIN buckets : buckets[i].key # key})

\* enforceMaxEntries: expired buckets go first, then the oldest.
Bounded(buckets, most) ==
    IF Len(buckets) <= most THEN buckets
    ELSE LET kept == Pruned(buckets)
             excess == IF Len(kept) > most THEN Len(kept) - most ELSE 0
         IN  SubSeq(kept, excess + 1, Len(kept))

\* What a check finds where `swept` says that it sweeps the store first: one in
\* a thousand does, the model lets any.
Found(s, swept) == IF swept THEN Pruned(hits[s]) ELSE hits[s]

\* Mutant of Allows: one more than the limit.
AllowsOneMore(l, c) == \A i \in DOMAIN hits[StoreOf(l)] :
                         LET bucket == hits[StoreOf(l)][i]
                         IN  bucket.key = KeyOf(l, c) /\ IsOpen(bucket) => bucket.count <= Limit[l]

Allows(l, c) == \A i \in DOMAIN hits[StoreOf(l)] :
                  LET bucket == hits[StoreOf(l)][i]
                  IN  bucket.key = KeyOf(l, c) /\ IsOpen(bucket) => bucket.count < Limit[l]

\* The store after the check: a new bucket at the back, or one more hit.
Checked(l, c, swept) ==
    LET found == Found(StoreOf(l), swept)
        key == KeyOf(l, c)
        open == {i \in DOMAIN found : found[i].key = key /\ IsOpen(found[i])}
        bucket == [key |-> key, count |-> 1, resetAt |-> clock + Window]
    IN  IF open = {}
        THEN Bounded(Append(Without(found, key), bucket), Capacity[StoreOf(l)])
        ELSE [i \in DOMAIN found |->
                IF i \in open /\ Allows(l, c) THEN [found[i] EXCEPT !.count = @ + 1] ELSE found[i]]

----------------------------------------------------------------------------
(* Requests.                                                               *)

\* The limiters on the way of a request, in order.
Route(kind) ==
    LET guard == IF kind = "signIn" THEN <<"auth">> ELSE <<"public">>
        own == IF kind = "submit" THEN <<"global", "ip", "visitor">> ELSE <<>>
    IN  (IF Enabled THEN guard ELSE <<>>) \o own

\* What a key was allowed within the window that ends now; one time more, told
\* from the others of this instant by its number.
Recent(times) == {time \in times : time.at + Window > clock}

OneMore(times) ==
    LET now == {time \in times : time.at = clock}
    IN  times \cup {[at |-> clock, nth |-> Cardinality(now) + 1]}

LiveKeys(buckets) == {buckets[i].key : i \in {j \in DOMAIN buckets : IsOpen(buckets[j])}}

\* The limiters before the n-th allow the request, the n-th refuses it; n is one
\* past the last for a request that passes them all.
Pass(c, kind, n) ==
    LET route == Route(kind)
        asked == {route[i] : i \in 1 .. (IF n > Len(route) THEN Len(route) ELSE n)}
        passed == {route[i] : i \in 1 .. (n - 1)}
        evicted == UNION {LiveKeys(hits[s]) \ LiveKeys(hits'[s]) : s \in Stores}
    IN  /\ \A l \in passed : Allows(l, c)
        /\ n <= Len(route) => ~Allows(route[n], c)
        /\ \E swept \in BOOLEAN :
             hits' = [s \in Stores |->
               IF \E l \in asked : StoreOf(l) = s
               THEN Checked(CHOOSE l \in asked : StoreOf(l) = s, c, swept) ELSE hits[s]]
        /\ spent' = [k \in Keys |->
             IF \E l \in passed : KeyOf(l, c) = k THEN OneMore(Recent(spent[k]))
             ELSE IF k \in evicted THEN {} ELSE spent[k]]
        /\ answer' = IF n > Len(route) THEN NoAnswer ELSE [limiter |-> route[n], client |-> c]

Request(c, kind) ==
    /\ kind = "submit" => bodies < MaxBodies
    /\ \E n \in 1 .. Len(Route(kind)) + 1 :
         /\ Pass(c, kind, n)
         /\ bodies' = IF kind = "submit" /\ n > Len(Route(kind)) THEN bodies + 1 ELSE bodies
    /\ UNCHANGED clock

\* A submission is stored; one that is refused after its body prunes nothing.
StoreSubmission ==
    /\ bodies > 0 /\ bodies' = bodies - 1
    /\ hits' = [s \in Stores |-> IF s = "shared" THEN hits[s] ELSE Pruned(hits[s])]
    /\ UNCHANGED <<clock, spent, answer>>

RefuseSubmission ==
    /\ bodies > 0 /\ bodies' = bodies - 1
    /\ UNCHANGED <<hits, clock, spent, answer>>

Pause ==
    /\ clock < MaxClock
    /\ clock' = clock + 1
    /\ answer' = NoAnswer
    /\ UNCHANGED <<hits, bodies, spent>>

LimitsNext ==
    \/ \E c \in Clients, kind \in Kinds : Request(c, kind)
    \/ StoreSubmission
    \/ RefuseSubmission
    \/ Pause

LimitsSpec == LimitsInit /\ [][LimitsNext]_limitVars

----------------------------------------------------------------------------
(* Properties.                                                             *)

\* The variables keep their types.
LimitsTypeOK ==
    /\ hits \in [Stores -> Seq(Bucket)]
    /\ bodies \in 0 .. MaxBodies /\ clock \in 0 .. MaxClock
    /\ spent \in [Keys -> SUBSET [at : Nat, nth : Nat]]

\* The limiters bound what they are there to bound: no store outgrows its
\* capacity, nobody is refused who was not allowed a full budget in the window
\* before, whatever was swept, pruned or evicted meanwhile, and a key whose
\* live buckets were never evicted is not allowed more than two budgets within
\* any window.
LimitersAreFair ==
    /\ \A s \in Stores : Len(hits[s]) <= Capacity[s]
    /\ answer # NoAnswer =>
         Cardinality(Recent(spent[KeyOf(answer.limiter, answer.client)])) >= Limit[answer.limiter]
    /\ \A l \in Limiters, c \in Clients : Cardinality(Recent(spent[KeyOf(l, c)])) <= 2 * Limit[l]
=============================================================================
