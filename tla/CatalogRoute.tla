---------------------------- MODULE CatalogRoute ----------------------------
(***************************************************************************)
(* GET /catalog: the generated route looks the response up in its cache,   *)
(* calls Controller.Catalog on a miss and stores what it returned.  No     *)
(* lock spans these three calls, so concurrent requests may all miss, load *)
(* and store, and the request's context may end before any of them.        *)
(*                                                                         *)
(* The cache belongs to the route alone: nothing deletes or purges.  The   *)
(* application has one key, because CatalogRequest has no fields, and one  *)
(* value, because the service's product is fixed when it is constructed.   *)
(***************************************************************************)
EXTENDS MemoryCache

VARIABLES
    generatedTTL,   \* spice.cache.commerce.catalog.ttl
    stage,          \* where each request is
    cancelled,      \* requests whose context is done
    reply           \* ok, failed or refused: the last answer

route == <<generatedTTL, stage, cancelled, reply>>
routeVars == <<vars, route>>

Waiting == {"new", "done"}

\* The route is registered only with a positive capacity, see
\* CacheAssumption, and a TTL that is not negative.
RouteInit ==
    /\ Init
    /\ generatedTTL \in TTLs
    /\ stage = [r \in Callers |-> "new"]
    /\ cancelled = {}
    /\ reply = [r \in Callers |-> "none"]

Goto(r, s) == stage' = [stage EXCEPT ![r] = s]

Answer(r, a) ==
    /\ Goto(r, "done")
    /\ reply' = [reply EXCEPT ![r] = a]

\* A request arrives with a fresh context; one that does not accept JSON is
\* refused with 406.
Arrive(r) ==
    /\ stage[r] \in Waiting
    /\ \/ Goto(r, "get") /\ UNCHANGED reply
       \/ Answer(r, "refused")
    /\ cancelled' = cancelled \ {r}
    /\ UNCHANGED <<vars, generatedTTL>>

\* The client goes away.
Cancel(r) ==
    /\ stage[r] \notin Waiting
    /\ cancelled' = cancelled \cup {r}
    /\ UNCHANGED <<vars, generatedTTL, stage, reply>>

\* Mutant of Fail: the route overlooks that Put can refuse.
FailBeforePut(r) ==
    /\ stage[r] \in {"get", "load"}
    /\ r \in cancelled
    /\ Answer(r, "failed")
    /\ UNCHANGED <<vars, generatedTTL, cancelled>>

\* Get, Catalog and Put refuse a context that is done.  The route then fails,
\* even when Put refuses and the response is at hand.
Fail(r) ==
    /\ stage[r] \in {"get", "load", "put"}
    /\ r \in cancelled
    /\ Answer(r, "failed")
    /\ UNCHANGED <<vars, generatedTTL, cancelled>>

\* Get up to its mutex.
LookUp(r) ==
    /\ stage[r] = "get"
    /\ r \notin cancelled
    /\ \E k \in Keys : Begin(r, "get", k, Nothing, 0)
    /\ Goto(r, "looking")
    /\ UNCHANGED <<generatedTTL, cancelled, reply>>

\* A hit is the answer.
LookedUp(r) ==
    /\ stage[r] = "looking"
    /\ Get(r)
    /\ IF answer'[r] = Nothing
       THEN Goto(r, "load") /\ UNCHANGED reply
       ELSE Answer(r, "ok")
    /\ UNCHANGED <<generatedTTL, cancelled>>

\* Controller.Catalog returns the product.
Catalog(r) ==
    /\ stage[r] = "load"
    /\ r \notin cancelled
    /\ Goto(r, "put")
    /\ UNCHANGED <<vars, generatedTTL, cancelled, reply>>

\* Put up to its mutex.
Fill(r) ==
    /\ stage[r] = "put"
    /\ r \notin cancelled
    /\ \E k \in Keys, v \in Values : Begin(r, "put", k, v, generatedTTL)
    /\ Goto(r, "filling")
    /\ UNCHANGED <<generatedTTL, cancelled, reply>>

Filled(r) ==
    /\ stage[r] = "filling"
    /\ Put(r)
    /\ Answer(r, "ok")
    /\ UNCHANGED <<generatedTTL, cancelled>>

\* The steps the handler's goroutine takes once a request has arrived.
Handle(r) ==
    \/ Fail(r)
    \/ LookUp(r)
    \/ LookedUp(r)
    \/ Catalog(r)
    \/ Fill(r)
    \/ Filled(r)

RouteNext ==
    \/ Tick /\ UNCHANGED route
    \/ \E r \in Callers : Arrive(r) \/ Cancel(r) \/ Handle(r)

\* Goroutines that can run are run, and the mutex is never held across a
\* blocking call.
RouteSpec ==
    /\ RouteInit
    /\ [][RouteNext]_routeVars
    /\ \A r \in Callers : WF_routeVars(Handle(r))

-----------------------------------------------------------------------------
\* Properties.

Live(item) == item # Nil /\ (item.expiresAt = 0 \/ item.expiresAt > clock)

\* A request loads the catalog only when the cache holds no live response for
\* it at that moment: whatever the order of Get and Put of other requests and
\* however old their clock readings, a stored response is served until its
\* time has passed, and for ever when the TTL is zero.
LoadOnlyWithoutLiveEntry ==
    [][\A r \in Callers :
          stage[r] # "load" /\ stage'[r] = "load"
             => ~Live(items[arg[r].key])]_routeVars

\* Every request that arrives is answered, and one whose context did not end
\* is answered with the catalog: concurrent misses never wait for each other.
CatalogAnswered ==
    \A r \in Callers :
        /\ stage[r] = "get" ~> stage[r] = "done"
        /\ [](stage[r] = "done" /\ r \notin cancelled
                 => reply[r] \in {"ok", "refused"})
=============================================================================
