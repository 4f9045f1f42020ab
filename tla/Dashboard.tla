----------------------------- MODULE Dashboard -----------------------------
(***************************************************************************)
(* The dashboard of the portal: the gateway decides the scope of each      *)
(* request, lets one of those with the same key ask the domains, hands the *)
(* result to the others and perhaps to a cache; a tab adopts the scope of  *)
(* whatever answer arrives.                                                *)
(***************************************************************************)
EXTENDS FiniteSets

CONSTANTS
    Actors,       \* users, each with one tab
    Views,        \* requests; a result has the name of the one that made it
    Domains,      \* the projections asked for in parallel
    CacheOn,      \* PORTAL_CACHE_TTL_SECONDS is set
    Nothing

Scopes == {"mine", "cross"}

(* shown: domains with data; degraded: domains named as failed.            *)
Results == [actor: Actors, scope: Scopes, requested: Scopes, shown: SUBSET Domains,
            degraded: SUBSET (Domains \cup {"gateway"}), trace: Views]

ASSUME CacheAssumption == CacheOn \in BOOLEAN /\ Nothing \notin Views \cup Actors \cup Results

VARIABLES
    granted,      \* IAM: who may see across projects
    view,
    inFlight,     \* RefreshSingleFlight._flights: key -> leader
    results,      \* DashboardResult objects
    cache,        \* _cache: key -> result
    tab           \* what each tab shows, and in which scope

dashboardVars == <<granted, view, inFlight, results, cache, tab>>

-----------------------------------------------------------------------------

Result(v, shown, degraded) ==
    [actor |-> view[v].actor, scope |-> view[v].effective, requested |-> view[v].requested,
     shown |-> shown, degraded |-> degraded, trace |-> v]

NoView == [pc |-> "idle", actor |-> Nothing, requested |-> "mine", effective |-> "mine",
           flight |-> Nothing, open |-> {}, shown |-> {}, degraded |-> {},
           result |-> Nothing, answer |-> Nothing]

KeyOfActor(v) == <<view[v].actor, "mine">>   \* mutated: the scope is not in the key

Key(v) == <<view[v].actor, view[v].effective>>

Keys == Actors \X Scopes

DashboardInit ==
    /\ granted \in SUBSET Actors
    /\ view = [v \in Views |-> NoView]
    /\ inFlight = [k \in Keys |-> Nothing]
    /\ results = [v \in Views |-> Nothing]
    /\ cache = [k \in Keys |-> Nothing]
    /\ tab = [a \in Actors |-> [scope |-> "mine", data |-> Nothing]]

(* Permissions come and go.                                                *)
Grant(a) ==
    /\ granted' = IF a \in granted THEN granted \ {a} ELSE granted \cup {a}
    /\ UNCHANGED <<view, inFlight, results, cache, tab>>

-----------------------------------------------------------------------------
(* useDashboard: refresh by the timer or a visible tab, or setScope        *)

Send(v) ==
    /\ view[v].pc = "idle"
    /\ \E a \in Actors, s \in Scopes :
          /\ view' = [view EXCEPT ![v] = [NoView EXCEPT !.pc = "sent", !.actor = a, !.requested = s]]
          /\ tab' = [tab EXCEPT ![a].scope = s]
    /\ UNCHANGED <<granted, inFlight, results, cache>>

Arrive(v) ==
    /\ view[v].pc = "answered"
    /\ tab' = [tab EXCEPT ![view[v].actor] = [scope |-> view[v].answer.scope, data |-> view[v].answer]]
    /\ view' = [view EXCEPT ![v].pc = "done"]
    /\ UNCHANGED <<granted, inFlight, results, cache>>

(* A request that fails leaves the data in place.                          *)
Lose(v) ==
    /\ view[v].pc \in {"sent", "answered", "failed"}
    /\ view' = [view EXCEPT ![v].pc = "done"]
    /\ UNCHANGED <<granted, inFlight, results, cache, tab>>

-----------------------------------------------------------------------------
(* PortalDashboardService.build *)

(* ScopeDecision.from_principal                                            *)
Resolve(v) ==
    /\ view[v].pc = "sent"
    /\ view' = [view EXCEPT ![v].pc = "keyed",
                  ![v].effective = IF view[v].requested = "cross" /\ view[v].actor \in granted
                                   THEN "cross" ELSE "mine"]
    /\ UNCHANGED <<granted, inFlight, results, cache, tab>>

(* _cache_get: what is found is returned as it is.                         *)
Hit(v) ==
    /\ view[v].pc = "keyed" /\ cache[Key(v)] # Nothing
    /\ view' = [view EXCEPT ![v].pc = "reply", ![v].result = cache[Key(v)]]
    /\ UNCHANGED <<granted, inFlight, results, cache, tab>>

LeadBuild(v) ==
    /\ view[v].pc = "keyed" /\ cache[Key(v)] = Nothing /\ inFlight[Key(v)] = Nothing
    /\ inFlight' = [inFlight EXCEPT ![Key(v)] = v]
    /\ view' = [view EXCEPT ![v].pc = "collect", ![v].open = Domains]
    /\ UNCHANGED <<granted, results, cache, tab>>

JoinBuild(v) ==
    /\ view[v].pc = "keyed" /\ cache[Key(v)] = Nothing /\ inFlight[Key(v)] # Nothing
    /\ view' = [view EXCEPT ![v].pc = "wait", ![v].flight = inFlight[Key(v)]]
    /\ UNCHANGED <<granted, inFlight, results, cache, tab>>

(* One collector is done, with its data or degraded.                       *)
Collect(v) ==
    /\ view[v].pc = "collect"
    /\ \E d \in view[v].open :
          view' = [view EXCEPT ![v].open = @ \ {d}, ![v].shown = @ \cup {d}]
          \/ view' = [view EXCEPT ![v].open = @ \ {d}, ![v].degraded = @ \cup {d}]
    /\ UNCHANGED <<granted, inFlight, results, cache, tab>>

(* global_deadline: who is not done is degraded; who gets done between the *)
(* timeout and the look at it is neither shown nor degraded.               *)
Deadline(v) ==
    /\ view[v].pc = "collect" /\ view[v].open # {}
    /\ \E late \in SUBSET view[v].open :
          view' = [view EXCEPT ![v].open = {}, ![v].degraded = @ \cup (view[v].open \ late)]
    /\ UNCHANGED <<granted, inFlight, results, cache, tab>>

(* The result is handed to those who wait, the flight ends after that.     *)
Assemble(v) ==
    /\ view[v].pc = "collect" /\ view[v].open = {}
    /\ results' = [results EXCEPT ![v] = Result(v, view[v].shown, view[v].degraded)]
    /\ view' = [view EXCEPT ![v].pc = "leave", ![v].result = v]
    /\ UNCHANGED <<granted, inFlight, cache, tab>>

Leave(v) ==
    /\ view[v].pc = "leave"
    /\ inFlight' = [inFlight EXCEPT ![Key(v)] = Nothing]
    /\ view' = [view EXCEPT ![v].pc = "meta"]
    /\ UNCHANGED <<granted, results, cache, tab>>

(* The aggregation raises: nobody is handed anything.                      *)
RaiseBuild(v) ==
    /\ view[v].pc = "collect"
    /\ inFlight' = [inFlight EXCEPT ![Key(v)] = Nothing]
    /\ view' = [view EXCEPT ![v].pc = "failed"]
    /\ UNCHANGED <<granted, results, cache, tab>>

Wake(v) ==
    /\ view[v].pc = "wait" /\ results[view[v].flight] # Nothing
    /\ view' = [view EXCEPT ![v].pc = "meta", ![v].result = view[v].flight]
    /\ UNCHANGED <<granted, inFlight, results, cache, tab>>

(* The wait times out: _empty_result.                                      *)
GiveUp(v) ==
    /\ view[v].pc = "wait"
    /\ results' = [results EXCEPT ![v] = Result(v, {}, {"gateway"})]
    /\ view' = [view EXCEPT ![v].pc = "store", ![v].result = v]
    /\ UNCHANGED <<granted, inFlight, cache, tab>>

(* took_ms and trace_id are written into the object all of them share.     *)
Meta(v) ==
    /\ view[v].pc = "meta"
    /\ results' = [results EXCEPT ![view[v].result].trace = v]
    /\ view' = [view EXCEPT ![v].pc = "store"]
    /\ UNCHANGED <<granted, inFlight, cache, tab>>

Store(v) ==
    /\ view[v].pc = "store"
    /\ cache' = IF CacheOn THEN [cache EXCEPT ![Key(v)] = view[v].result] ELSE cache
    /\ view' = [view EXCEPT ![v].pc = "reply"]
    /\ UNCHANGED <<granted, inFlight, results, tab>>

Expire(k) ==
    /\ cache[k] # Nothing
    /\ cache' = [cache EXCEPT ![k] = Nothing]
    /\ UNCHANGED <<granted, view, inFlight, results, tab>>

ReplyBuild(v) ==
    /\ view[v].pc = "reply"
    /\ view' = [view EXCEPT ![v].pc = "answered", ![v].answer = results[view[v].result]]
    /\ UNCHANGED <<granted, inFlight, results, cache, tab>>

DashboardNext ==
    \/ \E a \in Actors : Grant(a)
    \/ \E k \in Keys : Expire(k)
    \/ \E v \in Views :
          \/ Send(v) \/ Arrive(v) \/ Lose(v)
          \/ Resolve(v) \/ Hit(v) \/ LeadBuild(v) \/ JoinBuild(v) \/ Collect(v) \/ Deadline(v)
          \/ Assemble(v) \/ Leave(v) \/ RaiseBuild(v) \/ Wake(v) \/ GiveUp(v)
          \/ Meta(v) \/ Store(v) \/ ReplyBuild(v)

DashboardSpec == DashboardInit /\ [][DashboardNext]_dashboardVars

-----------------------------------------------------------------------------
(* Properties *)

(* Whoever led the aggregation or filled the cache: a user is answered     *)
(* with what was collected for this user in the scope this very request    *)
(* was allowed, no degraded domain shows data, and a tab shows nothing     *)
(* else.                                                                   *)
AnswersOwnScope ==
    /\ \A v \in Views : view[v].answer # Nothing =>
         /\ view[v].answer.actor = view[v].actor
         /\ view[v].answer.scope = view[v].effective
         /\ view[v].answer.shown \cap view[v].answer.degraded = {}
    /\ \A a \in Actors : tab[a].data # Nothing => tab[a].data.actor = a

=============================================================================
