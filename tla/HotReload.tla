----------------------------- MODULE HotReload -----------------------------
(***************************************************************************)
(* Hot reload of the security rules and of the route table, and the        *)
(* requests that run meanwhile.                                            *)
(*                                                                         *)
(*   ReloadService   src/app/reload_service.hpp    timer handler, one at a *)
(*                                                 time                    *)
(*   SecurityRules   src/security/security_rules.hpp   snapshot, per-thread*)
(*                                                 cache, generation       *)
(*   UpstreamManager src/http/upstream_manager.hpp     table, generation   *)
(*   ClientSession   src/http/client_session.hpp       check, then route,  *)
(*                                                 until both are stable   *)
(*                                                                         *)
(* A version is the state of config.d/ after that many edits, and stands   *)
(* for its fingerprint (names, sizes, mtimes).  Config::load() reads the   *)
(* file with the rules and the one with the routes at different moments.   *)
(***************************************************************************)
EXTENDS Naturals

CONSTANTS
    Sessions,       \* requests
    Threads,        \* io_context threads
    MaxEdits,       \* bound on the edits of config.d/
    MaxFaults,      \* bound on the transient failures to read config.d/
    None            \* std::nullopt

ASSUME BoundsAssumption == MaxEdits \in Nat /\ MaxFaults \in Nat
ASSUME NoneAssumption == None \notin Nat

Versions == 0..MaxEdits
MaxAttempts == 3    \* kMaxConfigConsistencyAttempts

\* What a version is: usable; rejected by SecurityRules::prepare_reload(); rejected
\* by the pool validator or UpstreamManager::prepare_reload(); or usable with
\* config_reload_interval_sec <= 0, which ends the reloading.
Kinds == {"good", "badRules", "badRoutes", "off"}

VARIABLES
    disk,           \* the version config.d/ holds
    kind,           \* what each version is
    faults,         \* failures to read config.d/ so far
    running,        \* running_
    last,           \* last_config_fingerprint_, None before start()
    pending,        \* pending_fingerprint_
    rpc,            \* where the timer handler is
    current,        \* current_fingerprint of the handler
    rulesRead, routesRead,  \* the versions Config::load() read
    sec,            \* [gen, ver]: published snapshot and generation_
    up,             \* [gen, ver]: published route table and generation_
    cache,          \* the thread_local TLSCache of each thread
    pc,             \* where each request is
    thread,         \* the thread that runs its check
    seen,           \* current_gen of snapshot_view_fast()
    judged,         \* [gen, ver]: security_generation and the rules applied
    upGen,          \* upstream_generation_before
    route,          \* version of the table the route was found in
    attempt

reloadVars  == <<faults, running, last, pending, rpc, current, rulesRead, routesRead>>
sessionVars == <<pc, thread, seen, judged, upGen, route, attempt>>
vars == <<disk, kind, reloadVars, sec, up, cache, sessionVars>>

ReloadPCs == {"idle", "loadRules", "loadRoutes", "verify", "prepare",
              "publishRules", "publishRoutes", "off"}
Decided == {"rejected", "proxy", "notfound"}
SessionPCs == Decided \cup {"new", "recheck", "check", "compare", "readGen",
                            "route", "verifyRoutes", "verifyRules"}

Published == [gen : Nat, ver : Versions]

Init ==
    /\ disk = 0 /\ kind = [v \in Versions |-> "good"] /\ faults = 0
    /\ running = FALSE /\ last = None /\ pending = None /\ rpc = "idle" /\ current = 0
    /\ rulesRead = 0 /\ routesRead = 0
    /\ sec = [gen |-> 1, ver |-> 0] /\ up = [gen |-> 1, ver |-> 0]
    /\ cache = [t \in Threads |-> [gen |-> 0, ver |-> 0]]
    /\ pc = [s \in Sessions |-> "new"]
    /\ thread \in [Sessions -> Threads]
    /\ seen = [s \in Sessions |-> 0]
    /\ judged = [s \in Sessions |-> [gen |-> 0, ver |-> 0]]
    /\ upGen = [s \in Sessions |-> 0]
    /\ route = [s \in Sessions |-> None]
    /\ attempt = [s \in Sessions |-> 0]

-----------------------------------------------------------------------------
(* The editor of config.d/: an operator, or the config-centre client. *)

Edit(k) ==
    /\ disk < MaxEdits
    /\ disk' = disk + 1
    /\ kind' = [kind EXCEPT ![disk + 1] = k]
    /\ UNCHANGED <<reloadVars, sec, up, cache, sessionVars>>

-----------------------------------------------------------------------------
(* ReloadService *)

\* start(): the baseline is what is on disk now, not what was loaded.
Start ==
    /\ last = None
    /\ running' = TRUE /\ last' = disk
    /\ UNCHANGED <<disk, kind, faults, pending, rpc, current, rulesRead, routesRead,
                   sec, up, cache, sessionVars>>

\* stop(): a handler that already runs completes, none is scheduled after it.
Stop ==
    /\ running /\ running' = FALSE
    /\ UNCHANGED <<disk, kind, faults, last, pending, rpc, current, rulesRead, routesRead,
                   sec, up, cache, sessionVars>>

\* Variant: the fingerprint is acknowledged before the reload has succeeded.
TickAcknowledges ==
    /\ running /\ rpc = "idle"
    /\ current' = disk
    /\ IF pending = disk /\ disk # last
       THEN rpc' = "loadRules" /\ pending' = pending /\ last' = disk
       ELSE /\ pending' = IF disk # last THEN disk ELSE None
            /\ UNCHANGED <<rpc, last>>
    /\ UNCHANGED <<disk, kind, faults, running, rulesRead, routesRead, sec, up, cache,
                   sessionVars>>

\* A change is first observed, and loaded when it is the same one tick later.
Tick ==
    /\ running /\ rpc = "idle"
    /\ current' = disk
    /\ IF pending = disk
       THEN IF disk # last THEN rpc' = "loadRules" /\ pending' = pending
                           ELSE rpc' = rpc /\ pending' = None
       ELSE rpc' = rpc /\ pending' = IF disk # last THEN disk ELSE None
    /\ UNCHANGED <<disk, kind, faults, running, last, rulesRead, routesRead, sec, up, cache,
                   sessionVars>>

LoadRules ==
    /\ rpc = "loadRules" /\ rpc' = "loadRoutes"
    /\ rulesRead' = disk
    /\ UNCHANGED <<disk, kind, faults, running, last, pending, current, routesRead, sec, up,
                   cache, sessionVars>>

LoadRoutes ==
    /\ rpc = "loadRoutes" /\ rpc' = "verify"
    /\ routesRead' = disk
    /\ UNCHANGED <<disk, kind, faults, running, last, pending, current, rulesRead, sec, up,
                   cache, sessionVars>>

\* read_config_fingerprint() or Config::load() fails: nothing stays pending.
ReadFails ==
    /\ rpc \in {"loadRules", "loadRoutes", "verify"} \/ (rpc = "idle" /\ running)
    /\ rpc' = "idle" /\ pending' = None
    /\ faults < MaxFaults /\ faults' = faults + 1
    /\ UNCHANGED <<disk, kind, running, last, current, rulesRead, routesRead, sec, up, cache,
                   sessionVars>>

\* The fingerprint is read again after parsing.
VerifyLoad ==
    /\ rpc = "verify"
    /\ IF disk = current THEN rpc' = "prepare" /\ pending' = pending
                         ELSE rpc' = "idle" /\ pending' = None
    /\ UNCHANGED <<disk, kind, faults, running, last, current, rulesRead, routesRead, sec, up,
                   cache, sessionVars>>

Rejected == kind[rulesRead] = "badRules" \/ kind[routesRead] = "badRoutes"

\* Variant: the rules go live before the routes have been accepted.
PrepareInterleaved ==
    /\ rpc = "prepare"
    /\ rpc' = IF Rejected THEN "idle" ELSE "publishRules"
    /\ sec' = IF kind[rulesRead] # "badRules" /\ kind[routesRead] = "badRoutes"
              THEN [gen |-> sec.gen + 1, ver |-> rulesRead] ELSE sec
    /\ UNCHANGED <<disk, kind, faults, running, last, pending, current, rulesRead, routesRead,
                   up, cache, sessionVars>>

\* Both prepare_reload() calls come before either publication; an exception leaves
\* the fingerprint pending, so the next tick tries again.
Prepare ==
    /\ rpc = "prepare"
    /\ rpc' = IF Rejected THEN "idle" ELSE "publishRules"
    /\ UNCHANGED <<disk, kind, faults, running, last, pending, current, rulesRead, routesRead,
                   sec, up, cache, sessionVars>>

\* Variant: the new rules keep the old generation.
PublishRulesSameGen ==
    /\ rpc = "publishRules" /\ rpc' = "publishRoutes"
    /\ sec' = [sec EXCEPT !.ver = rulesRead]
    /\ UNCHANGED <<disk, kind, faults, running, last, pending, current, rulesRead, routesRead,
                   up, cache, sessionVars>>

\* SecurityRules::publish_reload() counts the generations.
PublishRules ==
    /\ rpc = "publishRules" /\ rpc' = "publishRoutes"
    /\ sec' = [gen |-> sec.gen + 1, ver |-> rulesRead]
    /\ UNCHANGED <<disk, kind, faults, running, last, pending, current, rulesRead, routesRead,
                   up, cache, sessionVars>>

PublishRoutes ==
    /\ rpc = "publishRoutes"
    /\ up' = [gen |-> up.gen + 1, ver |-> routesRead]
    /\ last' = current /\ pending' = None
    /\ rpc' = IF kind[rulesRead] = "off" THEN "off" ELSE "idle"
    /\ UNCHANGED <<disk, kind, faults, running, current, rulesRead, routesRead, sec, cache,
                   sessionVars>>

-----------------------------------------------------------------------------
(* ClientSession: one proxied request *)

Checking(t) == \E s \in Sessions : pc[s] = "check" /\ thread[s] = t

\* snapshot_view_fast(): the generation is read without the lock ...
BeginCheck(s) ==
    /\ pc[s] \in {"new", "recheck"}
    /\ \E t \in Threads : ~Checking(t) /\ thread' = [thread EXCEPT ![s] = t]
    /\ seen' = [seen EXCEPT ![s] = sec.gen]
    /\ pc' = [pc EXCEPT ![s] = "check"]
    /\ UNCHANGED <<disk, kind, reloadVars, sec, up, cache, judged, upGen, route, attempt>>

\* ... and a cache that does not carry it is refreshed under the lock.
View(s) == IF cache[thread[s]].gen = seen[s] THEN cache[thread[s]] ELSE sec

FinishCheck(s) ==
    /\ pc[s] = "check"
    /\ cache' = [cache EXCEPT ![thread[s]] = View(s)]
    /\ judged' = [judged EXCEPT ![s] = View(s)]
    /\ \E verdict \in {"rejected", "allowed"} :
         pc' = [pc EXCEPT ![s] =
                  IF verdict = "rejected" THEN "rejected"
                  ELSE IF judged[s].gen = 0 THEN "compare" ELSE "readGen"]
    /\ UNCHANGED <<disk, kind, reloadVars, sec, up, thread, seen, upGen, route, attempt>>

\* Head of the consistency loop.
Compare(s) ==
    /\ pc[s] = "compare"
    /\ pc' = [pc EXCEPT ![s] = IF judged[s].gen # sec.gen THEN "recheck" ELSE "readGen"]
    /\ UNCHANGED <<disk, kind, reloadVars, sec, up, cache, thread, seen, judged, upGen,
                   route, attempt>>

ReadRouteGen(s) ==
    /\ pc[s] = "readGen"
    /\ upGen' = [upGen EXCEPT ![s] = up.gen]
    /\ pc' = [pc EXCEPT ![s] = "route"]
    /\ UNCHANGED <<disk, kind, reloadVars, sec, up, cache, thread, seen, judged, route,
                   attempt>>

Route(s) ==
    /\ pc[s] = "route"
    /\ route' = [route EXCEPT ![s] = up.ver]
    /\ pc' = [pc EXCEPT ![s] = "verifyRoutes"]
    /\ UNCHANGED <<disk, kind, reloadVars, sec, up, cache, thread, seen, judged, upGen,
                   attempt>>

\* Variant: the last attempt is not the last.
RetryLax(s) ==
    /\ route' = [route EXCEPT ![s] = None]
    /\ attempt' = [attempt EXCEPT ![s] = @ + 1]
    /\ pc' = [pc EXCEPT ![s] = IF attempt[s] < MaxAttempts THEN "compare" ELSE "notfound"]

\* upstream.reset() and the next iteration, or 404 after the last one.
Retry(s) ==
    /\ route' = [route EXCEPT ![s] = None]
    /\ attempt' = [attempt EXCEPT ![s] = @ + 1]
    /\ pc' = [pc EXCEPT ![s] = IF attempt[s] + 1 < MaxAttempts THEN "compare"
                                                              ELSE "notfound"]

VerifyRoutes(s) ==
    /\ pc[s] = "verifyRoutes"
    /\ IF up.gen = upGen[s]
       THEN pc' = [pc EXCEPT ![s] = "verifyRules"] /\ UNCHANGED <<route, attempt>>
       ELSE Retry(s)
    /\ UNCHANGED <<disk, kind, reloadVars, sec, up, cache, thread, seen, judged, upGen>>

\* Variant: only the routes are verified.
VerifyRulesNot(s) ==
    /\ pc[s] = "verifyRules"
    /\ pc' = [pc EXCEPT ![s] = "proxy"]
    /\ UNCHANGED <<disk, kind, reloadVars, sec, up, cache, thread, seen, judged, upGen,
                   route, attempt>>

\* The table may have had no route for the path.
VerifyRules(s) ==
    /\ pc[s] = "verifyRules"
    /\ IF sec.gen = judged[s].gen
       THEN /\ \E outcome \in {"proxy", "notfound"} : pc' = [pc EXCEPT ![s] = outcome]
            /\ UNCHANGED <<route, attempt>>
       ELSE Retry(s)
    /\ UNCHANGED <<disk, kind, reloadVars, sec, up, cache, thread, seen, judged, upGen>>

-----------------------------------------------------------------------------
ReloadStep ==
    \/ Tick \/ LoadRules \/ LoadRoutes \/ ReadFails \/ VerifyLoad \/ Prepare
    \/ PublishRules \/ PublishRoutes

SessionStep(s) ==
    \/ BeginCheck(s) \/ FinishCheck(s) \/ Compare(s) \/ ReadRouteGen(s) \/ Route(s)
    \/ VerifyRoutes(s) \/ VerifyRules(s)

Next ==
    \/ \E k \in Kinds : Edit(k)
    \/ Start \/ Stop
    \/ ReloadStep
    \/ \E s \in Sessions : SessionStep(s)

Spec == Init /\ [][Next]_vars

\* The timer keeps firing: schedule() is called at the end of every handler, also
\* after an exception.
FairSpec == Spec /\ WF_vars(ReloadStep)

-----------------------------------------------------------------------------
(* Properties *)

\* Types of the published state and of the requests' locals.
TypeOK ==
    /\ disk \in Versions /\ kind \in [Versions -> Kinds] /\ faults \in 0..MaxFaults
    /\ running \in BOOLEAN
    /\ last \in Versions \cup {None} /\ pending \in Versions \cup {None}
    /\ rpc \in ReloadPCs /\ current \in Versions
    /\ rulesRead \in Versions /\ routesRead \in Versions
    /\ sec \in Published /\ up \in Published
    /\ cache \in [Threads -> Published]
    /\ pc \in [Sessions -> SessionPCs] /\ thread \in [Sessions -> Threads]
    /\ seen \in [Sessions -> Nat] /\ judged \in [Sessions -> Published]
    /\ upGen \in [Sessions -> Nat] /\ route \in [Sessions -> Versions \cup {None}]
    /\ attempt \in [Sessions -> 0..MaxAttempts]

\* "this guarantees every request is judged by rules at least as new as the route
\* table it is matched against (never the reverse)": a proxied request.
RulesNotOlderThanRoutes ==
    \A s \in Sessions : pc[s] = "proxy" => judged[s].ver >= route[s]

\* Between two reloads the live rules and the live routes are those of one and the
\* same usable state of config.d/: neither half of a rejected or half-written
\* configuration is ever published.
OneConfigurationIsLive ==
    rpc # "publishRoutes" => /\ sec.ver = up.ver
                             /\ kind[sec.ver] \in {"good", "off"}

Views == {sec} \cup {cache[t] : t \in Threads} \cup {judged[s] : s \in Sessions}

\* A generation names one snapshot, whatever thread cached it: comparing
\* generations, as the session does, is comparing rules.
GenerationIdentifiesRules ==
    \A a, b \in Views : a.gen = b.gen => a.ver = b.ver

\* A usable change made after start() goes live unless it is overwritten first or
\* the reloading was switched off, whatever loads failed on the way.
ChangesGoLive ==
    \A v \in Versions :
        (running /\ disk = v /\ last # v)
            ~> \/ disk # v \/ ~running \/ rpc = "off"
               \/ kind[v] \in {"badRules", "badRoutes"}
               \/ sec.ver = v /\ up.ver = v
=============================================================================
