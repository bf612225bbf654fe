---------------------------- MODULE ConfigHistory ----------------------------
(***************************************************************************)
(* ConfigHistoryService (src/app/config_history_service.hpp): the health   *)
(* check of the published history, the migration of data from releases     *)
(* without history, and the deletion of old versions.  Every gateway       *)
(* process runs one; inside a process one chain of commands is in flight   *)
(* and requests that arrive meanwhile wait for the next chain.             *)
(***************************************************************************)
EXTENDS ConfigStore

CONSTANTS
    Servers,        \* gateway processes
    Compat,         \* read_mode = "compat" (otherwise "required")
    AutoMigrate     \* auto_migrate_legacy

ASSUME HistoryAssumption == Compat \in BOOLEAN /\ AutoMigrate \in BOOLEAN

\* svc[s]: pc is the command in flight, pending and serving the callers of
\* request_health_check waiting for the next and for this chain.
VARIABLE svc

Timer == "timer"

HistoryInit ==
    svc = [s \in Servers |->
             [pc |-> "idle", inconsistent |-> TRUE, observed |-> 0,
              pending |-> {}, serving |-> {},
              current |-> 0, cutoff |-> 0, todo |-> {}, files |-> NoFiles]]

-----------------------------------------------------------------------------
\* a plausible bug: the waiting callers are not handed to the chain
LaunchHealthCheckAlone(r) == [r EXCEPT !.pc = "health"]

LaunchHealthCheck(r) ==
    [r EXCEPT !.pc = "health", !.serving = r.pending, !.pending = {}]

RequestHealthCheck(r, who) ==
    LET queued == [r EXCEPT !.pending = @ \cup {who}]
    IN  IF r.pc = "idle" THEN LaunchHealthCheck(queued) ELSE queued

\* the completions run, then the callers that came meanwhile are served
FinishHealthCheck(r) ==
    LET done == [r EXCEPT !.pc = "idle", !.serving = {}, !.current = 0,
                          !.cutoff = 0, !.todo = {}, !.files = NoFiles]
    IN  IF r.pending = {} THEN done ELSE LaunchHealthCheck(done)

MarkInconsistent(r) == FinishHealthCheck([r EXCEPT !.inconsistent = TRUE])

Waiting(s, who) == who \in svc[s].pending \cup svc[s].serving

-----------------------------------------------------------------------------
\* schedule_after: the timer is armed again by its own completion
TimerFires(s) ==
    /\ ~Waiting(s, Timer)
    /\ svc' = [svc EXCEPT ![s] = RequestHealthCheck(@, Timer)]
    /\ UNCHANGED storeVars

Integrity(s) ==
    LET bare == NoHistory(s) /\ s.snap[s.version] = NoFiles IN
    IF s.version = 0 THEN "ok"
    ELSE IF bare /\ s.version = 1 /\ s.mirror = NoFiles THEN "legacy-empty"
    ELSE IF bare /\ s.mirror # NoFiles THEN "legacy"
    ELSE IF HistoryFit(s) THEN "ok"
    ELSE "incomplete"

\* the decisions taken on the reply of health_script
Judged(r, s) ==
    LET seen      == [r EXCEPT !.observed = Max({@, s.version})]
        integrity == Integrity(s)
        healthy   == [seen EXCEPT !.inconsistent = FALSE]
    IN  IF s.version < Max({seen.observed, Top(s), MachineHigh(s)})
        THEN MarkInconsistent(seen)
        ELSE IF integrity = "legacy" /\ AutoMigrate
        THEN [seen EXCEPT !.pc = "migrate", !.current = s.version]
        ELSE IF integrity = "incomplete" \/ (integrity # "ok" /\ ~Compat)
        THEN MarkInconsistent(seen)
        ELSE IF s.version = 0 THEN FinishHealthCheck(healthy)
        ELSE [healthy EXCEPT !.pc = "candidates", !.current = s.version]

\* Heartbeats older than machine_ttl are removed by the script itself.
HealthCheck(s) ==
    /\ svc[s].pc = "health"
    /\ \/ /\ Read(FALSE)
          /\ svc' = [svc EXCEPT ![s] = FinishHealthCheck(@)]
       \/ \E stale \in SUBSET {m \in Machines : store.machines[m] > 0} :
            /\ store' = [store EXCEPT !.machines =
                            [m \in Machines |-> IF m \in stale THEN 0 ELSE @[m]]]
            /\ svc' = [svc EXCEPT ![s] = Judged(@, store')]
            /\ UNCHANGED <<published, clock, faults>>

MigrateLegacy(s) ==
    /\ svc[s].pc = "migrate"
    /\ \E ok \in BOOLEAN :
        /\ Read(ok)
        /\ svc' = [svc EXCEPT ![s] =
                    IF ok /\ store.mirror # NoFiles
                    THEN [@ EXCEPT !.pc = "publish", !.files = store.mirror]
                    ELSE MarkInconsistent(@)]

\* -6: another process may have migrated first, so everything is read again
PublishLegacySnapshot(s) ==
    /\ svc[s].pc = "publish"
    /\ LET script == MigrationScript(store, svc[s].current,
                                     MetaOf(svc[s].files), svc[s].files)
       IN  \E code \in Replies(script) :
        /\ Eval(script, code)
        /\ svc' = [svc EXCEPT ![s] =
                    IF code \in {svc[s].current, -6}
                    THEN [@ EXCEPT !.pc = "health", !.files = NoFiles,
                                   !.current = 0]
                    ELSE MarkInconsistent(@)]

ReadGcCandidates(s) ==
    /\ svc[s].pc = "candidates"
    /\ \E ok \in BOOLEAN :
        /\ Read(ok)
        /\ LET todo == GcCandidatesScript(store, svc[s].current, clock) IN
           svc' = [svc EXCEPT ![s] =
                    IF ok /\ todo # {}
                    THEN [@ EXCEPT !.pc = "delete", !.todo = todo,
                                   !.cutoff = clock]
                    ELSE FinishHealthCheck(@)]

\* A failed deletion is logged and the next candidate is tried.
DeleteNextCandidate(s) ==
    /\ svc[s].pc = "delete"
    /\ LET candidate == Min(svc[s].todo)
           rest == svc[s].todo \ {candidate}
           script == GcDeleteScript(store, candidate, svc[s].cutoff)
       IN  \E code \in Replies(script) :
            /\ Eval(script, code)
            /\ svc' = [svc EXCEPT ![s] =
                        IF code = -5 THEN MarkInconsistent(@)
                        ELSE IF rest = {} THEN FinishHealthCheck(@)
                        ELSE [@ EXCEPT !.todo = rest]]

HistoryStep(s) ==
    \/ HealthCheck(s)
    \/ MigrateLegacy(s)
    \/ PublishLegacySnapshot(s)
    \/ ReadGcCandidates(s)
    \/ DeleteNextCandidate(s)
=============================================================================
