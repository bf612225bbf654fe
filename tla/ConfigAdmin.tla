----------------------------- MODULE ConfigAdmin -----------------------------
(***************************************************************************)
(* The administration routes of the configuration centre                   *)
(* (src/app/admin/admin_config_routes.cpp and admin_history_*.cpp).  Each  *)
(* request is a chain of Redis commands; other administrators, the history *)
(* service and the nodes run between any two of them.  What is sent with   *)
(* the last command was decided on the replies of the earlier ones.        *)
(*                                                                         *)
(* Requests refused before their first command (wrong method, malformed    *)
(* body, limits, rejected by the dry run) change nothing and are not       *)
(* actions: FileSets holds sets the validation accepts.                    *)
(***************************************************************************)
EXTENDS ConfigHistory

CONSTANTS
    Admins,         \* administrators with a request in progress
    AdminOps        \* the requests each of them makes

VARIABLE adm

NoServer == "none"

\* base is the version the client's page shows, current when the request is
\* made and possibly no longer when its commands run; target is the version
\* to roll back to, to show, or the orphan; files and meta are what was read so
\* far, other the second set of a comparison, rows the versions of a list.
Free ==
    [pc |-> "idle", op |-> "none", srv |-> NoServer, base |-> 0, target |-> 0,
     files |-> NoFiles, meta |-> NoMeta, indexed |-> FALSE, attempt |-> 0,
     other |-> NoFiles, rows |-> {}]

AdminInit == adm = [a \in Admins |-> Free]

Begin(a, request) ==
    /\ adm[a].pc = "idle"
    /\ request.op \in AdminOps[a]
    /\ adm' = [adm EXCEPT ![a] = request]
    /\ UNCHANGED <<storeVars, svc>>

\* the chain goes on with what it knows now, or ends without effect
Goto(a, q) == adm' = [adm EXCEPT ![a] = q]
Leave(a) == adm' = [adm EXCEPT ![a] = Free]

\* GET replies, of type files, end the request when they fail
ReadStep(a, pc, good, q) ==
    /\ adm[a].pc = pc
    /\ \E ok \in BOOLEAN :
        /\ Read(ok)
        /\ IF ok /\ good THEN Goto(a, q) ELSE Leave(a)
    /\ UNCHANGED svc

-----------------------------------------------------------------------------
(* GET /admin/config: version, snapshot (or mirror), hash, version again.  *)

StartConfig(a) ==
    Begin(a, [Free EXCEPT !.op = "get", !.pc = "version"])

ReadConfigVersion(a) ==
    ReadStep(a, "version", TRUE,
        [adm[a] EXCEPT !.pc = "files", !.base = store.version])

SnapAt(v) == IF v = 0 THEN NoFiles ELSE store.snap[v]

ReadConfigFiles(a) ==
    LET files == SnapAt(adm[a].base) IN
    ReadStep(a, "files", TRUE,
        IF files = NoFiles THEN [adm[a] EXCEPT !.pc = "mirror"]
                           ELSE [adm[a] EXCEPT !.pc = "hash", !.files = files])

ReadConfigMirror(a) ==
    ReadStep(a, "mirror", store.mirror # NoFiles,
        [adm[a] EXCEPT !.pc = IF Compat THEN "verify" ELSE "hash",
                       !.files = store.mirror])

VerifyConfigHash(a) ==
    ReadStep(a, "hash",
        /\ adm[a].base > 0
        /\ store.meta[adm[a].base] # NoMeta
        /\ store.meta[adm[a].base].hash = adm[a].files,
        [adm[a] EXCEPT !.pc = "verify"])

\* a version that moved is read once more from the start
VerifyConfigVersion(a) ==
    ReadStep(a, "verify",
        store.version = adm[a].base \/ adm[a].attempt = 0,
        IF store.version = adm[a].base THEN [adm[a] EXCEPT !.pc = "answered"]
        ELSE [adm[a] EXCEPT !.pc = "version", !.attempt = 1, !.files = NoFiles,
                            !.base = 0])

-----------------------------------------------------------------------------
(* GET .../history, .../history/<version> and .../history/<version>/diff.  *)

StartList(a) == Begin(a, [Free EXCEPT !.op = "list", !.pc = "list"])

\* one page holds the whole list
ReadHistoryList(a) ==
    ReadStep(a, "list", TRUE,
        [adm[a] EXCEPT !.pc = "answered", !.rows = Listed(store)])

\* start_path: a version, and for a comparison the one to compare with, which
\* is the current one (0) unless the request names it; a version that does not
\* exist yet is not found
StartHistoryPath(a) ==
    \E op \in {"detail", "diff"}, v \in 1 .. store.version, to \in 0 .. store.version :
        /\ op = "detail" => to = 0
        /\ Begin(a, [Free EXCEPT !.op = op, !.pc = "detail", !.target = v, !.base = to])

\* a record that exists and whose files have the hash of its metadata
Sound(record) == record.current > 0 /\ record.meta.hash = record.files

ReadHistoryDetail(a) ==
    LET record == Detail(store, adm[a].target) IN
    /\ adm[a].op = "detail"
    /\ ReadStep(a, "detail", Sound(record),
                [adm[a] EXCEPT !.pc = "answered", !.files = record.files])

ReadDiffSource(a) ==
    LET q      == adm[a]
        record == Detail(store, q.target)
        to     == IF q.base = 0 THEN record.current ELSE q.base
    IN  /\ q.op = "diff"
        /\ ReadStep(a, "detail", Sound(record),
            IF to = q.target
            THEN [q EXCEPT !.pc = "answered", !.files = record.files, !.base = to,
                           !.other = record.files]
            ELSE [q EXCEPT !.pc = "diff", !.files = record.files, !.base = to])

\* the store may have moved on since the source was read
ReadDiffTarget(a) ==
    LET record == Detail(store, adm[a].base) IN
    ReadStep(a, "diff", Sound(record),
        [adm[a] EXCEPT !.pc = "answered", !.other = record.files])

-----------------------------------------------------------------------------
(* POST /admin/config and POST /admin/config/rollback.                     *)

\* an inconsistent history freezes saves and rollbacks
Frozen(s) == svc[s].inconsistent

SaveConfig(a) ==
    \E s \in Servers, files \in FileSets :
        /\ ~Frozen(s)
        /\ store.version < MaxVersion
        /\ Begin(a, [Free EXCEPT !.op = "save", !.pc = "submit",
                                 !.base = store.version, !.files = files])

StartRollback(a) ==
    \E s \in Servers, target \in 1 .. store.version :
        /\ ~Frozen(s)
        /\ store.version < MaxVersion
        /\ Begin(a, [Free EXCEPT !.op = "rollback", !.pc = "detail",
                                 !.base = store.version, !.target = target])

\* read_detail and prepare_rollback
PrepareRollback(a) ==
    LET record == Detail(store, adm[a].target) IN
    /\ adm[a].op = "rollback"
    /\ ReadStep(a, "detail",
        /\ record.current > 0
        /\ record.current = adm[a].base
        /\ record.meta.hash = record.files,
        [adm[a] EXCEPT !.pc = "submit", !.files = record.files, !.meta = record.meta])

\* the script runs and its reply comes back; a code above 0 is the version
Submitted(a, script) ==
    /\ \E code \in Replies(script) :
        /\ Eval(script, code)
        /\ IF code > 0
           THEN Goto(a, [adm[a] EXCEPT !.pc = "answered", !.meta = NoMeta])
           ELSE Leave(a)
    /\ UNCHANGED svc

\* a plausible bug: a lost reply is reported as success
SubmitSaveOptimistic(a) ==
    /\ adm[a].pc = "submit"
    /\ adm[a].op = "save"
    /\ LET script == SaveScript(store, adm[a].base, adm[a].files,
                                MetaOf(adm[a].files))
       IN  \E code \in Replies(script) : Eval(script, code)
    /\ Goto(a, [adm[a] EXCEPT !.pc = "answered", !.meta = NoMeta])
    /\ UNCHANGED svc

\* the save script and handle_save_reply
SubmitSave(a) ==
    /\ adm[a].pc = "submit"
    /\ adm[a].op = "save"
    /\ Submitted(a, SaveScript(store, adm[a].base, adm[a].files,
                               MetaOf(adm[a].files)))

\* submit_rollback and handle_rollback_reply
SubmitRollback(a) ==
    LET q == adm[a] IN
    /\ q.pc = "submit"
    /\ q.op = "rollback"
    /\ Submitted(a, RollbackScript(store, q.base, q.target, q.files,
                                   q.meta, MetaOf(q.files)))

-----------------------------------------------------------------------------
(* POST /admin/config/repair/..., .../migration and .../orphan.            *)

\* the three repairs: which of them may run, and what each reads first
RepairPlans ==
    [snapshot  |-> [allowed |-> TRUE,   first |-> "repairmirror"],
     mirror    |-> [allowed |-> TRUE,   first |-> "detail"],
     migration |-> [allowed |-> Compat, first |-> "repairmirror"]]

StartRepair(a) ==
    \E s \in Servers, op \in DOMAIN RepairPlans :
        /\ store.version > 0
        /\ RepairPlans[op].allowed
        /\ Begin(a, [Free EXCEPT !.op = op, !.srv = s, !.base = store.version,
                                 !.pc = RepairPlans[op].first])

ReadRepairMirror(a) ==
    ReadStep(a, "repairmirror", store.mirror # NoFiles,
        IF adm[a].op = "migration"
        THEN [adm[a] EXCEPT !.pc = "repair", !.files = store.mirror,
                            !.meta = MetaOf(store.mirror)]
        ELSE [adm[a] EXCEPT !.pc = "repairmeta", !.files = store.mirror])

ReadRepairMeta(a) ==
    LET meta == store.meta[adm[a].base] IN
    ReadStep(a, "repairmeta", meta # NoMeta /\ meta.hash = adm[a].files,
        [adm[a] EXCEPT !.pc = "repair", !.meta = meta])

ReadRepairDetail(a) ==
    LET record == Detail(store, adm[a].base) IN
    /\ adm[a].op = "mirror"
    /\ ReadStep(a, "detail",
        /\ record.current = adm[a].base
        /\ record.meta.hash = record.files,
        [adm[a] EXCEPT !.pc = "repair", !.files = record.files, !.meta = record.meta])

StartOrphanResolution(a) ==
    \E s \in Servers, op \in {"restore", "delete"}, target \in Version :
        /\ target > store.version
        /\ Occupied(store, target)
        /\ Begin(a, [Free EXCEPT !.op = op, !.pc = "inspect", !.srv = s,
                                 !.base = store.version, !.target = target])

\* orphan_inspect_script and prepare_orphan_resolution
PrepareOrphanResolution(a) ==
    LET q        == adm[a]
        trace    == Trace(store, q.target)
        observed == svc[q.srv].observed
        high     == Max({MachineHigh(store), observed})
    IN  ReadStep(a, "inspect",
            /\ store.version = q.base
            /\ IF q.op = "restore"
               THEN /\ Complete(store, q.target)
                    /\ Top(store) = q.target
                    /\ high <= q.target
                    /\ trace.meta.hash = trace.files
               ELSE /\ q.target = store.version + 1
                    /\ high <= store.version
                    /\ Occupied(store, q.target),
            [q EXCEPT !.pc = "repair", !.files = trace.files, !.meta = trace.meta,
                      !.indexed = trace.indexed])

RepairScript(q) ==
    CASE q.op = "snapshot"  -> SnapshotRepairScript(store, q.base, q.meta, q.files)
      [] q.op = "mirror"    -> MirrorRebuildScript(store, q.base, q.meta, q.files)
      [] q.op = "migration" -> MigrationScript(store, q.base, q.meta, q.files)
      [] q.op = "restore"   -> RestoreVersionScript(store, q.base, q.target,
                                                    q.meta, q.files)
      [] q.op = "delete"    -> DeleteOrphanScript(store, q.base, q.target,
                [files |-> q.files, meta |-> q.meta, indexed |-> q.indexed])

\* submit_repair, submit_restore_version, submit_delete_orphan; a success is
\* reported after a fresh health check (finish_repair_success)
SubmitRepair(a) ==
    /\ adm[a].pc = "repair"
    /\ LET script == RepairScript(adm[a]) IN
       \E code \in Replies(script) :
        /\ Eval(script, code)
        /\ IF code > 0
           THEN /\ Goto(a, [Free EXCEPT !.pc = "refresh", !.srv = adm[a].srv])
                /\ svc' = [svc EXCEPT ![adm[a].srv] = RequestHealthCheck(@, a)]
           ELSE Leave(a) /\ UNCHANGED svc

RespondAfterRefresh(a) ==
    /\ adm[a].pc = "refresh"
    /\ ~Waiting(adm[a].srv, a)
    /\ Leave(a)
    /\ UNCHANGED <<storeVars, svc>>

\* the answer of a read, a save or a rollback has been shown
Close(a) ==
    /\ adm[a].pc = "answered"
    /\ Leave(a)
    /\ UNCHANGED <<storeVars, svc>>

-----------------------------------------------------------------------------
Request(a) ==
    \/ StartConfig(a)
    \/ StartList(a)
    \/ StartHistoryPath(a)
    \/ SaveConfig(a)
    \/ StartRollback(a)
    \/ StartRepair(a)
    \/ StartOrphanResolution(a)

AdminStep(a) ==
    \/ ReadConfigVersion(a)
    \/ ReadConfigFiles(a)
    \/ ReadConfigMirror(a)
    \/ VerifyConfigHash(a)
    \/ VerifyConfigVersion(a)
    \/ ReadHistoryList(a)
    \/ ReadHistoryDetail(a)
    \/ ReadDiffSource(a)
    \/ ReadDiffTarget(a)
    \/ PrepareRollback(a)
    \/ SubmitSave(a)
    \/ SubmitRollback(a)
    \/ ReadRepairMirror(a)
    \/ ReadRepairMeta(a)
    \/ ReadRepairDetail(a)
    \/ PrepareOrphanResolution(a)
    \/ SubmitRepair(a)
    \/ RespondAfterRefresh(a)
    \/ Close(a)
=============================================================================
