----------------------------- MODULE ConfigSync ------------------------------
(***************************************************************************)
(* ConfigSyncService on every node (src/app/config_sync_*.cpp): a periodic *)
(* chain of Redis reads, the application of the files read to the local    *)
(* directory, the state file, and the heartbeat.  The process may stop     *)
(* between any two steps; the files and the state file survive.            *)
(*                                                                         *)
(* Files and state are written to a temporary name and renamed, so one     *)
(* file or the state changes atomically; the set of files does not.  The   *)
(* stream is not asked whether it could write: on a full disk a beginning  *)
(* of the text is renamed into place and the write counts as done.         *)
(***************************************************************************)
EXTENDS ConfigAdmin

CONSTANTS
    Refused,        \* contents that are not fit for a managed file
    Stray,          \* names of .ini files that are not fit for a managed file
    Torn,           \* the content of a file of which only a beginning was written
    NoHash          \* a hash of which only a beginning was written

VARIABLES
    node,   \* the chain in flight on each node
    disk    \* files: the managed files; st: the state file

syncVars == <<node, disk>>

Idle == [pc |-> "idle", ver |-> 0, files |-> NoFiles, degraded |-> FALSE,
         failed |-> {}, cut |-> {}]

\* load_state without a file.  managed and ok are managed_files and last_ok; the
\* failures are left out: they only ever accompany the status "partial".
NoState == [exists |-> FALSE, synced |-> 0, status |-> "ok", managed |-> NoFiles,
            ok |-> NoFiles]

SyncInit ==
    /\ node = [n \in Machines |-> Idle]
    /\ disk \in [Machines -> {[files |-> f, st |-> NoState] : f \in LocalSets}]

Step(n, x) == node' = [node EXCEPT ![n] = x]
Finish(n) == node' = [node EXCEPT ![n] = Idle]

-----------------------------------------------------------------------------
(* write_state and load_state: the lines synced_version, status, file.*    *)
(* and last_ok.*, in this order.                                           *)

\* what load_state finds of a number whose last digits are missing
Shorter(v) == {w \in 0 .. v : \E k \in 0 .. v : w = v \div 10^k}

\* the lines of m before the cut, of which the last may lack the end of its hash
Beginnings(m) ==
    LET Prefixes == {S \in SUBSET DOMAIN m :
                        \A f \in S, g \in DOMAIN m : g < f => g \in S}
        Last(S) == {f \in S : \A g \in S : g <= f}
    IN  UNION {{[f \in S |-> IF f \in cut THEN NoHash ELSE m[f]] : cut \in {{}, Last(S)}} :
                  S \in Prefixes}

\* what is loaded when only a beginning of st was written
ShortStates(st) ==
    {[NoState EXCEPT !.exists = TRUE, !.synced = v] : v \in Shorter(st.synced)}
    \cup {[NoState EXCEPT !.exists = TRUE, !.synced = st.synced, !.status = "cut"]}
    \cup {[st EXCEPT !.managed = m, !.ok = NoFiles] : m \in Beginnings(st.managed)}
    \cup {[st EXCEPT !.ok = m] : m \in Beginnings(st.ok)}

\* done is the result of write_state.  A text that is already in the file is not
\* written again; the failures of a partial state may differ.
WriteState(n, st, done) ==
    \/ /\ done
       /\ disk' = [disk EXCEPT ![n].st = st]
       /\ UNCHANGED faults
    \/ /\ st # disk[n].st \/ st.status = "partial"
       /\ \/ /\ done
             /\ Fault("full")
             /\ \E short \in ShortStates(st) : disk' = [disk EXCEPT ![n].st = short]
          \/ ~done /\ Fault("write") /\ UNCHANGED disk

-----------------------------------------------------------------------------
(* sync_once.                                                              *)

\* validate_managed_file
Acceptable(f, content) == f \notin Stray /\ content \notin Refused

\* collect_local_managed_files: one unfit file and there is no result
Collected(n) == \A f \in DOMAIN disk[n].files : Acceptable(f, disk[n].files[f])

HasSeedEligibility(n) ==
    LET st == disk[n].st IN
    st.exists => st.status = "ok" /\ Collected(n) /\ disk[n].files = st.ok

\* a plausible bug: the files are not compared with the state file
LocalMatchesByVersion(n, v) ==
    disk[n].st.synced = v /\ disk[n].st.status = "ok"

LocalMatches(n, v) ==
    LET st == disk[n].st IN
    /\ st.synced = v
    /\ st.status = "ok" /\ st.managed = st.ok
    /\ Collected(n)
    /\ disk[n].files = st.ok

\* A tick reads the version; one below the local version is ignored.
SyncOnce(n) ==
    LET v == store.version IN
    /\ node[n].pc = "idle"
    /\ \/ Read(FALSE) /\ UNCHANGED node
       \/ /\ Read(TRUE)
          /\ IF v = 0
             THEN IF /\ HasSeedEligibility(n)
                     /\ Collected(n)
                     /\ disk[n].files # NoFiles \/ Compat
                  THEN Step(n, [node[n] EXCEPT !.pc = "seed", !.files = disk[n].files])
                  ELSE Finish(n)
             ELSE IF v < disk[n].st.synced THEN Finish(n)
             ELSE Step(n, [node[n] EXCEPT
                            !.pc = IF LocalMatches(n, v) THEN "beat" ELSE "files",
                            !.ver = v])
    /\ UNCHANGED disk

\* code 1: the state is written, then the heartbeat; 0: another node seeded
SeedIfEligible(n) ==
    /\ node[n].pc = "seed"
    /\ LET script == SeedScript(store, node[n].files, MetaOf(node[n].files)) IN
       \E code \in Replies(script) :
        /\ Eval(script, code)
        /\ IF code = 1
           THEN Step(n, [node[n] EXCEPT !.pc = "seeded", !.ver = 1])
           ELSE Finish(n)
    /\ UNCHANGED disk

Clean(v, files, degraded) ==
    [exists |-> TRUE, synced |-> v, status |-> IF degraded THEN "partial" ELSE "ok",
     managed |-> files, ok |-> files]

WriteSeededState(n) ==
    /\ node[n].pc = "seeded"
    /\ \E done \in BOOLEAN :
        /\ WriteState(n, Clean(1, node[n].files, FALSE), done)
        /\ IF done THEN Step(n, [node[n] EXCEPT !.pc = "beat"]) ELSE Finish(n)
    /\ UNCHANGED <<store, published, clock>>

-----------------------------------------------------------------------------
(* Reading the files of a version.                                         *)

\* record_history_failure: the state turns partial, the heartbeat follows
RecordHistoryFailure(n) ==
    /\ node[n].pc = "record"
    /\ \E done \in BOOLEAN :
        WriteState(n, [disk[n].st EXCEPT !.exists = TRUE, !.status = "partial"], done)
    /\ Step(n, [node[n] EXCEPT !.pc = "beat"])
    /\ UNCHANGED <<store, published, clock>>

ReadRemoteFiles(n) ==
    LET files == store.snap[node[n].ver] IN
    /\ node[n].pc = "files"
    /\ \/ Read(FALSE) /\ Finish(n)
       \/ /\ Read(TRUE)
          /\ Step(n, IF files = NoFiles
                     THEN [node[n] EXCEPT !.pc = "mirror"]
                     ELSE [node[n] EXCEPT !.pc = "hash", !.files = files])
    /\ UNCHANGED disk

\* The mirror replaces a missing snapshot: unverified in compat mode.
ReadCurrentMirror(n) ==
    /\ node[n].pc = "mirror"
    /\ \E ok \in BOOLEAN :
        /\ Read(ok)
        /\ Step(n, IF ok /\ store.mirror # NoFiles
                   THEN [node[n] EXCEPT !.pc = IF Compat THEN "verify" ELSE "hash",
                                        !.degraded = ~Compat, !.files = store.mirror]
                   ELSE [node[n] EXCEPT !.pc = "record"])
    /\ UNCHANGED disk

HashMatches(n) ==
    /\ store.meta[node[n].ver] # NoMeta
    /\ store.meta[node[n].ver].hash = node[n].files

VerifySnapshotHash(n) ==
    /\ node[n].pc = "hash"
    /\ \E ok \in BOOLEAN :
        /\ Read(ok)
        /\ Step(n, IF ok /\ HashMatches(n)
                   THEN [node[n] EXCEPT !.pc = "verify"]
                   ELSE [node[n] EXCEPT !.pc = "record", !.files = NoFiles,
                                        !.degraded = FALSE])
    /\ UNCHANGED disk

\* files of the version that are not written and make the result partial
Unfit(n) == {f \in DOMAIN node[n].files : ~Acceptable(f, node[n].files[f])}

VerifyRemoteVersion(n) ==
    /\ node[n].pc = "verify"
    /\ \E ok \in BOOLEAN :
        /\ Read(ok)
        /\ IF ok /\ store.version = node[n].ver
           THEN Step(n, [node[n] EXCEPT !.pc = "apply", !.failed = Unfit(n)])
           ELSE Finish(n)
    /\ UNCHANGED disk

-----------------------------------------------------------------------------
(* apply_remote_files.                                                     *)

\* files still to write; each is written once, whatever became of it
Changed(n) ==
    {f \in DOMAIN node[n].files \ (node[n].failed \cup node[n].cut) :
        f \in DOMAIN disk[n].files => disk[n].files[f] # node[n].files[f]}

\* collect_local_managed_file_names looks at names only, and passes over the stray
\* ones that keep collect_local_managed_files from a result
LocalNames(n) == DOMAIN disk[n].files \ Stray

Stale(n) == LocalNames(n) \ DOMAIN node[n].files

\* The next file in name order is written, whole or not, or removed once all
\* are written.
Replaced(n, f, whole) ==
    IF f \in DOMAIN node[n].files
    THEN (f :> IF whole THEN node[n].files[f] ELSE Torn) @@ disk[n].files
    ELSE [g \in DOMAIN disk[n].files \ {f} |-> disk[n].files[g]]

\* Writes that failed stop the removals; removals that failed stop the state.
Pending(n) ==
    IF Changed(n) # {} THEN Changed(n)
    ELSE IF node[n].failed \cap DOMAIN node[n].files = {}
    THEN Stale(n) \ node[n].failed
    ELSE {}

ApplyFile(n) ==
    /\ node[n].pc = "apply"
    /\ Pending(n) # {}
    /\ LET f == Min(Pending(n)) IN
       \/ /\ disk' = [disk EXCEPT ![n].files = Replaced(n, f, TRUE)]
          /\ UNCHANGED <<node, faults>>
       \/ /\ f \in DOMAIN node[n].files
          /\ Fault("full")
          /\ disk' = [disk EXCEPT ![n].files = Replaced(n, f, FALSE)]
          /\ Step(n, [node[n] EXCEPT !.cut = @ \cup {f}])
       \/ /\ Fault("write")
          /\ Step(n, [node[n] EXCEPT !.failed = @ \cup {f}])
          /\ UNCHANGED disk
    /\ UNCHANGED <<store, published, clock>>

\* a plausible bug: a partial application already advances the version
AppliedStateAdvances(n) ==
    [Clean(node[n].ver, node[n].files, node[n].degraded) EXCEPT
        !.status = IF node[n].failed = {} THEN "ok" ELSE "partial",
        !.ok = disk[n].files]

\* The state of a complete application, or the old one marked partial.
AppliedState(n) ==
    IF node[n].failed = {}
    THEN Clean(node[n].ver, node[n].files, node[n].degraded)
    ELSE [disk[n].st EXCEPT !.exists = TRUE, !.status = "partial"]

WriteAppliedState(n) ==
    /\ node[n].pc = "apply"
    /\ Pending(n) = {}
    /\ \E done \in BOOLEAN : WriteState(n, AppliedState(n), done)
    /\ Step(n, [node[n] EXCEPT !.pc = "beat", !.files = NoFiles, !.failed = {},
                               !.cut = {}, !.degraded = FALSE])
    /\ UNCHANGED <<store, published, clock>>

\* The heartbeat names the remote version, applied or not; a failure is logged.
Heartbeat(n) ==
    /\ node[n].pc = "beat"
    /\ \/ /\ store' = [store EXCEPT !.machines[n] = node[n].ver]
          /\ UNCHANGED <<published, clock, faults>>
       \/ Read(FALSE)
    /\ Finish(n)
    /\ UNCHANGED disk

-----------------------------------------------------------------------------
(* The environment of a node.                                              *)

\* the process stops and starts again
Crash(n) ==
    /\ node[n].pc # "idle"
    /\ Fault("crash")
    /\ Finish(n)
    /\ UNCHANGED <<store, published, clock, disk>>

\* somebody replaces the local files between two ticks
Drift(n) ==
    /\ node[n].pc = "idle"
    /\ Fault("drift")
    /\ \E f \in DriftSets \ {disk[n].files} : disk' = [disk EXCEPT ![n].files = f]
    /\ UNCHANGED <<store, published, clock, node>>

SyncStep(n) ==
    \/ SyncOnce(n)
    \/ SeedIfEligible(n)
    \/ WriteSeededState(n)
    \/ RecordHistoryFailure(n)
    \/ ReadRemoteFiles(n)
    \/ ReadCurrentMirror(n)
    \/ VerifySnapshotHash(n)
    \/ VerifyRemoteVersion(n)
    \/ ApplyFile(n)
    \/ WriteAppliedState(n)
    \/ Heartbeat(n)
=============================================================================
