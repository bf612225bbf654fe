----------------------------- MODULE ConfigStore -----------------------------
(***************************************************************************)
(* The configuration centre's data in Redis and the Lua scripts that       *)
(* change it (src/app/admin/config_history_scripts.cpp and the scripts of  *)
(* src/app/config_history_service.hpp).  A script is an operator that      *)
(* returns its reply code and the stores its successive writes produce:    *)
(* Redis runs it without interleaving, but does not undo the writes of a   *)
(* script that stops half way.                                             *)
(*                                                                         *)
(* A set of managed files is a function from names to contents.  SHA-256   *)
(* and the 64-bit hash of the state file are taken to be injective, so a   *)
(* hash is the set itself.  The staging keys are deleted before each use   *)
(* and the audit list is never read back; neither is part of the state.    *)
(***************************************************************************)
EXTENDS Integers, Sequences, FiniteSets, FiniteSetsExt, TLC

CONSTANTS
    Machines,       \* nodes that write heartbeats
    FileSets,       \* the non-empty sets of files administrators publish
    LocalSets,      \* sets of files nodes are installed with
    DriftSets,      \* sets somebody may put in their place
    MaxVersion,     \* bound: last version of a run
    Retain,         \* retention_versions
    MaxClock,       \* bound: steps of the clock, one is retention_days long
    Faults,         \* kinds of fault that may happen
    MaxFaults       \* bound: number of faults

ASSUME StoreAssumption ==
    /\ MaxVersion \in Nat \ {0}
    /\ Retain \in Nat \ {0}
    /\ MaxClock \in Nat
    /\ MaxFaults \in Nat
    /\ Faults \subseteq {"error", "abort", "snapshot", "flush",
                         "crash", "drift", "write", "full"}

VARIABLES
    store,      \* the keys asio_owen:config:*
    published,  \* history: what each version was when the version key took it
    clock,
    faults

storeVars == <<store, published, clock, faults>>

Version == 1 .. MaxVersion

\* An absent hash and an absent field of history:meta.
NoFiles == [n \in {} |-> n]
NoMeta == [hash |-> NoFiles, ts |-> 0]

ASSUME FilesAssumption == NoFiles \notin FileSets

\* the sets of files that somebody wrote
Authored == FileSets \cup LocalSets \cup DriftSets \cup {NoFiles}

Metas == [hash : Authored, ts : 0 .. MaxClock]

Stores ==
    [version : 0 .. MaxVersion, mirror : Authored,
     snap : [Version -> Authored], meta : [Version -> Metas],
     index : SUBSET Version, machines : [Machines -> 0 .. MaxVersion]]

MetaOf(files) == [hash |-> files, ts |-> clock]

EmptyStore ==
    [version  |-> 0,
     mirror   |-> NoFiles,
     snap     |-> [v \in Version |-> NoFiles],
     meta     |-> [v \in Version |-> NoMeta],
     index    |-> {},
     machines |-> [m \in Machines |-> 0]]

\* What releases without history leave behind: a version and its files.
LegacyStore(files) == [EmptyStore EXCEPT !.version = 1, !.mirror = files]

StoreInit ==
    /\ store \in {EmptyStore} \cup {LegacyStore(f) : f \in FileSets}
    /\ published = [v \in Version |->
                        IF v = store.version THEN store.mirror ELSE NoFiles]
    /\ clock = 0
    /\ faults = 0

Fault(kind) ==
    /\ kind \in Faults
    /\ faults < MaxFaults
    /\ faults' = faults + 1

-----------------------------------------------------------------------------
(* Reading.                                                                *)

Top(s) == Max(s.index \cup {0})

MachineHigh(s) == Max({s.machines[m] : m \in Machines} \cup {0})

NoHistory(s) == s.index = {} /\ \A v \in Version : s.meta[v] = NoMeta

Occupied(s, v) ==
    s.snap[v] # NoFiles \/ s.meta[v] # NoMeta \/ v \in s.index

Complete(s, v) ==
    s.snap[v] # NoFiles /\ s.meta[v] # NoMeta /\ v \in s.index

\* history is fit to be extended: the newest indexed version is the current
HistoryFit(s) ==
    IF s.version > 0 THEN Top(s) = s.version /\ Complete(s, s.version)
                     ELSE NoHistory(s)

\* list_script: the versions the history page offers
Listed(s) == {v \in s.index : v <= s.version /\ Complete(s, v)}

\* detail_script, with the current version 0 for an empty reply
Detail(s, v) ==
    IF s.version > 0 /\ v <= s.version /\ Complete(s, v)
    THEN [current |-> s.version, meta |-> s.meta[v], files |-> s.snap[v]]
    ELSE [current |-> 0, meta |-> NoMeta, files |-> NoFiles]

-----------------------------------------------------------------------------
(* Scripts.  writes[k] is the store after the k-th write.                  *)

Refuse(code) == [code |-> code, writes |-> <<>>]

\* a plausible bug: the version key moves before the snapshot is in place
PublishWritesVersionFirst(s, v, files, meta) ==
    LET s1 == [s EXCEPT !.version = v, !.mirror = files]
        s2 == [s1 EXCEPT !.meta[v] = meta]
        s3 == [s2 EXCEPT !.index = @ \cup {v}]
        s4 == [s3 EXCEPT !.snap[v] = files]
    IN  <<s1, s2, s3, s4>>

\* Snapshot, metadata, index, mirror, and the version key last.
PublishWrites(s, v, files, meta) ==
    LET s1 == [s EXCEPT !.snap[v] = files]
        s2 == [s1 EXCEPT !.meta[v] = meta]
        s3 == [s2 EXCEPT !.index = @ \cup {v}]
        s4 == [s3 EXCEPT !.mirror = files]
        s5 == [s4 EXCEPT !.version = v]
    IN  <<s1, s2, s3, s4, s5>>

\* a plausible bug: the save does not compare the version it was based on
SaveScriptNoCompare(s, base, files, meta) ==
    IF ~HistoryFit(s) THEN Refuse(-5)
    ELSE [code |-> base + 1, writes |-> PublishWrites(s, base + 1, files, meta)]

SaveScript(s, base, files, meta) ==
    IF s.version # base THEN Refuse(-1)
    ELSE IF ~HistoryFit(s) THEN Refuse(-5)
    ELSE IF Occupied(s, base + 1) THEN Refuse(-6)
    ELSE [code |-> base + 1, writes |-> PublishWrites(s, base + 1, files, meta)]

SameSource(s, source, files, meta) ==
    /\ Complete(s, source)
    /\ s.meta[source] = meta
    /\ s.snap[source] = files

RollbackScript(s, base, source, files, meta, newMeta) ==
    IF s.version # base THEN Refuse(-1)
    ELSE IF ~HistoryFit(s) THEN Refuse(-5)
    ELSE IF source > s.version \/ ~SameSource(s, source, files, meta) THEN Refuse(-9)
    ELSE SaveScript(s, base, files, newMeta)

SnapshotRepairScript(s, v, meta, files) ==
    IF s.version = 0 THEN Refuse(-4)
    ELSE IF s.version # v THEN Refuse(-1)
    ELSE IF Top(s) > v THEN Refuse(-5)
    ELSE IF s.snap[v] # NoFiles THEN Refuse(-6)
    ELSE IF s.meta[v] # meta \/ v \notin s.index \/ s.mirror # files THEN Refuse(-9)
    ELSE [code |-> v, writes |-> <<[s EXCEPT !.snap[v] = files]>>]

MirrorRebuildScript(s, v, meta, files) ==
    IF s.version = 0 THEN Refuse(-4)
    ELSE IF s.version # v THEN Refuse(-1)
    ELSE IF Top(s) > v THEN Refuse(-5)
    ELSE IF ~SameSource(s, v, files, meta) THEN Refuse(-9)
    ELSE [code |-> v, writes |-> <<[s EXCEPT !.mirror = files]>>]

MigrationScript(s, v, meta, files) ==
    IF s.version = 0 THEN Refuse(-4)
    ELSE IF s.version # v THEN Refuse(-1)
    ELSE IF Top(s) > v THEN Refuse(-5)
    ELSE IF ~NoHistory(s) \/ s.snap[v] # NoFiles THEN Refuse(-6)
    ELSE IF s.mirror # files THEN Refuse(-9)
    ELSE [code |-> v,
          writes |-> SubSeq(PublishWrites(s, v, files, meta), 1, 3)]

RestoreVersionScript(s, current, target, meta, files) ==
    IF s.version # current THEN Refuse(-1)
    ELSE IF target <= current \/ Top(s) # target THEN Refuse(-5)
    ELSE IF ~SameSource(s, target, files, meta) THEN Refuse(-9)
    ELSE IF MachineHigh(s) > target THEN Refuse(-5)
    ELSE LET s1 == [s EXCEPT !.mirror = files]
         IN  [code |-> target,
              writes |-> <<s1, [s1 EXCEPT !.version = target]>>]

\* what the inspection of an orphan sees of a version
Trace(s, v) ==
    [files |-> s.snap[v], meta |-> s.meta[v], indexed |-> v \in s.index]

\* the writes of both deleting scripts
EraseWrites(s, v) ==
    LET s1 == [s EXCEPT !.snap[v] = NoFiles]
        s2 == [s1 EXCEPT !.meta[v] = NoMeta]
    IN  <<s1, s2, [s2 EXCEPT !.index = @ \ {v}]>>

DeleteOrphanScript(s, current, target, trace) ==
    IF s.version # current THEN Refuse(-1)
    ELSE IF target # current + 1 \/ MachineHigh(s) > current THEN Refuse(-5)
    ELSE IF Trace(s, target) # trace \/ ~Occupied(s, target) THEN Refuse(-9)
    ELSE [code |-> 1, writes |-> EraseWrites(s, target)]

\* An empty set of files is published as version 1 without history.
SeedScript(s, files, meta) ==
    IF s.version # 0 THEN Refuse(0)
    ELSE IF ~NoHistory(s) \/ s.snap[1] # NoFiles THEN Refuse(-6)
    ELSE IF files # NoFiles
         THEN [code |-> 1, writes |-> PublishWrites(s, 1, files, meta)]
    ELSE LET s1 == [s EXCEPT !.mirror = NoFiles]
         IN  [code |-> 1, writes |-> <<s1, [s1 EXCEPT !.version = 1]>>]

\* a plausible bug: an off-by-one in the rank keeps one version too few
ExpendableOffByOne(s, cutoff) ==
    {v \in s.index : /\ Cardinality({w \in s.index : w >= v}) >= Retain
                     /\ s.meta[v] # NoMeta
                     /\ s.meta[v].ts < cutoff}

\* Versions that are not among the Retain newest of the index and whose
\* metadata is older than the cutoff.
Expendable(s, cutoff) ==
    {v \in s.index : /\ Cardinality({w \in s.index : w > v}) >= Retain
                     /\ s.meta[v] # NoMeta
                     /\ s.meta[v].ts < cutoff}

GcCandidatesScript(s, current, cutoff) ==
    {v \in Expendable(s, cutoff) : v < current}

GcDeleteScript(s, candidate, cutoff) ==
    IF s.version = 0 THEN Refuse(-2)
    ELSE IF Top(s) > s.version THEN Refuse(-5)
    ELSE IF candidate >= s.version \/ candidate \notin Expendable(s, cutoff)
         THEN Refuse(0)
    ELSE [code |-> 1, writes |-> EraseWrites(s, candidate)]

-----------------------------------------------------------------------------
(* Commands as a client sees them.                                         *)

Error == -100

Replies(r) == {r.code, Error}

\* The store after k writes; the history variable notes a new version.
Written(r, k) ==
    /\ store' = IF k = 0 THEN store ELSE r.writes[k]
    /\ published' = IF store'.version = store.version THEN published
                    ELSE [published EXCEPT ![store'.version] = store'.mirror]

\* EVAL: the script runs to its end, or stops after some of its writes, or
\* its reply is lost; in the last two cases the client gets an error.
Eval(r, reply) ==
    /\ \/ /\ reply = r.code
          /\ Written(r, Len(r.writes))
          /\ UNCHANGED faults
       \/ /\ reply = Error
          /\ Fault("abort")
          /\ \E k \in 0 .. Len(r.writes) : Written(r, k)
    /\ UNCHANGED clock

\* a command that only reads succeeds, or fails
Read(ok) ==
    /\ IF ok THEN UNCHANGED faults ELSE Fault("error")
    /\ UNCHANGED <<store, published, clock>>

-----------------------------------------------------------------------------
(* The environment.                                                        *)

TimePasses ==
    /\ clock < MaxClock
    /\ clock' = clock + 1
    /\ UNCHANGED <<store, published, faults>>

\* the current snapshot is deleted by mistake
LoseSnapshot ==
    /\ store.version > 0
    /\ store.snap[store.version] # NoFiles
    /\ Fault("snapshot")
    /\ store' = [store EXCEPT !.snap[store.version] = NoFiles]
    /\ UNCHANGED <<published, clock>>

\* Redis comes back without its data
Flush ==
    /\ store.version > 0
    /\ Fault("flush")
    /\ store' = EmptyStore
    /\ published' = [v \in Version |-> NoFiles]
    /\ UNCHANGED clock

Environment == TimePasses \/ LoseSnapshot
=============================================================================
