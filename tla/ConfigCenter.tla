---------------------------- MODULE ConfigCenter -----------------------------
(***************************************************************************)
(* The configuration centre as a whole: the store in Redis, the history    *)
(* service of every gateway process, administrators, and the nodes that    *)
(* follow the published version.                                           *)
(***************************************************************************)
EXTENDS ConfigSync

vars == <<storeVars, svc, adm, syncVars>>

Init == StoreInit /\ HistoryInit /\ AdminInit /\ SyncInit

Next ==
    \/ /\ Environment
       /\ UNCHANGED <<svc, adm, syncVars>>
    \/ \E s \in Servers : /\ TimerFires(s) \/ HistoryStep(s)
                          /\ UNCHANGED <<adm, syncVars>>
    \/ \E a \in Admins : /\ Request(a) \/ AdminStep(a)
                         /\ UNCHANGED syncVars
    \/ \E n \in Machines : /\ SyncStep(n) \/ Crash(n) \/ Drift(n)
                           /\ UNCHANGED <<svc, adm>>

Spec == Init /\ [][Next]_vars

\* Every Redis command is answered or times out, and timers fire.
Fairness ==
    /\ \A s \in Servers :
          WF_vars((TimerFires(s) \/ HistoryStep(s)) /\ UNCHANGED <<adm, syncVars>>)
    /\ \A a \in Admins : WF_vars(AdminStep(a) /\ UNCHANGED syncVars)
    /\ \A n \in Machines : WF_vars(SyncStep(n) /\ UNCHANGED <<svc, adm>>)

FairSpec == Spec /\ Fairness

\* the same, and Redis may lose its data
LossNext == Next \/ (Flush /\ UNCHANGED <<svc, adm, syncVars>>)

LossSpec == Init /\ [][LossNext]_vars

-----------------------------------------------------------------------------
\* Every variable has its type; a service works exactly while somebody waits
\* for it, and deletes only versions older than the one it saw as current.
TypeOK ==
    /\ store \in Stores
    /\ \A s \in Servers :
          /\ svc[s].pending \cup svc[s].serving \subseteq Admins \cup {Timer}
          /\ svc[s].pc = "idle" <=> svc[s].serving = {}
          /\ svc[s].todo \subseteq 1 .. svc[s].current - 1
    /\ \A a \in Admins : adm[a].files \in Authored /\ adm[a].meta \in Metas
    /\ \A n \in Machines : disk[n].st.synced \in 0 .. store.version

\* What was published, by version, and what the history page can show.
Contents == [v \in {w \in Version : published[w] # NoFiles} |-> published[v]]
History == [v \in Listed(store) |-> store.snap[v]]

Register == INSTANCE ConfigRegister WITH
    Contents <- Authored,
    CanLose  <- "snapshot" \in Faults,
    version  <- store.version,
    content  <- Contents,
    history  <- History

\* Scripts that stop half way, lost replies, concurrent administrators and
\* the collector included, the centre behaves as the register: versions are
\* published one by one, whole, and a readable version never changes.
IsRegister == Register!Spec

\* A read, a save or a rollback that was answered with success told the
\* truth: the files are those of the version it names, for good, a rollback
\* restored what its target version was, the history lists only versions that
\* were published, and a comparison shows both as they were published although
\* its two reads see different moments of the store.  (In compat mode a read
\* that finds no snapshot shows the mirror, unverified and marked degraded.)
AnswersAreTrue ==
    \A a \in Admins : adm[a].pc = "answered" =>
        LET q == adm[a] IN
        /\ q.op = "get" /\ ~Compat => q.files = published[q.base]
        /\ q.op \in {"save", "rollback"} => q.files = published[q.base + 1]
        /\ q.op \in {"rollback", "detail", "diff"} =>
              q.files = published[q.target]
        /\ q.op = "diff" => q.other = published[q.base]
        /\ \A v \in q.rows : published[v] # NoFiles

\* one of the Retain newest published versions
Newest(v) ==
    /\ published[v] # NoFiles
    /\ Cardinality({w \in Version : w > v /\ published[w] # NoFiles}) < Retain

\* The versions that were replaced and are among the Retain newest stay in the
\* history: the collector deletes none of them, whatever happens between its
\* choice of candidates and the deletion, and no repair does.  Their files
\* can be read too, unless somebody else may have deleted a snapshot.
NewestAreRetained ==
    \A v \in 1 .. store.version - 1 : Newest(v) =>
        /\ v \in store.index
        /\ store.meta[v].hash = published[v]
        /\ store.snap[v] = published[v] \/ ("snapshot" \in Faults /\ faults > 0)

\* A request whose success waits for a fresh health check is answered, also
\* when the service is busy with an earlier check (pending_health_checks_).
RefreshesAreAnswered ==
    \A a \in Admins : adm[a].pc = "refresh" ~> adm[a].pc # "refresh"

\* The state file never vouches for anything else than what was published under
\* the version it names, although the node may stop, or write a file or the state
\* short without noticing, at any moment; and a node that finds its files as the
\* state says, and so reports itself in step, has the files of that version.  (A
\* state cut before its first file vouches for a node without files.)
StateIsTrue ==
    \A n \in Machines :
        LET st == disk[n].st IN st.synced > 0 =>
        /\ \A f \in DOMAIN st.ok :
              \/ st.ok[f] = NoHash
              \/ /\ f \in DOMAIN published[st.synced]
                 /\ st.ok[f] = published[st.synced][f]
        /\ LocalMatches(n, st.synced) =>
              disk[n].files \in {published[st.synced], NoFiles}

\* Nothing is ever published that nobody wrote as a whole: no mixture of
\* the files of two versions is seeded.
PublishedIsWhole == \A v \in Version : published[v] \in Authored

\* The version's files can be read back, from the snapshot or the mirror.
Readable(s) ==
    /\ s.version > 0
    /\ s.meta[s.version] # NoMeta
    /\ s.meta[s.version].hash \in {s.snap[s.version], s.mirror}

\* When faults and publications end, every node ends up with the files of
\* the current version, after crashes, failed and short writes, failed commands
\* and local changes alike.  Stray files stay.
NodesConverge ==
    <>[](Readable(store) =>
            \A n \in Machines :
                [f \in LocalNames(n) |-> disk[n].files[f]] = published[store.version])
=============================================================================
