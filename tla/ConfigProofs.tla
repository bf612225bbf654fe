---------------------------- MODULE ConfigProofs ----------------------------
(***************************************************************************)
(* Proofs about the configuration centre for any number of processes,      *)
(* administrators, nodes, versions and faults.  ConfigGatewayProofs is     *)
(* about the store, the services and the nodes; this module is about the   *)
(* administrators, whose requests remember what they read of earlier       *)
(* stores, and about the centre as a whole.                                *)
(***************************************************************************)
EXTENDS ConfigGatewayProofs, FiniteSetTheorems

USE ZenonT(30)

-----------------------------------------------------------------------------
(* Administrators *)

LEMMA FreeOK ==
    ASSUME NEW s, NEW p, s.version \in Nat
    PROVE  RequestInv(Free, s, p)
<1>1. 0 <= s.version
  BY SMT
<1> QED BY <1>1, FreeFields DEF RequestInv, Staged

\* The chain of a goes on as q after a command that reads.
Told(a, q) ==
    /\ UNCHANGED <<store, published, clock, svc>>
    /\ faults' = faults \/ faults' = faults + 1
    /\ adm' = [adm EXCEPT ![a] = q]

LEMMA ToldStep ==
    ASSUME Inv, NEW a \in Admins, NEW q, Told(a, q), RequestInv(q, store, published),
           UNCHANGED syncVars
    PROVE  Fine
<1>1. StoreStep /\ faults' \in Nat
  BY StoreRests DEF Told
<1>2. RequestsOK'
  <2>1. RequestInv(q, store', published') /\ adm' = [adm EXCEPT ![a] = q]
    BY DEF Told
  <2> QED BY <1>1, <2>1, RequestsMove
<1>3. NodesOK'
  BY <1>1, NodesStay
<1>4. ServicesOK' /\ clock' \in 0 .. MaxClock
  BY DEF Told, Inv, ServicesOK
<1> QED BY <1>1, <1>2, <1>3, <1>4, NumbersLater DEF Inv, Fine

\* A step that ends the request
LEMMA ToldFree ==
    ASSUME Inv, NEW a \in Admins, Told(a, Free), UNCHANGED syncVars
    PROVE  Fine
  BY FreeOK, StoreNow, ToldStep

\* What the request of a says now
LEMMA RequestNow ==
    ASSUME Inv, NEW a \in Admins
    PROVE  RequestInv(adm[a], store, published) /\ IsRequest(adm[a]) /\ Staged(adm[a])
  BY DEF Inv, RequestsOK, RequestInv

LEMMA StartConfigStep ==
    ASSUME Inv, NEW a \in Admins, UNCHANGED syncVars, StartConfig(a) PROVE Fine
<1> DEFINE x == [Free EXCEPT !.op = "get", !.pc = "version"]
<1>1. Told(a, x)
  BY DEF StartConfig, Begin, Told, storeVars
<1>2. IsRequest(x) /\ x.pc = "version" /\ x.op = "get" /\ x.base = 0 /\ x.rows = {}
  BY FreeFields DEF IsRequest, RequestFields
<1> HIDE DEF x
<1>3. RequestInv(x, store, published)
  BY <1>2, StoreNow DEF RequestInv, Staged
<1> QED BY <1>1, <1>3, ToldStep

LEMMA ReadConfigVersionStep ==
    ASSUME Inv, NEW a \in Admins, UNCHANGED syncVars, ReadConfigVersion(a) PROVE Fine
<1> DEFINE q == adm[a]
           x == [q EXCEPT !.pc = "files", !.base = store.version]
<1>0. RequestInv(q, store, published)
  BY RequestNow
<1>1. q.pc = "version" /\ (Told(a, Free) \/ Told(a, x))
  BY DEF ReadConfigVersion, ReadStep, Read, Fault, Goto, Leave, Told
<1>2. /\ IsRequest(x) /\ x.pc = "files" /\ x.op = q.op /\ x.base = store.version
      /\ x.rows = q.rows
  BY <1>0, StoreNow DEF RequestInv, IsRequest, RequestFields
<1> HIDE DEF x, q
<1>3. RequestInv(x, store, published)
  BY <1>0, <1>1, <1>2, StoreNow DEF RequestInv, Staged
<1> QED BY <1>1, <1>3, ToldStep, ToldFree

LEMMA ReadConfigFilesStep ==
    ASSUME Inv, NEW a \in Admins, UNCHANGED syncVars, ReadConfigFiles(a) PROVE Fine
<1> DEFINE q == adm[a]
           f == SnapAt(q.base)
           x == [q EXCEPT !.pc = "mirror"]
           y == [q EXCEPT !.pc = "hash", !.files = f]
<1>0. RequestInv(q, store, published)
  BY RequestNow
<1>1. q.pc = "files" /\ (Told(a, Free) \/ Told(a, x) \/ Told(a, y))
  BY DEF ReadConfigFiles, ReadStep, Read, Fault, Goto, Leave, Told
<1>2. f \in Authored
  BY <1>0, StoreNow, Named DEF RequestInv, IsRequest, SnapAt, Authored
<1> HIDE DEF f
<1>3. IsRequest(x) /\ x.pc = "mirror" /\ x.op = q.op /\ x.base = q.base /\ x.rows = q.rows
  BY <1>0 DEF RequestInv, IsRequest, RequestFields
<1>4. IsRequest(y) /\ y.pc = "hash" /\ y.op = q.op /\ y.base = q.base /\ y.rows = q.rows
  BY <1>0, <1>2 DEF RequestInv, IsRequest, RequestFields
<1> HIDE DEF x, y, q
<1>5. RequestInv(x, store, published) /\ RequestInv(y, store, published)
  BY <1>0, <1>1, <1>3, <1>4 DEF RequestInv, Staged
<1> QED BY <1>1, <1>5, ToldStep, ToldFree

LEMMA ReadConfigMirrorStep ==
    ASSUME Inv, NEW a \in Admins, UNCHANGED syncVars, ReadConfigMirror(a) PROVE Fine
<1> DEFINE q == adm[a]
           next == IF Compat THEN "verify" ELSE "hash"
           x == [q EXCEPT !.pc = next, !.files = store.mirror]
<1>0. RequestInv(q, store, published)
  BY RequestNow
<1>1. q.pc = "mirror" /\ (Told(a, Free) \/ Told(a, x))
  BY DEF ReadConfigMirror, ReadStep, Read, Fault, Goto, Leave, Told
<1>2. next \in {"verify", "hash"} /\ (~Compat => next = "hash")
  OBVIOUS
<1> HIDE DEF next
<1>3. IsRequest(x) /\ x.pc = next /\ x.op = q.op /\ x.base = q.base /\ x.rows = q.rows
  BY <1>0, StoreNow DEF RequestInv, IsRequest, RequestFields
<1> HIDE DEF x, q
<1>4. RequestInv(x, store, published)
  BY <1>0, <1>1, <1>2, <1>3 DEF RequestInv, Staged
<1> QED BY <1>1, <1>4, ToldStep, ToldFree

LEMMA VerifyConfigHashStep ==
    ASSUME Inv, NEW a \in Admins, UNCHANGED syncVars, VerifyConfigHash(a) PROVE Fine
<1> DEFINE q == adm[a]
           x == [q EXCEPT !.pc = "verify"]
<1>0. RequestInv(q, store, published)
  BY RequestNow
<1>1. /\ q.pc = "hash"
      /\ \/ Told(a, Free)
         \/ /\ q.base > 0 /\ store.meta[q.base] # NoMeta
            /\ store.meta[q.base].hash = q.files /\ Told(a, x)
  BY DEF VerifyConfigHash, ReadStep, Read, Fault, Goto, Leave, Told
<1>2. /\ IsRequest(x) /\ x.pc = "verify" /\ x.op = q.op /\ x.base = q.base
      /\ x.rows = q.rows /\ x.files = q.files
  BY <1>0 DEF RequestInv, IsRequest, RequestFields
<1> HIDE DEF x, q
<1>3. ASSUME q.base > 0, store.meta[q.base] # NoMeta, store.meta[q.base].hash = q.files
      PROVE  RequestInv(x, store, published)
  <2>1. q.base \in Version /\ q.base <= store.version
    BY <1>0, <1>3, Named DEF RequestInv, IsRequest
  <2>2. Known(q.base, q.files, store, published)
    BY <1>3, <2>1, ReadIsKnown
  <2> QED BY <1>0, <1>1, <1>2, <2>2 DEF RequestInv, Staged
<1> QED BY <1>1, <1>3, ToldStep, ToldFree

LEMMA VerifyConfigVersionStep ==
    ASSUME Inv, NEW a \in Admins, UNCHANGED syncVars, VerifyConfigVersion(a) PROVE Fine
<1> DEFINE q == adm[a]
           x == [q EXCEPT !.pc = "answered"]
           y == [q EXCEPT !.pc = "version", !.attempt = 1, !.files = NoFiles, !.base = 0]
<1>0. RequestInv(q, store, published)
  BY RequestNow
<1>1. q.pc = "verify" /\ (Told(a, Free) \/ Told(a, x) \/ Told(a, y))
  BY DEF VerifyConfigVersion, ReadStep, Read, Fault, Goto, Leave, Told
<1>2. /\ IsRequest(x) /\ x.pc = "answered" /\ x.op = q.op /\ x.base = q.base
      /\ x.rows = q.rows /\ x.files = q.files
  BY <1>0 DEF RequestInv, IsRequest, RequestFields
<1>3. IsRequest(y) /\ y.pc = "version" /\ y.op = q.op /\ y.base = 0 /\ y.rows = q.rows
  BY <1>0, FreeFields DEF RequestInv, IsRequest, RequestFields
<1> HIDE DEF x, y, q
<1>4. RequestInv(x, store, published)
  BY <1>0, <1>1, <1>2 DEF RequestInv, Staged
<1>5. RequestInv(y, store, published)
  BY <1>0, <1>1, <1>3, StoreNow DEF RequestInv, Staged
<1> QED BY <1>1, <1>4, <1>5, ToldStep, ToldFree

LEMMA StartListStep ==
    ASSUME Inv, NEW a \in Admins, UNCHANGED syncVars, StartList(a) PROVE Fine
<1> DEFINE x == [Free EXCEPT !.op = "list", !.pc = "list"]
<1>1. Told(a, x)
  BY DEF StartList, Begin, Told, storeVars
<1>2. IsRequest(x) /\ x.pc = "list" /\ x.op = "list" /\ x.base = 0 /\ x.rows = {}
  BY FreeFields DEF IsRequest, RequestFields
<1> HIDE DEF x
<1>3. RequestInv(x, store, published)
  BY <1>2, StoreNow DEF RequestInv, Staged
<1> QED BY <1>1, <1>3, ToldStep

LEMMA ReadHistoryListStep ==
    ASSUME Inv, NEW a \in Admins, UNCHANGED syncVars, ReadHistoryList(a) PROVE Fine
<1> DEFINE q == adm[a]
           x == [q EXCEPT !.pc = "answered", !.rows = Listed(store)]
<1>0. RequestInv(q, store, published)
  BY RequestNow
<1>1. q.pc = "list" /\ (Told(a, Free) \/ Told(a, x))
  BY DEF ReadHistoryList, ReadStep, Read, Fault, Goto, Leave, Told
<1>2. \A v \in Listed(store) : v \in Version /\ v <= store.version /\ published[v] # NoFiles
  BY StoreNow, ListedAre, ReadIsKnown DEF Complete
<1>3. Listed(store) \in SUBSET Version
  BY <1>2
<1>4. IsRequest(x) /\ x.pc = "answered" /\ x.op = q.op /\ x.base = q.base
      /\ x.rows = Listed(store)
  BY <1>0, <1>3 DEF RequestInv, IsRequest, RequestFields
<1> HIDE DEF x, q
<1>5. RequestInv(x, store, published)
  BY <1>0, <1>1, <1>2, <1>4 DEF RequestInv, Staged
<1> QED BY <1>1, <1>5, ToldStep, ToldFree

-----------------------------------------------------------------------------
(* History pages, saves and rollbacks *)

\* The record of a version, when there is one, is what was published.
LEMMA DetailTrue ==
    ASSUME Inv, NEW v \in Version
    PROVE  /\ Detail(store, v).files \in Authored /\ Detail(store, v).meta \in Metas
           /\ Detail(store, v).current \in 0 .. MaxVersion
           /\ Detail(store, v).current <= store.version
           /\ Detail(store, v).current > 0 =>
                 Known(v, Detail(store, v).files, store, published)
<1> DEFINE d == Detail(store, v)
<1>1. CASE store.version > 0 /\ v <= store.version /\ Complete(store, v)
  <2>1. d.current = store.version /\ d.meta = store.meta[v] /\ d.files = store.snap[v]
    BY <1>1 DEF Detail
  <2>2. Known(v, store.snap[v], store, published)
    BY <1>1, ReadIsKnown DEF Complete
  <2> QED BY <2>1, <2>2, StoreNow
<1>2. CASE ~(store.version > 0 /\ v <= store.version /\ Complete(store, v))
  <2>1. d.current = 0 /\ d.meta = NoMeta /\ d.files = NoFiles
    BY <1>2 DEF Detail
  <2> QED BY <2>1, StoreNow, Named, FreeFields DEF IsRequest
<1> QED BY <1>1, <1>2

LEMMA StartHistoryPathStep ==
    ASSUME Inv, NEW a \in Admins, UNCHANGED syncVars, StartHistoryPath(a) PROVE Fine
<1>1. PICK op \in {"detail", "diff"}, v \in 1 .. store.version, to \in 0 .. store.version :
        Begin(a, [Free EXCEPT !.op = op, !.pc = "detail", !.target = v, !.base = to])
  BY DEF StartHistoryPath
<1> DEFINE x == [Free EXCEPT !.op = op, !.pc = "detail", !.target = v, !.base = to]
<1>2. Told(a, x)
  BY <1>1 DEF Begin, Told, storeVars
<1>3. /\ v \in 0 .. MaxVersion /\ to \in 0 .. MaxVersion /\ v > 0
      /\ to <= store.version
  BY StoreNow, Bounds
<1>4. /\ IsRequest(x) /\ x.pc = "detail" /\ x.op = op /\ x.base = to /\ x.target = v
      /\ x.rows = {}
  BY <1>3, FreeFields DEF IsRequest, RequestFields
<1> HIDE DEF x
<1>5. RequestInv(x, store, published)
  BY <1>3, <1>4 DEF RequestInv, Staged
<1> QED BY <1>2, <1>5, ToldStep

LEMMA ReadHistoryDetailStep ==
    ASSUME Inv, NEW a \in Admins, UNCHANGED syncVars, ReadHistoryDetail(a) PROVE Fine
<1> DEFINE q == adm[a]
           d == Detail(store, q.target)
           x == [q EXCEPT !.pc = "answered", !.files = d.files]
<1>0. RequestInv(q, store, published)
  BY RequestNow
<1>1. /\ q.op = "detail" /\ q.pc = "detail"
      /\ Told(a, Free) \/ (d.current > 0 /\ Told(a, x))
  BY DEF ReadHistoryDetail, Sound, ReadStep, Read, Fault, Goto, Leave, Told
<1>2. q.target \in Version
  BY <1>0, <1>1, Named DEF RequestInv, Staged, IsRequest
<1>3. d.files \in Authored /\ (d.current > 0 => Known(q.target, d.files, store, published))
  BY <1>2, DetailTrue
<1> HIDE DEF d
<1>4. /\ IsRequest(x) /\ x.pc = "answered" /\ x.op = q.op /\ x.base = q.base
      /\ x.target = q.target /\ x.rows = q.rows /\ x.files = d.files
  BY <1>0, <1>3 DEF RequestInv, IsRequest, RequestFields
<1> HIDE DEF x, q
<1>5. ASSUME d.current > 0 PROVE RequestInv(x, store, published)
  BY <1>0, <1>1, <1>3, <1>4, <1>5 DEF RequestInv, Staged
<1> QED BY <1>1, <1>5, ToldStep, ToldFree

LEMMA ReadDiffSourceStep ==
    ASSUME Inv, NEW a \in Admins, UNCHANGED syncVars, ReadDiffSource(a) PROVE Fine
<1> DEFINE q == adm[a]
           d == Detail(store, q.target)
           to == IF q.base = 0 THEN d.current ELSE q.base
           x == [q EXCEPT !.pc = "answered", !.files = d.files, !.base = to,
                          !.other = d.files]
           y == [q EXCEPT !.pc = "diff", !.files = d.files, !.base = to]
<1>0. RequestInv(q, store, published)
  BY RequestNow
<1>1. /\ q.op = "diff" /\ q.pc = "detail"
      /\ \/ Told(a, Free)
         \/ d.current > 0 /\ to = q.target /\ Told(a, x)
         \/ d.current > 0 /\ Told(a, y)
  BY DEF ReadDiffSource, Sound, ReadStep, Read, Fault, Goto, Leave, Told
<1>2. q.target \in Version /\ q.target > 0
  BY <1>0, <1>1, Named DEF RequestInv, Staged, IsRequest
<1>3. /\ d.files \in Authored /\ d.current \in 0 .. MaxVersion /\ d.current <= store.version
      /\ d.current > 0 => Known(q.target, d.files, store, published)
  BY <1>2, DetailTrue
<1> HIDE DEF d
<1>4. /\ to \in 0 .. MaxVersion /\ to <= store.version
      /\ d.current > 0 => to > 0
  BY <1>0, <1>3, Named DEF RequestInv, IsRequest
<1> HIDE DEF to
<1>5. /\ IsRequest(x) /\ x.pc = "answered" /\ x.op = q.op /\ x.base = to
      /\ x.target = q.target /\ x.rows = q.rows /\ x.files = d.files /\ x.other = d.files
  BY <1>0, <1>3, <1>4 DEF RequestInv, IsRequest, RequestFields
<1>6. /\ IsRequest(y) /\ y.pc = "diff" /\ y.op = q.op /\ y.base = to
      /\ y.target = q.target /\ y.rows = q.rows /\ y.files = d.files
  BY <1>0, <1>3, <1>4 DEF RequestInv, IsRequest, RequestFields
<1> HIDE DEF x, y, q
<1>7. ASSUME d.current > 0, to = q.target PROVE RequestInv(x, store, published)
  BY <1>0, <1>1, <1>2, <1>3, <1>4, <1>5, <1>7 DEF RequestInv, Staged
<1>8. ASSUME d.current > 0 PROVE RequestInv(y, store, published)
  BY <1>0, <1>1, <1>2, <1>3, <1>4, <1>6, <1>8 DEF RequestInv, Staged
<1> QED BY <1>1, <1>7, <1>8, ToldStep, ToldFree

LEMMA ReadDiffTargetStep ==
    ASSUME Inv, NEW a \in Admins, UNCHANGED syncVars, ReadDiffTarget(a) PROVE Fine
<1> DEFINE q == adm[a]
           d == Detail(store, q.base)
           x == [q EXCEPT !.pc = "answered", !.other = d.files]
<1>0. RequestInv(q, store, published)
  BY RequestNow
<1>1. q.pc = "diff" /\ (Told(a, Free) \/ (d.current > 0 /\ Told(a, x)))
  BY DEF ReadDiffTarget, Sound, ReadStep, Read, Fault, Goto, Leave, Told
<1>2. q.base \in Version /\ q.op = "diff"
  BY <1>0, <1>1, Named DEF RequestInv, Staged, IsRequest
<1>3. d.files \in Authored /\ (d.current > 0 => Known(q.base, d.files, store, published))
  BY <1>2, DetailTrue
<1> HIDE DEF d
<1>4. /\ IsRequest(x) /\ x.pc = "answered" /\ x.op = q.op /\ x.base = q.base
      /\ x.target = q.target /\ x.rows = q.rows /\ x.files = q.files /\ x.other = d.files
  BY <1>0, <1>3 DEF RequestInv, IsRequest, RequestFields
<1> HIDE DEF x, q
<1>5. ASSUME d.current > 0 PROVE RequestInv(x, store, published)
  BY <1>0, <1>1, <1>2, <1>3, <1>4, <1>5 DEF RequestInv, Staged
<1> QED BY <1>1, <1>5, ToldStep, ToldFree

LEMMA SaveConfigStep ==
    ASSUME Inv, NEW a \in Admins, UNCHANGED syncVars, SaveConfig(a) PROVE Fine
<1>1. PICK files \in FileSets :
        /\ store.version < MaxVersion
        /\ Begin(a, [Free EXCEPT !.op = "save", !.pc = "submit",
                                 !.base = store.version, !.files = files])
  BY DEF SaveConfig
<1> DEFINE x == [Free EXCEPT !.op = "save", !.pc = "submit",
                             !.base = store.version, !.files = files]
<1>2. Told(a, x)
  BY <1>1 DEF Begin, Told, storeVars
<1>3. /\ IsRequest(x) /\ x.pc = "submit" /\ x.op = "save" /\ x.base = store.version
      /\ x.rows = {} /\ x.files = files
  BY StoreNow, FreeFields DEF IsRequest, RequestFields, Authored
<1> HIDE DEF x
<1>4. RequestInv(x, store, published)
  BY <1>1, <1>3, StoreNow DEF RequestInv, Staged
<1> QED BY <1>2, <1>4, ToldStep

LEMMA StartRollbackStep ==
    ASSUME Inv, NEW a \in Admins, UNCHANGED syncVars, StartRollback(a) PROVE Fine
<1>1. PICK target \in 1 .. store.version :
        /\ store.version < MaxVersion
        /\ Begin(a, [Free EXCEPT !.op = "rollback", !.pc = "detail",
                                 !.base = store.version, !.target = target])
  BY DEF StartRollback
<1> DEFINE x == [Free EXCEPT !.op = "rollback", !.pc = "detail",
                             !.base = store.version, !.target = target]
<1>2. Told(a, x)
  BY <1>1 DEF Begin, Told, storeVars
<1>3. target \in 0 .. MaxVersion /\ target > 0
  BY StoreNow, Bounds
<1>4. /\ IsRequest(x) /\ x.pc = "detail" /\ x.op = "rollback" /\ x.base = store.version
      /\ x.rows = {} /\ x.target = target
  BY <1>3, StoreNow, FreeFields DEF IsRequest, RequestFields
<1> HIDE DEF x
<1>5. RequestInv(x, store, published)
  BY <1>1, <1>3, <1>4, StoreNow DEF RequestInv, Staged
<1> QED BY <1>2, <1>5, ToldStep

LEMMA PrepareRollbackStep ==
    ASSUME Inv, NEW a \in Admins, UNCHANGED syncVars, PrepareRollback(a) PROVE Fine
<1> DEFINE q == adm[a]
           d == Detail(store, q.target)
           x == [q EXCEPT !.pc = "submit", !.files = d.files, !.meta = d.meta]
<1>0. RequestInv(q, store, published)
  BY RequestNow
<1>1. q.op = "rollback" /\ q.pc = "detail" /\ (Told(a, Free) \/ Told(a, x))
  BY DEF PrepareRollback, ReadStep, Read, Fault, Goto, Leave, Told
<1>2. q.target \in Version
  BY <1>0, <1>1, Named DEF RequestInv, Staged, IsRequest
<1>3. d.files \in Authored /\ d.meta \in Metas
  BY <1>2, DetailTrue
<1> HIDE DEF d
<1>4. /\ IsRequest(x) /\ x.pc = "submit" /\ x.op = q.op /\ x.base = q.base
      /\ x.target = q.target /\ x.rows = q.rows
  BY <1>0, <1>3 DEF RequestInv, IsRequest, RequestFields
<1> HIDE DEF x, q
<1>5. RequestInv(x, store, published)
  BY <1>0, <1>1, <1>4 DEF RequestInv, Staged
<1> QED BY <1>1, <1>5, ToldStep, ToldFree

\* The chain of a goes on as q after the EVAL of a script.
LEMMA ScriptStep ==
    ASSUME Inv, NEW a \in Admins, NEW r, NEW code, NEW q,
           Safe(r, store, published, Lossy), Eval(r, code),
           adm' = [adm EXCEPT ![a] = q], RequestInv(q, store', published'),
           ServicesOK', UNCHANGED syncVars
    PROVE  Fine
<1>1. StoreStep /\ faults' \in Nat /\ clock' = clock
  BY EvalStep
<1>2. RequestsOK'
  BY <1>1, RequestsMove
<1>3. NodesOK'
  BY <1>1, NodesStay
<1> QED BY <1>1, <1>2, <1>3, NumbersLater DEF Inv, Fine

LEMMA ScriptFree ==
    ASSUME Inv, NEW a \in Admins, NEW r, NEW code,
           Safe(r, store, published, Lossy), Eval(r, code), Leave(a),
           ServicesOK', UNCHANGED syncVars
    PROVE  Fine
<1>1. StoreStep
  BY EvalStep
<1>2. RequestInv(Free, store', published')
  BY <1>1, NumbersLater, FreeOK
<1>3. adm' = [adm EXCEPT ![a] = Free]
  BY DEF Leave
<1> QED BY <1>2, <1>3, ScriptStep

\* The reply of a save or a rollback: its version, or nothing.
LEMMA SubmittedStep ==
    ASSUME Inv, NEW a \in Admins, UNCHANGED syncVars, NEW r, Submitted(a, r),
           adm[a].op \in {"save", "rollback"}, adm[a].base \in 0 .. MaxVersion - 1,
           Saves(r, store, published, Lossy, adm[a].base, adm[a].files),
           adm[a].op = "rollback" /\ r.code > 0 =>
               Known(adm[a].target, adm[a].files, store, published)
    PROVE  Fine
<1> DEFINE q == adm[a]
           x == [q EXCEPT !.pc = "answered", !.meta = NoMeta]
<1>0. RequestInv(q, store, published) /\ Safe(r, store, published, Lossy)
  BY RequestNow DEF Saves
<1>1. PICK code \in Replies(r) :
        Eval(r, code) /\ IF code > 0 THEN Goto(a, x) ELSE Leave(a)
  BY DEF Submitted
<1>2. UNCHANGED svc /\ ServicesOK'
  BY DEF Submitted, Inv, ServicesOK
<1>3. CASE ~(code > 0)
  BY <1>0, <1>1, <1>2, <1>3, ScriptFree
<1>4. CASE code > 0
  <2>1. Known(q.base + 1, q.files, store', published')
    BY <1>1, <1>4, EvalSaves
  <2>2. StoreStep
    BY <1>0, <1>1, EvalStep
  <2>3. /\ store.version \in Nat /\ store'.version \in Nat
        /\ Later(store, published, store', published')
    BY <2>2, StoreNow, NumbersLater
  <2>4. RequestInv(q, store', published')
    BY <1>0, <2>3, RequestLater
  <2>5. ASSUME q.op = "rollback" PROVE Known(q.target, q.files, store', published')
    <3>1. ~(Error > 0)
      BY SMT DEF Error
    <3>2. r.code > 0
      BY <1>1, <1>4, <3>1 DEF Replies
    <3>3. Known(q.target, q.files, store, published)
      BY <2>5, <3>2
    <3>4. \A v, f : Known(v, f, store, published) => Known(v, f, store', published')
      BY <2>3, KnownLater
    <3> QED BY <3>3, <3>4
  <2>6. /\ IsRequest(x) /\ x.pc = "answered" /\ x.op = q.op /\ x.base = q.base
        /\ x.target = q.target /\ x.rows = q.rows /\ x.files = q.files
    BY <2>4, FreeFields DEF RequestInv, IsRequest, RequestFields
  <2>7. adm' = [adm EXCEPT ![a] = x]
    BY <1>1, <1>4 DEF Goto
  <2> HIDE DEF x, q
  <2>8. RequestInv(x, store', published')
    <3>1. q.op \in {"save", "rollback"}
      BY DEF q
    <3> QED BY <3>1, <2>1, <2>4, <2>5, <2>6 DEF RequestInv, Staged
  <2> QED BY <1>0, <1>1, <1>2, <2>7, <2>8, ScriptStep
<1> QED BY <1>3, <1>4

LEMMA SubmitSaveStep ==
    ASSUME Inv, NEW a \in Admins, UNCHANGED syncVars, SubmitSave(a) PROVE Fine
<1> DEFINE q == adm[a]
           r == SaveScript(store, q.base, q.files, MetaOf(q.files))
<1>1. q.op = "save" /\ q.pc = "submit" /\ Submitted(a, r)
  BY DEF SubmitSave
<1>2. q.files \in FileSets /\ q.base \in 0 .. MaxVersion /\ q.base < MaxVersion
  BY <1>1, RequestNow DEF IsRequest, Staged
<1>3. q.base \in 0 .. MaxVersion - 1
  BY <1>2, Bounds
<1>4. q.files \in Authored /\ q.files # NoFiles
  BY <1>2, FilesAssumption DEF Authored
<1>5. MetaOf(q.files) \in Metas /\ MetaOf(q.files).hash = q.files
  BY <1>4, MetaOfIs
<1>6. Saves(r, store, published, Lossy, q.base, q.files)
  BY <1>3, <1>4, <1>5, SaneNow, SaveSafe
<1> HIDE DEF r
<1> QED BY <1>1, <1>3, <1>6, SubmittedStep

LEMMA SubmitRollbackStep ==
    ASSUME Inv, NEW a \in Admins, UNCHANGED syncVars, SubmitRollback(a) PROVE Fine
<1> DEFINE q == adm[a]
           r == RollbackScript(store, q.base, q.target, q.files, q.meta, MetaOf(q.files))
<1>1. q.op = "rollback" /\ q.pc = "submit" /\ Submitted(a, r)
  BY DEF SubmitRollback
<1>2. /\ q.files \in Authored /\ q.base \in 0 .. MaxVersion /\ q.base < MaxVersion
      /\ q.target \in Version
  BY <1>1, RequestNow, Named DEF IsRequest, Staged
<1>3. q.base \in 0 .. MaxVersion - 1
  BY <1>2, Bounds
<1>4. MetaOf(q.files) \in Metas /\ MetaOf(q.files).hash = q.files
  BY <1>2, MetaOfIs
<1>5. /\ Saves(r, store, published, Lossy, q.base, q.files)
      /\ r.code > 0 => Known(q.target, q.files, store, published)
  BY <1>2, <1>3, <1>4, SaneNow, RollbackSafe
<1> HIDE DEF r
<1> QED BY <1>1, <1>3, <1>5, SubmittedStep

-----------------------------------------------------------------------------
(* Repairs, migrations and orphans *)

LEMMA Plans ==
    /\ DOMAIN RepairPlans = {"snapshot", "mirror", "migration"}
    /\ RepairPlans["snapshot"].first = "repairmirror"
    /\ RepairPlans["mirror"].first = "detail"
    /\ RepairPlans["migration"].first = "repairmirror"
  BY DEF RepairPlans

LEMMA StartRepairStep ==
    ASSUME Inv, NEW a \in Admins, UNCHANGED syncVars, StartRepair(a) PROVE Fine
<1>1. PICK s \in Servers, op \in {"snapshot", "mirror", "migration"} :
        /\ store.version > 0
        /\ Begin(a, [Free EXCEPT !.op = op, !.srv = s, !.base = store.version,
                                 !.pc = RepairPlans[op].first])
  BY Plans DEF StartRepair
<1> DEFINE pc == RepairPlans[op].first
           x == [Free EXCEPT !.op = op, !.srv = s, !.base = store.version, !.pc = pc]
<1>2. Told(a, x)
  BY <1>1 DEF Begin, Told, storeVars
<1>3. /\ pc \in {"repairmirror", "detail"}
      /\ pc = "repairmirror" => op \in {"snapshot", "migration"}
  BY Plans
<1> HIDE DEF pc
<1>4. IsRequest(x) /\ x.pc = pc /\ x.op = op /\ x.base = store.version /\ x.rows = {}
  BY StoreNow, FreeFields DEF IsRequest, RequestFields
<1> HIDE DEF x
<1>5. RequestInv(x, store, published)
  BY <1>1, <1>3, <1>4, StoreNow DEF RequestInv, Staged
<1> QED BY <1>2, <1>5, ToldStep

LEMMA ReadRepairMirrorStep ==
    ASSUME Inv, NEW a \in Admins, UNCHANGED syncVars, ReadRepairMirror(a) PROVE Fine
<1> DEFINE q == adm[a]
           x == [q EXCEPT !.pc = "repair", !.files = store.mirror,
                          !.meta = MetaOf(store.mirror)]
           y == [q EXCEPT !.pc = "repairmeta", !.files = store.mirror]
<1>0. RequestInv(q, store, published)
  BY RequestNow
<1>1. /\ q.pc = "repairmirror"
      /\ \/ Told(a, Free)
         \/ store.mirror # NoFiles /\ q.op = "migration" /\ Told(a, x)
         \/ q.op # "migration" /\ Told(a, y)
  BY DEF ReadRepairMirror, ReadStep, Read, Fault, Goto, Leave, Told
<1>2. MetaOf(store.mirror) \in Metas /\ MetaOf(store.mirror).hash = store.mirror
  BY StoreNow, MetaOfIs
<1>3. /\ IsRequest(x) /\ x.pc = "repair" /\ x.op = q.op /\ x.base = q.base
      /\ x.rows = q.rows /\ x.files = store.mirror /\ x.meta = MetaOf(store.mirror)
  BY <1>0, <1>2, StoreNow DEF RequestInv, IsRequest, RequestFields
<1>4. /\ IsRequest(y) /\ y.pc = "repairmeta" /\ y.op = q.op /\ y.base = q.base
      /\ y.rows = q.rows
  BY <1>0, StoreNow DEF RequestInv, IsRequest, RequestFields
<1> HIDE DEF x, y, q
<1>5. ASSUME store.mirror # NoFiles, q.op = "migration" PROVE RequestInv(x, store, published)
  BY <1>0, <1>1, <1>2, <1>3, <1>5 DEF RequestInv, Staged
<1>6. ASSUME q.op # "migration" PROVE RequestInv(y, store, published)
  BY <1>0, <1>1, <1>4, <1>6 DEF RequestInv, Staged
<1> QED BY <1>1, <1>5, <1>6, ToldStep, ToldFree

LEMMA ReadRepairMetaStep ==
    ASSUME Inv, NEW a \in Admins, UNCHANGED syncVars, ReadRepairMeta(a) PROVE Fine
<1> DEFINE q == adm[a]
           m == store.meta[q.base]
           x == [q EXCEPT !.pc = "repair", !.meta = m]
<1>0. RequestInv(q, store, published)
  BY RequestNow
<1>1. q.pc = "repairmeta" /\ (Told(a, Free) \/ (m.hash = q.files /\ Told(a, x)))
  BY DEF ReadRepairMeta, ReadStep, Read, Fault, Goto, Leave, Told
<1>2. q.base \in Version /\ m \in Metas /\ q.op = "snapshot"
  BY <1>0, <1>1, StoreNow, Named DEF RequestInv, Staged, IsRequest
<1> HIDE DEF m
<1>3. /\ IsRequest(x) /\ x.pc = "repair" /\ x.op = q.op /\ x.base = q.base
      /\ x.rows = q.rows /\ x.files = q.files /\ x.meta = m
  BY <1>0, <1>2 DEF RequestInv, IsRequest, RequestFields
<1> HIDE DEF x, q
<1>4. ASSUME m.hash = q.files PROVE RequestInv(x, store, published)
  BY <1>0, <1>1, <1>2, <1>3, <1>4 DEF RequestInv, Staged
<1> QED BY <1>1, <1>4, ToldStep, ToldFree

LEMMA ReadRepairDetailStep ==
    ASSUME Inv, NEW a \in Admins, UNCHANGED syncVars, ReadRepairDetail(a) PROVE Fine
<1> DEFINE q == adm[a]
           d == Detail(store, q.base)
           x == [q EXCEPT !.pc = "repair", !.files = d.files, !.meta = d.meta]
<1>0. RequestInv(q, store, published)
  BY RequestNow
<1>1. /\ q.op = "mirror" /\ q.pc = "detail"
      /\ Told(a, Free) \/ (d.meta.hash = d.files /\ Told(a, x))
  BY DEF ReadRepairDetail, ReadStep, Read, Fault, Goto, Leave, Told
<1>2. q.base \in Version
  BY <1>0, <1>1, Named DEF RequestInv, Staged, IsRequest
<1>3. d.files \in Authored /\ d.meta \in Metas
  BY <1>2, DetailTrue
<1> HIDE DEF d
<1>4. /\ IsRequest(x) /\ x.pc = "repair" /\ x.op = q.op /\ x.base = q.base
      /\ x.rows = q.rows /\ x.files = d.files /\ x.meta = d.meta
  BY <1>0, <1>3 DEF RequestInv, IsRequest, RequestFields
<1> HIDE DEF x, q
<1>5. ASSUME d.meta.hash = d.files PROVE RequestInv(x, store, published)
  BY <1>0, <1>1, <1>4, <1>5 DEF RequestInv, Staged
<1> QED BY <1>1, <1>5, ToldStep, ToldFree

LEMMA StartOrphanResolutionStep ==
    ASSUME Inv, NEW a \in Admins, UNCHANGED syncVars, StartOrphanResolution(a) PROVE Fine
<1>1. PICK s \in Servers, op \in {"restore", "delete"}, target \in Version :
        Begin(a, [Free EXCEPT !.op = op, !.pc = "inspect", !.srv = s,
                              !.base = store.version, !.target = target])
  BY DEF StartOrphanResolution
<1> DEFINE x == [Free EXCEPT !.op = op, !.pc = "inspect", !.srv = s,
                             !.base = store.version, !.target = target]
<1>2. Told(a, x)
  BY <1>1 DEF Begin, Told, storeVars
<1>3. /\ IsRequest(x) /\ x.pc = "inspect" /\ x.op = op /\ x.base = store.version
      /\ x.target = target /\ x.rows = {}
  BY Named, StoreNow, FreeFields DEF IsRequest, RequestFields
<1> HIDE DEF x
<1>4. RequestInv(x, store, published)
  BY <1>3, Named, StoreNow DEF RequestInv, Staged
<1> QED BY <1>2, <1>4, ToldStep

LEMMA PrepareOrphanResolutionStep ==
    ASSUME Inv, NEW a \in Admins, UNCHANGED syncVars, PrepareOrphanResolution(a) PROVE Fine
<1> DEFINE q == adm[a]
           f == store.snap[q.target]
           m == store.meta[q.target]
           i == q.target \in store.index
           x == [q EXCEPT !.pc = "repair", !.files = f, !.meta = m, !.indexed = i]
<1>0. RequestInv(q, store, published)
  BY RequestNow
<1>1. /\ Trace(store, q.target).files = f /\ Trace(store, q.target).meta = m
      /\ Trace(store, q.target).indexed = i
  BY DEF Trace
<1>2. /\ q.pc = "inspect"
      /\ Told(a, Free) \/ ((q.op = "restore" => m.hash = f) /\ Told(a, x))
  BY <1>1 DEF PrepareOrphanResolution, ReadStep, Read, Fault, Goto, Leave, Told
<1>3. q.target \in Version /\ q.op \in {"restore", "delete"} /\ f \in Authored /\ m \in Metas
  BY <1>0, <1>2, Named, StoreNow DEF RequestInv, Staged, IsRequest
<1> HIDE DEF f, m, i
<1>4. /\ IsRequest(x) /\ x.pc = "repair" /\ x.op = q.op /\ x.base = q.base
      /\ x.target = q.target /\ x.rows = q.rows /\ x.files = f /\ x.meta = m
  BY <1>0, <1>3 DEF RequestInv, IsRequest, RequestFields
<1> HIDE DEF x, q
<1>5. ASSUME q.op = "restore" => m.hash = f PROVE RequestInv(x, store, published)
  BY <1>0, <1>2, <1>3, <1>4, <1>5 DEF RequestInv, Staged
<1> QED BY <1>2, <1>5, ToldStep, ToldFree

LEMMA RepairScriptSafe ==
    ASSUME Inv, NEW q, RequestInv(q, store, published), q.pc = "repair"
    PROVE  Safe(RepairScript(q), store, published, Lossy)
<1>0. /\ q.op \in {"snapshot", "mirror", "migration", "restore", "delete"}
      /\ q.files \in Authored /\ q.meta \in Metas /\ q.base \in 0 .. MaxVersion
      /\ Sane(store, published, Lossy) /\ Lossy \in BOOLEAN
  BY SaneNow DEF RequestInv, Staged, IsRequest
<1>1. CASE q.op = "snapshot"
  <2>1. q.base \in Version /\ q.meta.hash = q.files
    BY <1>1, Named DEF RequestInv, Staged, IsRequest
  <2>2. RepairScript(q) = SnapshotRepairScript(store, q.base, q.meta, q.files)
    BY <1>1 DEF RepairScript
  <2> QED BY <1>0, <2>1, <2>2, SnapshotRepairSafe
<1>2. CASE q.op = "mirror"
  <2>1. q.base \in Version
    BY <1>2, Named DEF RequestInv, Staged, IsRequest
  <2>2. RepairScript(q) = MirrorRebuildScript(store, q.base, q.meta, q.files)
    BY <1>2 DEF RepairScript
  <2> QED BY <1>0, <2>1, <2>2, MirrorRebuildSafe
<1>3. CASE q.op = "migration"
  <2>1. q.base \in Version /\ q.meta.hash = q.files /\ q.files # NoFiles
    BY <1>3, Named DEF RequestInv, Staged, IsRequest
  <2>2. RepairScript(q) = MigrationScript(store, q.base, q.meta, q.files)
    BY <1>3 DEF RepairScript
  <2> QED BY <1>0, <2>1, <2>2, MigrationSafe
<1>4. CASE q.op = "restore"
  <2>1. q.target \in Version /\ q.meta.hash = q.files
    BY <1>4, Named DEF RequestInv, Staged, IsRequest
  <2>2. RepairScript(q) = RestoreVersionScript(store, q.base, q.target, q.meta, q.files)
    BY <1>4 DEF RepairScript
  <2> QED BY <1>0, <2>1, <2>2, RestoreSafe
<1>5. CASE q.op = "delete"
  <2> DEFINE trace == [files |-> q.files, meta |-> q.meta, indexed |-> q.indexed]
  <2>1. q.target \in Version
    BY <1>5, Named DEF RequestInv, Staged, IsRequest
  <2>2. RepairScript(q) = DeleteOrphanScript(store, q.base, q.target, trace)
    BY <1>5 DEF RepairScript
  <2> HIDE DEF trace
  <2> QED BY <1>0, <2>1, <2>2, DeleteOrphanSafe
<1> QED BY <1>0, <1>1, <1>2, <1>3, <1>4, <1>5

LEMMA SubmitRepairStep ==
    ASSUME Inv, NEW a \in Admins, UNCHANGED syncVars, SubmitRepair(a) PROVE Fine
<1> DEFINE q == adm[a]
           r == RepairScript(q)
           x == [Free EXCEPT !.pc = "refresh", !.srv = q.srv]
           y == RequestHealthCheck(svc[q.srv], a)
<1>0. q.pc = "repair" /\ RequestInv(q, store, published)
  BY RequestNow DEF SubmitRepair
<1>1. PICK code \in Replies(r) :
        /\ Eval(r, code)
        /\ \/ adm' = [adm EXCEPT ![a] = x] /\ svc' = [svc EXCEPT ![q.srv] = y]
           \/ Leave(a) /\ UNCHANGED svc
  BY DEF SubmitRepair, Goto
<1>2. Safe(r, store, published, Lossy)
  BY <1>0, RepairScriptSafe
<1> HIDE DEF r
<1>3. CASE Leave(a) /\ UNCHANGED svc
  <2>1. ServicesOK'
    BY <1>3 DEF Inv, ServicesOK
  <2> QED BY <1>1, <1>2, <1>3, <2>1, ScriptFree
<1>4. CASE adm' = [adm EXCEPT ![a] = x] /\ svc' = [svc EXCEPT ![q.srv] = y]
  <2>1. q.srv \in Servers => ServiceInv(y)
    BY ServiceNow, Requested
  <2>2. IsRequest(x) /\ x.pc = "refresh" /\ x.op = "none" /\ x.base = 0 /\ x.rows = {}
    BY FreeFields DEF IsRequest, RequestFields
  <2> HIDE DEF x, y, q
  <2>3. ServicesOK'
    BY <1>4, <2>1, ServicesMove
  <2>4. StoreStep
    BY <1>1, <1>2, EvalStep
  <2>5. 0 <= store'.version
    BY <2>4, NumbersLater, Numbers
  <2>6. RequestInv(x, store', published')
    BY <2>2, <2>5 DEF RequestInv, Staged
  <2> QED BY <1>1, <1>2, <1>4, <2>3, <2>6, ScriptStep
<1> QED BY <1>1, <1>3, <1>4

LEMMA LeaveStep ==
    ASSUME Inv, NEW a \in Admins, UNCHANGED syncVars, RespondAfterRefresh(a) \/ Close(a)
    PROVE  Fine
<1>1. Told(a, Free)
  BY DEF RespondAfterRefresh, Close, Leave, Told, storeVars
<1> QED BY <1>1, ToldFree

-----------------------------------------------------------------------------
(* The environment, the first states and every step *)

LEMMA EnvironmentStep ==
    ASSUME Inv, Environment, UNCHANGED <<svc, adm, syncVars>> PROVE Fine
<1>1. StoreStep /\ faults' \in Nat /\ clock' \in 0 .. MaxClock
  <2>1. CASE TimePasses
    <3>1. StoreStep /\ faults' \in Nat
      BY <2>1, StoreRests DEF TimePasses
    <3>2. clock' \in 0 .. MaxClock
      BY <2>1, StoreAssumption, SMT DEF TimePasses, Inv
    <3> QED BY <3>1, <3>2
  <2>2. CASE LoseSnapshot
    BY <2>2, LoseSnapshotStore DEF Inv
  <2> QED BY <2>1, <2>2 DEF Environment
<1>2. RequestsOK' /\ NodesOK'
  BY <1>1, RequestsStay, NodesStay
<1>3. ServicesOK'
  BY DEF Inv, ServicesOK
<1> QED BY <1>1, <1>2, <1>3, NumbersLater DEF Inv, Fine

LEMMA HistoryStepFine ==
    ASSUME Inv, NEW s \in Servers, TimerFires(s) \/ HistoryStep(s), UNCHANGED <<adm, syncVars>>
    PROVE  Fine
  BY TimerFiresStep, HealthCheckStep, MigrateLegacyStep, PublishLegacySnapshotStep,
     ReadGcCandidatesStep, DeleteNextCandidateStep DEF HistoryStep

LEMMA RequestFine ==
    ASSUME Inv, NEW a \in Admins, Request(a), UNCHANGED syncVars PROVE Fine
  BY StartConfigStep, StartListStep, StartHistoryPathStep, SaveConfigStep,
     StartRollbackStep, StartRepairStep, StartOrphanResolutionStep DEF Request

LEMMA AdminStepFine ==
    ASSUME Inv, NEW a \in Admins, AdminStep(a), UNCHANGED syncVars PROVE Fine
<1>1. CASE \/ ReadConfigVersion(a) \/ ReadConfigFiles(a) \/ ReadConfigMirror(a)
           \/ VerifyConfigHash(a) \/ VerifyConfigVersion(a) \/ ReadHistoryList(a)
  BY <1>1, ReadConfigVersionStep, ReadConfigFilesStep, ReadConfigMirrorStep,
     VerifyConfigHashStep, VerifyConfigVersionStep, ReadHistoryListStep
<1>2. CASE \/ ReadHistoryDetail(a) \/ ReadDiffSource(a) \/ ReadDiffTarget(a)
           \/ PrepareRollback(a) \/ SubmitSave(a) \/ SubmitRollback(a)
  BY <1>2, ReadHistoryDetailStep, ReadDiffSourceStep, ReadDiffTargetStep,
     PrepareRollbackStep, SubmitSaveStep, SubmitRollbackStep
<1>3. CASE \/ ReadRepairMirror(a) \/ ReadRepairMeta(a) \/ ReadRepairDetail(a)
           \/ PrepareOrphanResolution(a) \/ SubmitRepair(a)
           \/ RespondAfterRefresh(a) \/ Close(a)
  BY <1>3, ReadRepairMirrorStep, ReadRepairMetaStep, ReadRepairDetailStep,
     PrepareOrphanResolutionStep, SubmitRepairStep, LeaveStep
<1> QED BY <1>1, <1>2, <1>3 DEF AdminStep

LEMMA SyncStepFine ==
    ASSUME Inv, NEW n \in Machines, SyncStep(n) \/ Crash(n) \/ Drift(n), UNCHANGED <<svc, adm>>
    PROVE  Fine
<1>1. CASE \/ SyncOnce(n) \/ SeedIfEligible(n) \/ WriteSeededState(n)
           \/ RecordHistoryFailure(n) \/ ReadRemoteFiles(n) \/ ReadCurrentMirror(n)
  BY <1>1, SyncOnceStep, SeedIfEligibleStep, WriteSeededStateStep,
     RecordHistoryFailureStep, ReadRemoteFilesStep, ReadCurrentMirrorStep
<1>2. CASE \/ VerifySnapshotHash(n) \/ VerifyRemoteVersion(n) \/ ApplyFile(n)
           \/ WriteAppliedState(n) \/ Heartbeat(n) \/ Crash(n) \/ Drift(n)
  BY <1>2, VerifySnapshotHashStep, VerifyRemoteVersionStep, ApplyFileStep,
     WriteAppliedStateStep, HeartbeatStep, CrashStep, DriftStep
<1> QED BY <1>1, <1>2 DEF SyncStep

\* Every step of every process keeps the invariant and is one of the store's.
LEMMA NextFine == ASSUME Inv, [Next]_vars PROVE Fine
<1>1. CASE UNCHANGED vars
  <2>1. UNCHANGED <<store, published, clock, faults, svc, adm, syncVars>>
    BY <1>1 DEF vars, storeVars
  <2>2. StoreStep /\ faults' \in Nat
    BY <2>1, StoreRests
  <2>3. RequestsOK' /\ NodesOK'
    BY <2>1, <2>2, RequestsStay, NodesStay
  <2>4. ServicesOK' /\ clock' \in 0 .. MaxClock
    BY <2>1 DEF Inv, ServicesOK
  <2> QED BY <2>2, <2>3, <2>4, NumbersLater DEF Inv, Fine
<1>2. CASE Next
  BY <1>2, EnvironmentStep, HistoryStepFine, RequestFine, AdminStepFine, SyncStepFine DEF Next
<1> QED BY <1>1, <1>2

LEMMA VersionSetsHold == VersionSets
<1> SUFFICES ASSUME NEW A \in SUBSET Version, NEW B \in SUBSET Version
             PROVE  Cardinality(A) \in Nat /\ (A \subseteq B => Cardinality(A) <= Cardinality(B))
  BY DEF VersionSets
<1>1. MaxVersion \in Int /\ 1 \in Int
  BY StoreAssumption, SMT
<1>2. IsFiniteSet(A) /\ IsFiniteSet(B)
  BY <1>1, FS_Interval, FS_Subset DEF Version
<1> QED BY <1>2, FS_CardinalityType, FS_Subset

LEMMA InitInv == ASSUME Init PROVE Inv
<1>1. StoreInit /\ HistoryInit /\ AdminInit /\ SyncInit
  BY DEF Init
<1>2. /\ store \in Stores /\ store.version \in {0, 1} /\ clock = 0 /\ faults = 0
      /\ StoreInv(store, published, Lossy)
  BY <1>1, FirstStore, BareStore DEF Bare
<1>3. store.version \in Nat
  BY <1>2, StoreFields
<1>4. clock \in 0 .. MaxClock /\ faults \in Nat /\ 0 <= store.version /\ ~(0 > 0)
  BY <1>2, <1>3, Numbers
<1>5. ServicesOK
  <2> DEFINE r == [pc |-> "idle", inconsistent |-> TRUE, observed |-> 0,
                   pending |-> {}, serving |-> {},
                   current |-> 0, cutoff |-> 0, todo |-> {}, files |-> NoFiles]
  <2>1. IsService(r) /\ r.pc = "idle" /\ r.serving = {} /\ r.todo = {}
    BY Named, FreeFields DEF IsService, ServiceFields, IsRequest
  <2>2. svc = [s \in Servers |-> r]
    BY <1>1 DEF HistoryInit
  <2> HIDE DEF r
  <2>3. ServiceInv(r)
    BY <2>1 DEF ServiceInv
  <2> QED BY <2>2, <2>3 DEF ServicesOK
<1>6. RequestsOK
  <2>1. RequestInv(Free, store, published)
    BY <1>3, FreeOK
  <2> QED BY <1>1, <2>1 DEF AdminInit, RequestsOK
<1>7. NodesOK
  <2>1. node = [n \in Machines |-> Idle]
    BY <1>1 DEF SyncInit
  <2>2. disk \in [Machines -> {[files |-> f, st |-> NoState] : f \in LocalSets}]
    BY <1>1 DEF SyncInit
  <2>3. disk = [n \in Machines |-> disk[n]]
    BY <2>2
  <2>4. ASSUME NEW n \in Machines PROVE NodeInv(Idle, disk[n], store, published)
    <3>1. PICK f \in LocalSets : disk[n] = [files |-> f, st |-> NoState]
      BY <2>2
    <3>2. IsDisk(disk[n]) /\ disk[n].files = f /\ StateOK(disk[n].st, store, published)
      <4>0. LET d == [files |-> f, st |-> NoState] IN
            DOMAIN d = {"files", "st"} /\ d.files = f /\ d.st = NoState
        OBVIOUS
      <4>1. /\ DOMAIN disk[n] = {"files", "st"} /\ disk[n].files = f
            /\ disk[n].st = NoState
        BY <3>1, <4>0
      <4>2. /\ DOMAIN NoState = {"exists", "synced", "status", "managed", "ok"}
            /\ NoState.synced = 0
        BY DEF NoState
      <4>3. StateOK(NoState, store, published)
        BY <1>4, <4>2, Named DEF StateOK
      <4> QED BY <4>1, <4>3 DEF IsDisk
    <3>3. IsNode(Idle) /\ Idle.pc = "idle" /\ Idle.ver = 0
      BY Named, FreeFields DEF Idle, IsNode, IsRequest
    <3> QED BY <1>4, <3>2, <3>3 DEF NodeInv
  <2> QED BY <2>1, <2>3, <2>4 DEF NodesOK
<1> QED BY <1>2, <1>4, <1>5, <1>6, <1>7, VersionSetsHold DEF Inv

-----------------------------------------------------------------------------
(* The theorems *)

\* The invariant holds at every moment, however the processes, administrators,
\* nodes and faults interleave.
THEOREM InvCorrect == Spec => []Inv
<1>1. Init => Inv
  BY InitInv
<1>2. Inv /\ [Next]_vars => Inv'
  BY NextFine DEF Fine
<1> QED BY <1>1, <1>2, PTL DEF Spec

\* A health check runs exactly while somebody waits for it, the collector only
\* holds candidates below the version it saw, and no state file is ahead of
\* the version key.
THEOREM TypeCorrect == Spec => []TypeOK
<1>1. ASSUME Inv PROVE TypeOK
  <2>1. ASSUME NEW s \in Servers
        PROVE  /\ svc[s].pending \cup svc[s].serving \subseteq Admins \cup {Timer}
               /\ svc[s].pc = "idle" <=> svc[s].serving = {}
               /\ svc[s].todo \subseteq 1 .. svc[s].current - 1
    <3>1. ServiceInv(svc[s]) /\ IsService(svc[s])
      BY <1>1, ServiceNow
    <3>2. ASSUME NEW v \in svc[s].todo PROVE v \in 1 .. svc[s].current - 1
      <4>1. v \in Version /\ v < svc[s].current /\ svc[s].current \in 0 .. MaxVersion
        BY <3>1 DEF ServiceInv, IsService
      <4> QED BY <4>1, Numbers
    <3> QED BY <3>1, <3>2 DEF ServiceInv, IsService
  <2>2. \A a \in Admins : adm[a].files \in Authored /\ adm[a].meta \in Metas
    BY <1>1, RequestNow DEF IsRequest
  <2>3. ASSUME NEW n \in Machines PROVE disk[n].st.synced \in 0 .. store.version
    <3>1. disk[n].st.synced \in 0 .. MaxVersion /\ disk[n].st.synced <= store.version
      BY <1>1, NodeNow DEF NodeInv, StateOK
    <3> QED BY <1>1, <3>1, StoreNow, Numbers
  <2> QED BY <1>1, <2>1, <2>2, <2>3, StoreNow DEF TypeOK
<1> QED BY <1>1, InvCorrect, PTL

\* Every answer shown to an administrator is about a version as it was
\* published, whatever other administrators, the services and the faults did
\* between the commands of the request.
THEOREM AnswersAreTrueCorrect == Spec => []AnswersAreTrue
<1>1. ASSUME Inv PROVE AnswersAreTrue
  <2> SUFFICES ASSUME NEW a \in Admins, adm[a].pc = "answered"
               PROVE  LET q == adm[a] IN
                      /\ q.op = "get" /\ ~Compat => q.files = published[q.base]
                      /\ q.op \in {"save", "rollback"} => q.files = published[q.base + 1]
                      /\ q.op \in {"rollback", "detail", "diff"} =>
                            q.files = published[q.target]
                      /\ q.op = "diff" => q.other = published[q.base]
                      /\ \A v \in q.rows : published[v] # NoFiles
    BY DEF AnswersAreTrue
  <2>1. RequestInv(adm[a], store, published)
    BY <1>1, RequestNow
  <2> QED BY <2>1 DEF RequestInv, Known
<1> QED BY <1>1, InvCorrect, PTL

\* No schedule of the collectors of several processes, of repairs and of
\* scripts that stop half way removes one of the Retain newest versions.
THEOREM NewestAreRetainedCorrect == Spec => []NewestAreRetained
<1>1. ASSUME Inv PROVE NewestAreRetained
  <2> SUFFICES ASSUME NEW v \in 1 .. store.version - 1, Newest(v)
               PROVE  /\ v \in store.index
                      /\ store.meta[v].hash = published[v]
                      /\ store.snap[v] = published[v] \/ Lossy
    BY DEF NewestAreRetained, Lossy
  <2>1. v \in 1 .. store.version
    BY <1>1, StoreNow, Numbers
  <2>2. published[v] # NoFiles /\ Cardinality(Above(published, v)) < Retain
    BY DEF Newest, Above
  <2>3. Kept(store, v, Lossy)
    BY <1>1, <2>2 DEF Inv, StoreInv, Retained
  <2> QED BY <1>1, <2>1, <2>3 DEF Inv, StoreInv, Truthful, Kept
<1> QED BY <1>1, InvCorrect, PTL

\* In required mode the state file of a node vouches for nothing but what was
\* published under the version it names, wherever the node stopped and whatever
\* part of a file or of the state a full disk left out; and the files of a node
\* that finds itself in step are the files of that version, or none.
THEOREM StateIsTrueCorrect ==
    ASSUME ~Compat
    PROVE  Spec => []StateIsTrue
<1>1. ASSUME Inv PROVE StateIsTrue
  <2> SUFFICES ASSUME NEW n \in Machines, disk[n].st.synced > 0
               PROVE  LET st == disk[n].st IN
                      /\ \A f \in DOMAIN st.ok :
                            \/ st.ok[f] = NoHash
                            \/ /\ f \in DOMAIN published[st.synced]
                               /\ st.ok[f] = published[st.synced][f]
                      /\ LocalMatches(n, st.synced) =>
                            disk[n].files \in {published[st.synced], NoFiles}
    BY DEF StateIsTrue
  <2>1. Vouched(disk[n].st, published[disk[n].st.synced])
    BY <1>1, NodeNow DEF NodeInv, StateOK
  <2> QED BY <2>1 DEF Vouched, LocalMatches
<1> QED BY <1>1, InvCorrect, PTL

\* While Redis keeps its data, only sets of files that somebody wrote as a
\* whole are ever published.
THEOREM PublishedIsWholeCorrect == Spec => []PublishedIsWhole
<1>1. Inv => PublishedIsWhole
  BY DEF Inv, StoreInv, PublishedIsWhole
<1> QED BY <1>1, InvCorrect, PTL

-----------------------------------------------------------------------------
(* The register *)

ContentsOf(p) == [v \in {w \in Version : p[w] # NoFiles} |-> p[v]]
HistoryOf(s) == [v \in Listed(s) |-> s.snap[v]]

LEMMA ContentsPut ==
    ASSUME NEW p \in [Version -> Authored], NEW v \in Version, NEW f, f # NoFiles
    PROVE  ContentsOf([p EXCEPT ![v] = f]) = Register!Put(ContentsOf(p), v, f)
<1> DEFINE q == [p EXCEPT ![v] = f]
           A == {w \in Version : p[w] # NoFiles}
           B == {w \in Version : q[w] # NoFiles}
<1>1. \A w \in Version : q[w] = IF w = v THEN f ELSE p[w]
  OBVIOUS
<1> HIDE DEF q
<1>2. B = A \cup {v}
  BY <1>1
<1>3. DOMAIN ContentsOf(p) = A /\ \A w \in A : ContentsOf(p)[w] = p[w]
  BY DEF ContentsOf
<1>4. \A w \in B : q[w] = IF w = v THEN f ELSE ContentsOf(p)[w]
  BY <1>1, <1>2, <1>3
<1>5. ContentsOf(q) = [w \in B |-> q[w]]
  BY DEF ContentsOf
<1>6. Register!Put(ContentsOf(p), v, f) =
        [w \in A \cup {v} |-> IF w = v THEN f ELSE ContentsOf(p)[w]]
  BY <1>3 DEF Register!Put
<1> HIDE DEF A, B
<1>7. [w \in B |-> q[w]] = [w \in B |-> IF w = v THEN f ELSE ContentsOf(p)[w]]
  BY <1>4
<1>8. ContentsOf(q) = Register!Put(ContentsOf(p), v, f)
  BY <1>2, <1>5, <1>6, <1>7
<1> QED BY <1>8 DEF q

LEMMA HistoryPut ==
    ASSUME NEW s, NEW t, SameFiles(s, t), NEW v, v \notin Listed(s),
           Listed(t) = Listed(s) \cup {v}
    PROVE  HistoryOf(t) = Register!Put(HistoryOf(s), v, t.snap[v])
<1> DEFINE f == t.snap[v]
<1>1. DOMAIN HistoryOf(s) = Listed(s) /\ \A w \in Listed(s) : HistoryOf(s)[w] = s.snap[w]
  BY DEF HistoryOf
<1>2. \A w \in Listed(t) : t.snap[w] = IF w = v THEN f ELSE HistoryOf(s)[w]
  BY <1>1 DEF SameFiles
<1>3. HistoryOf(t) = [w \in Listed(t) |-> t.snap[w]]
  BY DEF HistoryOf
<1>4. Register!Put(HistoryOf(s), v, f) =
        [w \in Listed(s) \cup {v} |-> IF w = v THEN f ELSE HistoryOf(s)[w]]
  BY <1>1 DEF Register!Put
<1> QED BY <1>2, <1>3, <1>4

LEMMA HistoryDrop ==
    ASSUME NEW s, NEW t, SameFiles(s, t), NEW v, Listed(t) = Listed(s) \ {v}
    PROVE  HistoryOf(t) = Register!Drop(HistoryOf(s), v)
<1>1. DOMAIN HistoryOf(s) = Listed(s) /\ \A w \in Listed(s) : HistoryOf(s)[w] = s.snap[w]
  BY DEF HistoryOf
<1>2. \A w \in Listed(t) : t.snap[w] = HistoryOf(s)[w]
  BY <1>1 DEF SameFiles
<1>3. HistoryOf(t) = [w \in Listed(t) |-> t.snap[w]]
  BY DEF HistoryOf
<1>4. Register!Drop(HistoryOf(s), v) = [w \in Listed(s) \ {v} |-> HistoryOf(s)[w]]
  BY <1>1 DEF Register!Drop
<1> QED BY <1>2, <1>3, <1>4

LEMMA HistorySame ==
    ASSUME NEW s, NEW t, SameFiles(s, t), Listed(t) = Listed(s)
    PROVE  HistoryOf(t) = HistoryOf(s)
<1>1. \A w \in Listed(s) : t.snap[w] = s.snap[w]
  BY DEF SameFiles
<1> QED BY <1>1 DEF HistoryOf

LEMMA RegisterInit == ASSUME Init PROVE Register!Init
<1>1. /\ store \in Stores /\ Bare(store, published)
      /\ store.version = 0 => store.mirror = NoFiles
      /\ store.version # 0 => store.mirror \in FileSets
  BY FirstStore DEF Init
<1>2. Listed(store) = {}
  BY <1>1 DEF Bare, Listed
<1> DEFINE none == [v \in {} |-> v]
<1>3. History = none
  BY <1>2 DEF History
<1>4. published = [v \in Version |-> IF v = store.version THEN store.mirror ELSE NoFiles]
  BY <1>1 DEF Bare
<1>5. CASE store.version = 0
  <2>1. \A v \in Version : published[v] = NoFiles
    BY <1>1, <1>4, <1>5
  <2>2. {w \in Version : published[w] # NoFiles} = {}
    BY <2>1
  <2>3. Contents = none
    BY <2>2 DEF Contents
  <2> QED BY <1>3, <1>5, <2>3 DEF Register!Init
<1>6. CASE store.version = 1
  <2> DEFINE f == store.mirror
  <2>1. 1 # 0
    BY SMT
  <2>2. f \in Authored /\ f # NoFiles
    BY <1>1, <1>6, <2>1, FilesAssumption DEF Authored
  <2>3. \A v \in Version : published[v] = IF v = 1 THEN f ELSE NoFiles
    BY <1>4, <1>6
  <2> HIDE DEF f
  <2>4. {w \in Version : published[w] # NoFiles} = {1}
    <3>1. 1 \in Version
      BY One
    <3>2. \A w \in Version : published[w] # NoFiles <=> w = 1
      BY <2>2, <2>3
    <3> QED BY <3>1, <3>2
  <2>5. Contents = [w \in {1} |-> f]
    <3>1. \A w \in {1} : published[w] = f
      BY <2>3, One
    <3>2. Contents = [w \in {1} |-> published[w]]
      BY <2>4 DEF Contents
    <3> QED BY <3>1, <3>2
  <2>6. Register!Put(none, 1, f) = [w \in {1} |-> f]
    <3>1. DOMAIN none \cup {1} = {1}
      OBVIOUS
    <3> HIDE DEF none
    <3>2. Register!Put(none, 1, f) = [w \in {1} |-> IF w = 1 THEN f ELSE none[w]]
      BY <3>1 DEF Register!Put
    <3> QED BY <3>2
  <2> QED BY <1>3, <1>6, <2>1, <2>2, <2>5, <2>6 DEF Register!Init
<1> QED BY <1>1, <1>5, <1>6 DEF Bare

LEMMA RegisterStep == ASSUME Inv, StoreStep PROVE [Register!Next]_(Register!vars)
<1> DEFINE s == store
           t == store'
           p == published
           q == published'
<1>0. /\ Moves(s, p, t, q) /\ SameFiles(s, t) /\ p \in [Version -> Authored]
      /\ t.mirror \in Authored
  BY NumbersLater, StoreFields DEF StoreStep, Good, Moves, Inv, StoreInv
<1>1. /\ Contents = ContentsOf(p) /\ Contents' = ContentsOf(q)
      /\ History = HistoryOf(s) /\ History' = HistoryOf(t)
  BY DEF Contents, ContentsOf, History, HistoryOf
<1>2. CASE Silent(s, p, t, q)
  <2>1. t.version = s.version /\ ContentsOf(q) = ContentsOf(p) /\ HistoryOf(t) = HistoryOf(s)
    BY <1>0, <1>2, HistorySame DEF Silent
  <2> QED BY <1>1, <2>1 DEF Register!vars
<1>3. CASE Published(s, p, t, q)
  <2>1. t.version = s.version + 1 /\ t.version \in Version /\ t.mirror # NoFiles
    BY <1>3 DEF Published
  <2>2. ContentsOf(q) = Register!Put(ContentsOf(p), s.version + 1, t.mirror)
    <3>1. q = [p EXCEPT ![s.version + 1] = t.mirror] /\ s.version + 1 \in Version
      BY <1>3, <2>1 DEF Published
    <3> QED BY <1>0, <2>1, <3>1, ContentsPut
  <2>3. HistoryOf(t) = Register!Put(HistoryOf(s), s.version + 1, t.mirror)
    <3>1. /\ s.version + 1 \notin Listed(s) /\ t.snap[s.version + 1] = t.mirror
          /\ Listed(t) = Listed(s) \cup {s.version + 1}
      BY <1>3 DEF Published
    <3> DEFINE v == s.version + 1
    <3>2. SameFiles(s, t) /\ v \notin Listed(s) /\ Listed(t) = Listed(s) \cup {v}
      BY <1>0, <3>1
    <3> HIDE DEF s, t, v
    <3>3. HistoryOf(t) = Register!Put(HistoryOf(s), v, t.snap[v])
      BY <3>2, HistoryPut
    <3> QED BY <3>1, <3>3 DEF v
  <2>4. s.version \in DOMAIN HistoryOf(s) \cup {0} \/ "snapshot" \in Faults
    BY <1>3 DEF Published, HistoryOf, CanLose
  <2>5. Register!Publish(t.mirror)
    BY <1>1, <2>1, <2>2, <2>3, <2>4 DEF Register!Publish
  <2> QED BY <1>0, <2>5 DEF Register!Next
<1>4. CASE PublishedNothing(s, p, t, q)
  <2>1. HistoryOf(t) = HistoryOf(s)
    BY <1>0, <1>4, HistorySame DEF PublishedNothing
  <2>2. Register!PublishNothing
    BY <1>1, <1>4, <2>1 DEF PublishedNothing, Register!PublishNothing
  <2> QED BY <2>2 DEF Register!Next
<1>5. CASE Archived(s, p, t, q)
  <2>1. /\ t.version = s.version /\ q = p /\ s.version \in Version
        /\ s.version \notin Listed(s) /\ p[s.version] # NoFiles
    BY <1>5 DEF Archived
  <2>2. HistoryOf(t) = Register!Put(HistoryOf(s), s.version, p[s.version])
    <3>1. t.snap[s.version] = p[s.version] /\ Listed(t) = Listed(s) \cup {s.version}
      BY <1>5 DEF Archived
    <3> DEFINE v == s.version
    <3>2. SameFiles(s, t) /\ v \notin Listed(s) /\ Listed(t) = Listed(s) \cup {v}
      BY <1>0, <2>1, <3>1
    <3> HIDE DEF s, t, v
    <3>3. HistoryOf(t) = Register!Put(HistoryOf(s), v, t.snap[v])
      BY <3>2, HistoryPut
    <3> QED BY <3>1, <3>3 DEF v
  <2>3. s.version \in DOMAIN ContentsOf(p) /\ ContentsOf(p)[s.version] = p[s.version]
    BY <2>1 DEF ContentsOf
  <2>4. s.version \notin DOMAIN HistoryOf(s)
    BY <2>1 DEF HistoryOf
  <2>5. Register!Archive
    BY <1>1, <2>1, <2>2, <2>3, <2>4 DEF Register!Archive
  <2> QED BY <2>5 DEF Register!Next
<1>6. CASE Forgotten(s, p, t, q)
  <2>1. PICK v \in Listed(s) : /\ v < s.version \/ (CanLose /\ v = s.version)
                               /\ Listed(t) = Listed(s) \ {v}
    BY <1>6 DEF Forgotten
  <2>2. HistoryOf(t) = Register!Drop(HistoryOf(s), v)
    BY <1>0, <2>1, HistoryDrop
  <2>3. t.version = s.version /\ q = p
    BY <1>6 DEF Forgotten
  <2>4. Register!Forget(v)
    BY <1>1, <2>1, <2>2, <2>3 DEF Register!Forget, CanLose
  <2>5. v \in DOMAIN HistoryOf(s)
    BY <2>1 DEF HistoryOf
  <2> QED BY <1>1, <2>4, <2>5 DEF Register!Next
<1> QED BY <1>0, <1>2, <1>3, <1>4, <1>5, <1>6 DEF Moves

\* The centre implements the register: its scripts, which stop at any of their
\* writes, its administrators, collectors, repairs and nodes publish versions
\* one by one, each whole, and no readable version ever changes.
THEOREM RegisterRefined == Spec => IsRegister
<1>1. Init => Register!Init
  BY RegisterInit
<1>2. Inv /\ [Next]_vars => [Register!Next]_(Register!vars)
  BY NextFine, RegisterStep DEF Fine
<1> QED BY <1>1, <1>2, InvCorrect, PTL DEF Spec, IsRegister, Register!Spec
=============================================================================
