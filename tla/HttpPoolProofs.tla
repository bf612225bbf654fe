--------------------------- MODULE HttpPoolProofs ---------------------------
(***************************************************************************)
(* Lifetime of the upstream pools, for any number of sessions, pools and   *)
(* reloads: what a table, a prepared reload or a session refers to is not  *)
(* being destroyed.  And what is on the wire of a connection that is used  *)
(* again: never the rest of a response that was read.  And what the shards *)
(* count of their own connections.  With what HttpSlotProofs shows, that   *)
(* makes the invariant of the pools; the theorems at the end follow.       *)
(***************************************************************************)
EXTENDS HttpSlotProofs, FiniteSetTheorems

-----------------------------------------------------------------------------
(* Sizes of finite sets *)

\* What adding or removing at most one element does to the size of a set.
LEMMA OneElement ==
    ASSUME NEW A, NEW B, NEW s, IsFiniteSet(A), A \ {s} = B \ {s}
    PROVE  /\ Cardinality(A) \in Nat /\ Cardinality(B) \in Nat
           /\ Cardinality(B) = Cardinality(A) + In(s, B) - In(s, A)
           /\ s \in A => Cardinality(A) > 0
           /\ IsFiniteSet(B)
<1>0. IsFiniteSet(B)
  <2>1. IsFiniteSet(A \cup {s}) /\ B \in SUBSET (A \cup {s})
    BY FS_AddElement
  <2> QED BY <2>1, FS_Subset
<1>1. Cardinality(A) \in Nat
  BY FS_CardinalityType
<1>2. s \in A => Cardinality(A) > 0
  BY <1>1, FS_EmptySet
<1>3. CASE s \in A <=> s \in B
  <2>1. A = B
    BY <1>3
  <2> QED BY <1>0, <1>1, <1>2, <2>1 DEF In
<1>4. CASE s \notin A /\ s \in B
  <2>1. B = A \cup {s}
    BY <1>4
  <2>2. Cardinality(B) = Cardinality(A) + 1
    BY <2>1, <1>4, FS_AddElement
  <2> QED BY <1>0, <1>1, <1>4, <2>2 DEF In
<1>5. CASE s \in A /\ s \notin B
  <2>1. B = A \ {s}
    BY <1>5
  <2>2. Cardinality(B) = Cardinality(A) - 1
    BY <2>1, <1>5, FS_RemoveElement
  <2> QED BY <1>0, <1>1, <1>2, <1>5, <2>2 DEF In
<1> QED BY <1>3, <1>4, <1>5

LEMMA CountingHolds == Counting
<1>1. SizesAreNumbers
  BY FS_CardinalityType DEF SizesAreNumbers
<1>2. EmptyIsZero
  BY FS_EmptySet DEF EmptyIsZero
<1>3. SubsetsAreSmaller
  BY FS_Subset DEF SubsetsAreSmaller
<1>4. UnionsAreFinite
  BY FS_Union DEF UnionsAreFinite
<1>5. OneElementCounts
  BY OneElement DEF OneElementCounts
<1> QED BY <1>1, <1>2, <1>3, <1>4, <1>5 DEF Counting

USE ZenonT(30)

\* The first table holds live pools, and nobody refers to one.
LEMMA InitRef == Init => RefInv
  BY SetsAssumption, SMT DEF Init, RefInv, RefType, NoUseAfterDestroy, LifeStates

\* Steps inside a pool move no reference.
LEMMA QuietRef ==
    ASSUME RefInv, UNCHANGED <<table, prepared, life, pool>>
    PROVE  RefInv'
  BY DEF RefInv, RefType, NoUseAfterDestroy

\* prepare_reload() and publish_reload()
LEMMA ReloadRef ==
    ASSUME RefInv,
           \/ \E kept, made \in SUBSET Pools : PrepareReload(kept, made)
           \/ PublishReload
    PROVE  RefInv'
<1>1. ASSUME NEW kept \in SUBSET Pools, NEW made \in SUBSET Pools, PrepareReload(kept, made)
      PROVE  RefInv'
  <2>1. /\ table' = table /\ pool' = pool /\ prepared' = kept \cup made
        /\ kept \subseteq table
        /\ life' = [p \in Pools |-> IF p \in made THEN "live" ELSE life[p]]
    BY <1>1 DEF PrepareReload
  <2>2. RefType'
    BY <2>1 DEF RefInv, RefType, LifeStates
  <2>3. \A p \in Pools : life[p] = "live" \/ p \in made => life'[p] = "live"
    BY <2>1
  <2>4. \A p \in table' \cup prepared' : life'[p] = "live"
    BY <2>1, <2>3 DEF RefInv, RefType
  <2>5. NoUseAfterDestroy'
    BY <2>1, <2>3 DEF RefInv, RefType, NoUseAfterDestroy
  <2> QED BY <2>2, <2>4, <2>5 DEF RefInv
<1>2. CASE PublishReload
  BY <1>2 DEF PublishReload, RefInv, RefType, NoUseAfterDestroy
<1> QED BY <1>1, <1>2

\* ~HttpPool() starts for a pool nobody refers to, and runs on for one nobody can refer to.
LEMMA DestroyRef ==
    ASSUME RefInv, NEW p \in Pools, DestroyStep(p)
    PROVE  RefInv'
<1>1. PICK l \in LifeStates : life' = [life EXCEPT ![p] = l]
  BY DEF DestroyStep, DestroyPool, CloseIdle, CloseGiveTotal, CloseGiveBudget, CloseDone,
     LifeStates
<1>2. UNCHANGED <<table, prepared, pool>>
  BY DEF DestroyStep, DestroyPool, CloseIdle, CloseGiveTotal, CloseGiveBudget, CloseDone
<1>3. p \notin table \cup prepared /\ \A a \in Actors : pool[a] # p
  <2>1. CASE DestroyPool(p)
    BY <2>1 DEF DestroyPool, Unreferenced
  <2>2. CASE life[p] # "live"
    BY <2>2, SetsAssumption DEF RefInv, RefType, NoUseAfterDestroy
  <2> QED BY <2>1, <2>2 DEF DestroyStep, CloseIdle, CloseGiveTotal, CloseGiveBudget, CloseDone
<1> QED BY <1>1, <1>2, <1>3 DEF RefInv, RefType, NoUseAfterDestroy

\* A session or the statistics service takes a reference from the table, or drops its own.
LEMMA ReferRef ==
    ASSUME RefInv, NEW a \in Actors, NEW p \in table \cup {None},
           pool' = [pool EXCEPT ![a] = p], UNCHANGED <<table, prepared, life>>
    PROVE  RefInv'
  BY DEF RefInv, RefType, NoUseAfterDestroy

\* Eviction
LEMMA EvictRef ==
    ASSUME RefInv, NEW a \in Actors, EvictStep(a)
    PROVE  RefInv'
<1>1. CASE EvictInSweep(a) \/ EvictGiveTotal(a) \/ EvictGiveBudget(a)
  BY <1>1, QuietRef, ZenonT(60) DEF EvictInSweep, EvictFrom, EvictGiveTotal, EvictGiveBudget, tableVars
<1>2. CASE SweepDone(a)
  BY <1>2, QuietRef, ReferRef DEF SweepDone, tableVars
<1> QED BY <1>1, <1>2 DEF EvictStep

\* acquire(), the proxy attempt and release()
LEMMA RequestRef ==
    ASSUME RefInv, NEW r \in Requests, RouteRequest(r) \/ RequestStep(r)
    PROVE  RefInv'
<1>1. r \in Actors
  BY DEF Actors
<1>2. CASE RouteRequest(r)
  BY <1>1, <1>2, ReferRef, ZenonT(60) DEF RouteRequest, tableVars
<1>3. CASE RefuseInFlight(r)
  BY <1>1, <1>3, ReferRef, ZenonT(60) DEF RefuseInFlight, tableVars
<1>4. CASE EndAttempt(r)
  BY <1>1, <1>4, QuietRef, ReferRef DEF EndAttempt, tableVars
<1>5. CASE EvictStep(r)
  BY <1>1, <1>5, EvictRef
<1>6. CASE EvictInScan(r) \/ ReserveInFlight(r) \/ ScanPop(r) \/ ScanThrow(r) \/ ScanNext(r)
  BY <1>6, QuietRef
  DEF EvictInScan, EvictFrom, ReserveInFlight, ScanPop, ScanThrow, ScanNext, tableVars
<1>7. CASE Track(r) \/ TrackThrow(r) \/ ReserveTotal(r) \/ ReserveBudget(r)
  BY <1>7, QuietRef DEF Track, TrackThrow, ReserveTotal, ReserveBudget, tableVars
<1>8. CASE Insert(r) \/ InsertThrow(r) \/ ConnectOk(r) \/ ConnectFail(r)
  BY <1>8, QuietRef DEF Insert, InsertThrow, ConnectOk, ConnectFail, tableVars
<1>9. CASE BuildRefuses(r) \/ UseOk(r) \/ UseBad(r) \/ UseThrow(r)
  BY <1>9, QuietRef DEF BuildRefuses, UseOk, UseBad, UseThrow, EndUse, tableVars
<1>10. CASE ReleaseIdle(r) \/ ReleaseNoMemory(r) \/ DropInFlight(r) \/ ReleaseClosed(r)
  BY <1>10, QuietRef
  DEF ReleaseIdle, ReleaseNoMemory, DropInFlight, ReleaseClosed, tableVars
<1>11. CASE GiveTotal(r) \/ GiveBudget(r) \/ GiveInFlight(r)
  BY <1>11, QuietRef DEF GiveTotal, GiveBudget, GiveInFlight, tableVars
<1> QED BY <1>2, <1>3, <1>4, <1>5, <1>6, <1>7, <1>8, <1>9, <1>10, <1>11 DEF RequestStep

\* Whatever a reload, a session, the statistics service or a destructor does
LEMMA StepRef == RefInv /\ [Next]_vars => RefInv'
<1> SUFFICES ASSUME RefInv, [Next]_vars PROVE RefInv'
  OBVIOUS
<1>1. CASE UNCHANGED vars
  BY <1>1, QuietRef DEF vars, tableVars
<1>2. ASSUME NEW a \in Sweepers, StatsSweep(a) PROVE RefInv'
  BY <1>2, ReferRef, ZenonT(60) DEF StatsSweep, tableVars, Actors
<1>3. ASSUME NEW a \in Sweepers, EvictStep(a) PROVE RefInv'
  BY <1>3, EvictRef DEF Actors
<1> QED BY <1>1, <1>2, <1>3, ReloadRef, DestroyRef, RequestRef DEF Next

\* For any number of sessions, pools, shards and reloads, a session or the statistics
\* service never works on an HttpPool whose destructor has started: the shared_ptr it took
\* from UpstreamManager keeps the pool alive across publish_reload().
THEOREM NoUseAfterDestroyCorrect == Spec => []NoUseAfterDestroy
<1>1. RefInv => NoUseAfterDestroy
  BY DEF RefInv
<1> QED BY <1>1, InitRef, StepRef, PTL DEF Spec

-----------------------------------------------------------------------------
(* Connections that are used again *)

\* read_proxy_response() leaves connection_close and read_buffer alone only when the
\* response was read to its end and nothing came after it.
LEMMA KeptIsRead ==
    \A got \in Outcomes : ~got.close /\ ~got.rest => ~got.unread
<1> SUFFICES ASSUME NEW a \in Answers
             PROVE  LET got == ReadProxyResponse(a) IN ~got.close /\ ~got.rest => ~got.unread
  BY DEF Outcomes
<1>1. CASE ReadProxyResponse(a) = Failed
  BY <1>1, SMT DEF Failed
<1>2. CASE ReadProxyResponse(a) = NoBody(a)
  <2>1. /\ ReadProxyResponse(a).close = (~a.keepAlive \/ a.surplus)
        /\ ReadProxyResponse(a).unread = a.surplus
    BY <1>2, SMT DEF NoBody
  <2> QED BY <2>1, Zenon
<1>3. CASE ReadProxyResponse(a) = UntilEof(a)
  BY <1>3, SMT DEF UntilEof, Failed
<1>4. CASE ReadProxyResponse(a) = Delimited(a)
  <2>1. CASE a.body = "Success"
    <3>1. /\ ReadProxyResponse(a).rest = a.surplus
          /\ ReadProxyResponse(a).unread = a.surplus
      BY <1>4, <2>1, SMT DEF Delimited
    <3> QED BY <3>1, Zenon
  <2>2. CASE a.body # "Success"
    BY <1>4, <2>2, SMT DEF Delimited, Failed
  <2> QED BY <2>1, <2>2
<1> QED BY <1>1, <1>2, <1>3, <1>4 DEF ReadProxyResponse

\* Everybody is at rest.
LEMMA InitWire == Init => HeldInv /\ WireInv
<1> SUFFICES ASSUME Init PROVE HeldInv /\ WireInv
  OBVIOUS
<1>1. 0 \in Shards
  BY NumbersAssumption, SMT DEF Shards
<1>2. HeldInv
  BY <1>1 DEF Init, HeldInv, ActorPCs, Actors
<1>3. WireInv
  BY SMT DEF Init, WireInv, Kept
<1> QED BY <1>2, <1>3

\* An actor moves on and keeps its pool.
LEMMA GotoHeld ==
    ASSUME HeldInv, NEW a \in Actors, NEW l \in ActorPCs, Goto(a, l),
           pc[a] # "new" \/ a \notin Requests,
           UNCHANGED <<pool, shard>>
    PROVE  HeldInv'
  BY SMT DEF HeldInv, Goto

\* The statistics service holds a pool of its own.
LEMMA SweeperHeld ==
    ASSUME HeldInv, NEW a \in Sweepers, NEW l \in ActorPCs, Goto(a, l),
           NEW p, pool' = [pool EXCEPT ![a] = p], pool \in [Actors -> Pools \cup {None}],
           UNCHANGED shard
    PROVE  HeldInv'
  BY SetsAssumption DEF HeldInv, Goto, Actors

\* Eviction
LEMMA EvictHeld ==
    ASSUME HeldInv, RefInv, NEW a \in Actors, EvictStep(a)
    PROVE  HeldInv'
<1>1. CASE EvictInSweep(a)
  BY <1>1, GotoHeld DEF EvictInSweep, EvictFrom, callVars, ActorPCs
<1>2. CASE EvictGiveTotal(a)
  BY <1>2, GotoHeld DEF EvictGiveTotal, callVars, ActorPCs
<1>3. CASE EvictGiveBudget(a)
  BY <1>3, GotoHeld DEF EvictGiveBudget, callVars, ActorPCs
<1>4. CASE SweepDone(a)
  <2>1. CASE a \in Sweepers
    BY <1>4, <2>1, SweeperHeld DEF SweepDone, callVars, ActorPCs, RefInv, RefType
  <2>2. CASE a \notin Sweepers
    BY <1>4, <2>2, GotoHeld DEF SweepDone, callVars, ActorPCs
  <2> QED BY <2>1, <2>2
<1> QED BY <1>1, <1>2, <1>3, <1>4 DEF EvictStep

\* acquire()
AcquireStep(r) ==
    \/ RouteRequest(r) \/ EvictInScan(r) \/ ReserveInFlight(r) \/ RefuseInFlight(r)
    \/ ScanPop(r) \/ ScanThrow(r) \/ ScanNext(r) \/ Track(r) \/ TrackThrow(r)
    \/ ReserveTotal(r) \/ ReserveBudget(r) \/ Insert(r) \/ InsertThrow(r)
    \/ ConnectOk(r) \/ ConnectFail(r)

LEMMA AcquireHeld ==
    ASSUME HeldInv, RefInv, NEW r \in Requests, AcquireStep(r)
    PROVE  HeldInv'
<1>1. r \in Actors
  BY DEF Actors
<1>2. CASE RouteRequest(r)
  BY <1>1, <1>2, SetsAssumption, SMT
  DEF RouteRequest, callVars, HeldInv, RefInv, RefType, Goto, ActorPCs
<1>3. CASE RefuseInFlight(r)
  BY <1>1, <1>3, SMT DEF RefuseInFlight, HeldInv, RefInv, RefType, Goto, ActorPCs
<1>4. CASE ReserveInFlight(r)
  BY <1>1, <1>4, SMT DEF ReserveInFlight, HeldInv, Goto, ActorPCs
<1>5. CASE ScanNext(r)
  <2>1. (shard[r] + 1) % NShards \in Shards
    BY NumbersAssumption, SMT DEF HeldInv, Shards
  <2> QED BY <1>1, <1>5, <2>1, SMT DEF ScanNext, HeldInv, Goto, ActorPCs
<1>6. CASE EvictInScan(r) \/ ScanPop(r) \/ ScanThrow(r)
  BY <1>1, <1>6, GotoHeld DEF EvictInScan, EvictFrom, ScanPop, ScanThrow, callVars, ActorPCs
<1>7. CASE Track(r) \/ TrackThrow(r)
  BY <1>1, <1>7, GotoHeld DEF Track, TrackThrow, callVars, ActorPCs
<1>8. CASE ReserveTotal(r) \/ ReserveBudget(r)
  BY <1>1, <1>8, GotoHeld DEF ReserveTotal, ReserveBudget, ActorPCs
<1>9. CASE Insert(r) \/ InsertThrow(r)
  BY <1>1, <1>9, GotoHeld DEF Insert, InsertThrow, callVars, ActorPCs
<1>10. CASE ConnectOk(r) \/ ConnectFail(r)
  BY <1>1, <1>10, GotoHeld DEF ConnectOk, ConnectFail, callVars, ActorPCs
<1> QED BY <1>2, <1>3, <1>4, <1>5, <1>6, <1>7, <1>8, <1>9, <1>10 DEF AcquireStep

\* The proxy attempt and release()
AttemptStep(r) ==
    \/ BuildRefuses(r) \/ UseOk(r) \/ UseBad(r) \/ UseThrow(r)
    \/ ReleaseIdle(r) \/ ReleaseNoMemory(r) \/ DropInFlight(r) \/ ReleaseClosed(r)
    \/ GiveTotal(r) \/ GiveBudget(r) \/ GiveInFlight(r) \/ EndAttempt(r)

LEMMA AttemptHeld ==
    ASSUME HeldInv, RefInv, NEW r \in Requests, AttemptStep(r)
    PROVE  HeldInv'
<1>1. r \in Actors
  BY DEF Actors
<1>2. ASSUME NEW l \in {"release", "releaseBad"}, EndUse(r, l) PROVE HeldInv'
  BY <1>1, <1>2, GotoHeld DEF EndUse, ActorPCs
<1>3. CASE BuildRefuses(r) \/ UseBad(r) \/ UseThrow(r)
  BY <1>2, <1>3 DEF BuildRefuses, UseBad, UseThrow
<1>4. CASE UseOk(r)
  BY <1>2, <1>4 DEF UseOk
<1>5. CASE ReleaseIdle(r) \/ ReleaseNoMemory(r)
  BY <1>1, <1>5, GotoHeld DEF ReleaseIdle, ReleaseNoMemory, callVars, ActorPCs
<1>8. CASE DropInFlight(r) \/ ReleaseClosed(r)
  BY <1>1, <1>8, GotoHeld DEF DropInFlight, ReleaseClosed, ActorPCs
<1>6. CASE GiveTotal(r) \/ GiveBudget(r) \/ GiveInFlight(r)
  BY <1>6 DEF GiveTotal, GiveBudget, GiveInFlight, HeldInv
<1>7. CASE EndAttempt(r)
  <2>1. 0 \in Shards
    BY NumbersAssumption, SMT DEF Shards
  <2>2. shard' \in [Requests -> Shards]
    BY <1>7, <2>1 DEF EndAttempt, HeldInv
  <2>3. \/ pc' = [pc EXCEPT ![r] = "sweep"] /\ pool' = pool
        \/ pc' = [pc EXCEPT ![r] = "new"] /\ pool' = [pool EXCEPT ![r] = None]
    BY <1>7, Zenon DEF EndAttempt, Goto
  <2>4. pc[r] = "giveBack"
    BY <1>7 DEF EndAttempt
  <2>5. CASE pc' = [pc EXCEPT ![r] = "sweep"] /\ pool' = pool
    BY <1>1, <2>2, <2>4, <2>5, SMT DEF HeldInv, ActorPCs
  <2>6. CASE pc' = [pc EXCEPT ![r] = "new"] /\ pool' = [pool EXCEPT ![r] = None]
    BY <1>1, <2>2, <2>6, SMT DEF HeldInv, RefInv, RefType, ActorPCs
  <2> QED BY <2>3, <2>5, <2>6
<1> QED BY <1>3, <1>4, <1>5, <1>6, <1>7, <1>8 DEF AttemptStep

LEMMA StepHeld == RefInv /\ HeldInv /\ [Next]_vars => HeldInv'
<1> SUFFICES ASSUME RefInv, HeldInv, [Next]_vars PROVE HeldInv'
  OBVIOUS
<1>1. CASE UNCHANGED <<pc, pool, shard>>
  BY <1>1 DEF HeldInv
<1>2. ASSUME NEW kept \in SUBSET Pools, NEW made \in SUBSET Pools, PrepareReload(kept, made)
      PROVE  HeldInv'
  BY <1>1, <1>2 DEF PrepareReload, callVars
<1>3. CASE PublishReload
  BY <1>1, <1>3 DEF PublishReload, callVars
<1>4. ASSUME NEW p \in Pools, DestroyStep(p) PROVE HeldInv'
  BY <1>1, <1>4
  DEF DestroyStep, DestroyPool, CloseIdle, CloseGiveTotal, CloseGiveBudget, CloseDone, callVars
<1>5. ASSUME NEW a \in Sweepers, StatsSweep(a) PROVE HeldInv'
  BY <1>5, SweeperHeld, ZenonT(30) DEF StatsSweep, callVars, ActorPCs, RefInv, RefType
<1>6. ASSUME NEW a \in Sweepers, EvictStep(a) PROVE HeldInv'
  BY <1>6, EvictHeld DEF Actors
<1>7. ASSUME NEW r \in Requests, RouteRequest(r) \/ RequestStep(r) PROVE HeldInv'
  BY <1>7, EvictHeld, AcquireHeld, AttemptHeld DEF RequestStep, AcquireStep, AttemptStep, Actors
<1>8. CASE UNCHANGED vars
  BY <1>1, <1>8 DEF vars, callVars
<1> QED BY <1>2, <1>3, <1>4, <1>5, <1>6, <1>7, <1>8 DEF Next

\* The head of a deque is closed: evict_stale_idle() and shutdown()
LEMMA PopWire ==
    ASSUME WireInv, NEW p, NEW h, idle[p][h] # <<>>,
           idle' = [idle EXCEPT ![p][h] = Tail(@)], UNCHANGED wire
    PROVE  WireInv'
<1>1. ASSUME NEW q \in Pools, NEW g \in Shards PROVE idle'[q][g] \in Seq(Kept)
  <2>1. CASE q = p /\ g = h
    BY <2>1, SMT DEF WireInv
  <2>2. CASE ~(q = p /\ g = h)
    BY <2>2 DEF WireInv
  <2> QED BY <2>1, <2>2
<1>2. idle' \in [Pools -> [Shards -> Seq(Kept)]]
  BY <1>1, ZenonT(30) DEF WireInv
<1> QED BY <1>2 DEF WireInv

LEMMA EvictWire ==
    ASSUME WireInv, NEW a \in Actors, NEW h \in Shards, EvictFrom(a, h)
    PROVE  WireInv'
  BY PopWire, ZenonT(30) DEF EvictFrom, callVars

\* What the other steps of a session do to a connection
LEMMA SessionWire ==
    ASSUME WireInv, HeldInv, RefInv, NEW r \in Requests, RouteRequest(r) \/ RequestStep(r)
    PROVE  WireInv'
<1>1. CASE UNCHANGED <<idle, wire>>
  BY <1>1 DEF WireInv
<1>2. CASE RouteRequest(r) \/ EvictGiveTotal(r) \/ EvictGiveBudget(r) \/ SweepDone(r)
  BY <1>1, <1>2
  DEF RouteRequest, EvictGiveTotal, EvictGiveBudget, SweepDone, poolVars, callVars
<1>3. CASE ReserveInFlight(r) \/ RefuseInFlight(r) \/ ScanThrow(r) \/ ScanNext(r)
  BY <1>1, <1>3 DEF ReserveInFlight, RefuseInFlight, ScanThrow, ScanNext, poolVars, callVars
<1>4. CASE Track(r) \/ TrackThrow(r) \/ ReserveTotal(r) \/ ReserveBudget(r)
  BY <1>1, <1>4 DEF Track, TrackThrow, ReserveTotal, ReserveBudget, poolVars, callVars
<1>10. CASE InsertThrow(r) \/ ConnectOk(r) \/ ConnectFail(r)
  BY <1>1, <1>10 DEF InsertThrow, ConnectOk, ConnectFail, poolVars, callVars
<1>11. CASE BuildRefuses(r) \/ UseBad(r) \/ ReleaseNoMemory(r) \/ DropInFlight(r)
  BY <1>1, <1>11 DEF BuildRefuses, UseBad, EndUse, ReleaseNoMemory, DropInFlight, callVars
<1>12. CASE ReleaseClosed(r) \/ GiveTotal(r) \/ GiveBudget(r) \/ GiveInFlight(r)
  BY <1>1, <1>12 DEF ReleaseClosed, GiveTotal, GiveBudget, GiveInFlight, poolVars
<1>5. CASE EvictInSweep(r) \/ EvictInScan(r)
  BY <1>5, EvictWire DEF EvictInSweep, EvictInScan, HeldInv, Actors
<1>6. CASE Insert(r) \/ EndAttempt(r) \/ UseThrow(r)
  BY <1>6, ZenonT(30) DEF Insert, EndAttempt, UseThrow, EndUse, poolVars, WireInv, Kept
<1>7. CASE UseOk(r)
  <2>1. PICK got \in Outcomes :
            /\ wire' = [wire EXCEPT ![r] = IF (~got.close /\ ~got.rest) /\ got.unread
                                           THEN "unread" ELSE @]
            /\ idle' = idle
    BY <1>7, ZenonT(30) DEF UseOk, EndUse
  <2>2. ~((~got.close /\ ~got.rest) /\ got.unread)
    BY KeptIsRead, Zenon
  <2>3. wire' = [wire EXCEPT ![r] = @]
    BY <2>1, <2>2, ZenonT(30)
  <2> QED BY <2>1, <2>3 DEF WireInv
<1>8. CASE ReleaseIdle(r)
  <2>1. /\ wire' = [wire EXCEPT ![r] = "clean"]
        /\ idle' = [idle EXCEPT ![pool[r]][shard[r]] = Append(@, wire[r])]
    BY <1>8 DEF ReleaseIdle
  <2>2. wire' \in [Requests -> Kept]
    BY <2>1 DEF WireInv, Kept
  <2>3. ASSUME NEW q \in Pools, NEW g \in Shards PROVE idle'[q][g] \in Seq(Kept)
    <3>1. CASE q = pool[r] /\ g = shard[r]
      BY <2>1, <3>1, SMT DEF WireInv
    <3>2. CASE ~(q = pool[r] /\ g = shard[r])
      BY <2>1, <3>2 DEF WireInv
    <3> QED BY <3>1, <3>2
  <2>4. idle' \in [Pools -> [Shards -> Seq(Kept)]]
    BY <2>1, <2>3, ZenonT(30) DEF WireInv
  <2> QED BY <2>2, <2>4 DEF WireInv
<1>9. CASE ScanPop(r)
  <2> DEFINE p == pool[r]
             h == shard[r]
  <2>0. /\ pc[r] = "scan" /\ idle[p][h] # <<>>
        /\ wire' = [wire EXCEPT ![r] = Head(idle[p][h])]
        /\ idle' = [idle EXCEPT ![p][h] = Tail(@)]
    BY <1>9 DEF ScanPop
  <2>1. p \in Pools /\ h \in Shards
    BY <2>0 DEF HeldInv, RefInv, RefType, Actors
  <2>2. Head(idle[p][h]) \in Kept
    BY <2>0, <2>1, SMT DEF WireInv
  <2>3. wire' \in [Requests -> Kept]
    BY <2>0, <2>2 DEF WireInv
  <2>4. ASSUME NEW q \in Pools, NEW g \in Shards PROVE idle'[q][g] \in Seq(Kept)
    <3>1. CASE q = p /\ g = h
      BY <2>0, <3>1, SMT DEF WireInv
    <3>2. CASE ~(q = p /\ g = h)
      BY <2>0, <3>2 DEF WireInv
    <3> QED BY <3>1, <3>2
  <2>5. idle' \in [Pools -> [Shards -> Seq(Kept)]]
    BY <2>0, <2>4, ZenonT(30) DEF WireInv
  <2> QED BY <2>3, <2>5 DEF WireInv
<1> QED BY <1>2, <1>3, <1>4, <1>5, <1>6, <1>7, <1>8, <1>9, <1>10, <1>11, <1>12
    DEF RequestStep, EvictStep

LEMMA StepWire == RefInv /\ HeldInv /\ WireInv /\ [Next]_vars => WireInv'
<1> SUFFICES ASSUME RefInv, HeldInv, WireInv, [Next]_vars PROVE WireInv'
  OBVIOUS
<1>1. CASE UNCHANGED <<idle, wire>>
  BY <1>1 DEF WireInv
<1>2. ASSUME NEW kept \in SUBSET Pools, NEW made \in SUBSET Pools, PrepareReload(kept, made)
      PROVE  WireInv'
  BY <1>1, <1>2 DEF PrepareReload, poolVars, callVars
<1>3. CASE PublishReload
  BY <1>1, <1>3 DEF PublishReload, poolVars, callVars
<1>4. ASSUME NEW p \in Pools, DestroyStep(p) PROVE WireInv'
  <2>1. CASE CloseIdle(p)
    BY <2>1, PopWire, ZenonT(30) DEF CloseIdle, callVars
  <2> QED BY <1>1, <1>4, <2>1
    DEF DestroyStep, DestroyPool, CloseGiveTotal, CloseGiveBudget, CloseDone, poolVars, callVars
<1>5. ASSUME NEW a \in Sweepers, StatsSweep(a) \/ EvictStep(a) PROVE WireInv'
  <2>1. CASE EvictInSweep(a)
    BY <2>1, EvictWire DEF EvictInSweep, Actors
  <2> QED BY <1>1, <1>5, <2>1
    DEF StatsSweep, EvictStep, EvictGiveTotal, EvictGiveBudget, SweepDone, poolVars, callVars
<1>6. CASE UNCHANGED vars
  BY <1>1, <1>6 DEF vars, poolVars, callVars
<1> QED BY <1>2, <1>3, <1>4, <1>5, <1>6, SessionWire DEF Next

\* For any number of sessions, pools and shards: a connection that is used again carries
\* no rest of a response that read_proxy_response() has read.  The invariant follows the
\* connection through release(), the deques and acquire().
THEOREM ResponsesReadWhole == Spec => []ResponsesAreReadWhole
<1>1. WireInv => ResponsesAreReadWhole
  BY DEF WireInv, Kept, ResponsesAreReadWhole
<1> QED BY <1>1, InitRef, StepRef, InitWire, StepHeld, StepWire, PTL DEF Spec

-----------------------------------------------------------------------------
(* Counting the connections of the shards *)

\* What evict_stale_idle(), acquire() and shutdown() do to a deque
LEMMA PopIdle ==
    ASSUME WireInv, NEW p \in Pools, NEW h \in Shards, idle[p][h] # <<>>,
           idle' = [idle EXCEPT ![p][h] = Tail(@)]
    PROVE  /\ Len(idle'[p][h]) = Len(idle[p][h]) + (-1)
           /\ \A q \in Pools : \A g \in Shards :
                 (q = p /\ g = h) \/ idle'[q][g] = idle[q][g]
<1>1. idle[p][h] \in Seq(Kept) /\ idle'[p][h] = Tail(idle[p][h])
  BY DEF WireInv
<1>2. Len(idle'[p][h]) = Len(idle[p][h]) + (-1)
  <2> DEFINE s == idle[p][h]
  <2>1. s \in Seq(Kept) /\ s # <<>>
    BY <1>1
  <2> HIDE DEF s
  <2>2. Len(s) \in Nat /\ Len(Tail(s)) = Len(s) - 1
    BY <2>1, SMT
  <2> QED BY <1>1, <2>2, ZenonT(30) DEF s
<1>3. \A q \in Pools : \A g \in Shards : (q = p /\ g = h) \/ idle'[q][g] = idle[q][g]
  BY DEF WireInv
<1> QED BY <1>2, <1>3

\* What release() does to a deque
LEMMA PushIdle ==
    ASSUME WireInv, NEW p \in Pools, NEW h \in Shards, NEW w \in Kept,
           idle' = [idle EXCEPT ![p][h] = Append(@, w)]
    PROVE  /\ Len(idle'[p][h]) = Len(idle[p][h]) + 1
           /\ \A q \in Pools : \A g \in Shards :
                 (q = p /\ g = h) \/ idle'[q][g] = idle[q][g]
<1>1. idle[p][h] \in Seq(Kept) /\ idle'[p][h] = Append(idle[p][h], w)
  BY DEF WireInv
<1>2. Len(idle'[p][h]) = Len(idle[p][h]) + 1
  BY <1>1, SMT
<1>3. \A q \in Pools : \A g \in Shards : (q = p /\ g = h) \/ idle'[q][g] = idle[q][g]
  BY DEF WireInv
<1> QED BY <1>2, <1>3

LEMMA ShardFinite ==
    ASSUME Counting, NEW p, NEW h
    PROVE  /\ IsFiniteSet(InShard(p, h)) /\ IsFiniteSet(InShard(p, h)')
           /\ Cardinality(InShard(p, h)) \in Nat /\ Cardinality(InShard(p, h)') \in Nat
<1>1. InShard(p, h) \in SUBSET Requests /\ InShard(p, h)' \in SUBSET Requests
  BY DEF InShard
<1> QED BY <1>1, SetsAssumption DEF Counting, SubsetsAreSmaller, SizesAreNumbers

\* The shard h of the pool q has k connections in use more, and its deque e more.
InUseDelta(q, h, k) ==
    \A p \in Pools : \A g \in Shards :
        Cardinality(InShard(p, g)') = Cardinality(InShard(p, g)) + (IF p = q /\ g = h THEN k ELSE 0)

DequeDelta(q, h, e) ==
    /\ Len(idle'[q][h]) = Len(idle[q][h]) + e
    /\ \A p \in Pools : \A g \in Shards : (p = q /\ g = h) \/ idle'[p][g] = idle[p][g]

CounterDelta(q, h, k, e) ==
    \E m, n : /\ shTotal' = [shTotal EXCEPT ![q][h] = m] /\ m = shTotal[q][h] + e + k
              /\ shInFlight' = [shInFlight EXCEPT ![q][h] = n] /\ n = shInFlight[q][h] + k

LEMMA ShardCounts ==
    ASSUME Counting, ShardInv, WireInv, WireInv', NEW q \in Pools, NEW h \in Shards,
           NEW k \in Int, NEW e \in Int,
           InUseDelta(q, h, k), DequeDelta(q, h, e), CounterDelta(q, h, k, e)
    PROVE  ShardInv'
<1>0. PICK m, n : /\ shTotal' = [shTotal EXCEPT ![q][h] = m] /\ m = shTotal[q][h] + e + k
                  /\ shInFlight' = [shInFlight EXCEPT ![q][h] = n] /\ n = shInFlight[q][h] + k
  BY ZenonT(30) DEF CounterDelta
<1>1. ASSUME NEW p \in Pools, NEW g \in Shards
      PROVE  /\ shInFlight'[p][g] \in Nat /\ shInFlight'[p][g] = Cardinality(InShard(p, g)')
             /\ shTotal'[p][g] \in Nat
             /\ shTotal'[p][g] = Len(idle'[p][g]) + Cardinality(InShard(p, g)')
  <2> DEFINE c == Cardinality(InShard(p, g))  c1 == Cardinality(InShard(p, g)')
             i == Len(idle[p][g])  i1 == Len(idle'[p][g])
             t == shTotal[p][g]  t1 == shTotal'[p][g]
             f == shInFlight[p][g]  f1 == shInFlight'[p][g]
  <2>1. /\ c \in Nat /\ c1 \in Nat /\ c1 = c + (IF p = q /\ g = h THEN k ELSE 0)
    BY ShardFinite DEF InUseDelta
  <2>2. i \in Nat /\ i1 \in Nat /\ i1 = i + (IF p = q /\ g = h THEN e ELSE 0)
    <3>1. i \in Nat /\ i1 \in Nat
      BY SMT DEF WireInv
    <3>2. CASE p = q /\ g = h
      BY <3>1, <3>2 DEF DequeDelta
    <3>3. CASE ~(p = q /\ g = h)
      <4>1. i1 = i
        BY <3>3 DEF DequeDelta
      <4> HIDE DEF i, i1
      <4> QED BY <3>1, <3>3, <4>1, SMT
    <3> QED BY <3>2, <3>3, ZenonT(30)
  <2>3. f = c /\ t = i + c
    BY DEF ShardInv
  <2>4. /\ t1 = IF p = q /\ g = h THEN m ELSE t
        /\ f1 = IF p = q /\ g = h THEN n ELSE f
    BY <1>0 DEF ShardInv
  <2>5. p = q /\ g = h => m = t + e + k /\ n = f + k
    BY <1>0
  <2> HIDE DEF c, c1, i, i1, t, t1, f, f1
  <2>6. f1 \in Nat /\ f1 = c1 /\ t1 \in Nat /\ t1 = i1 + c1
    <3>1. CASE p = q /\ g = h
      <4>1. t1 = t + e + k /\ f1 = f + k /\ c1 = c + k /\ i1 = i + e
        BY <2>1, <2>2, <2>4, <2>5, <3>1
      <4> QED BY <2>1, <2>2, <2>3, <4>1, SMT
    <3>2. CASE ~(p = q /\ g = h)
      <4>1. t1 = t /\ f1 = f /\ c1 = c /\ i1 = i
        BY <2>1, <2>2, <2>4, <3>2, SMT
      <4> QED BY <2>1, <2>2, <2>3, <4>1, SMT
    <3> QED BY <3>1, <3>2
  <2> QED BY <2>6 DEF c1, i1, t1, f1
<1>2. shTotal' \in [Pools -> [Shards -> Nat]] /\ shInFlight' \in [Pools -> [Shards -> Nat]]
  BY <1>0, <1>1 DEF ShardInv
<1>3. (\A p \in Pools : \A g \in Shards :
          /\ shInFlight[p][g] = Cardinality(InShard(p, g))
          /\ shTotal[p][g] = Len(idle[p][g]) + Cardinality(InShard(p, g)))'
  BY <1>1
<1> QED BY <1>2, <1>3 DEF ShardInv

\* Nobody enters or leaves a shard.
Settled == \A r \in Requests : \/ /\ pool'[r] = pool[r] /\ shard'[r] = shard[r]
                                  /\ pc'[r] \in OfShard <=> pc[r] \in OfShard
                               \/ pc'[r] \notin OfShard /\ pc[r] \notin OfShard

LEMMA SettledShards ==
    ASSUME Counting, Settled, NEW q \in Pools, NEW h \in Shards
    PROVE  InUseDelta(q, h, 0) /\ \A p, g : InShard(p, g)' = InShard(p, g)
<1>1. \A p, g : InShard(p, g)' = InShard(p, g)
  BY DEF Settled, InShard, OfShard
<1>2. InUseDelta(q, h, 0)
  BY <1>1, ShardFinite, SMT DEF InUseDelta
<1> QED BY <1>1, <1>2

LEMMA ShardQuiet ==
    ASSUME ShardInv, Settled, UNCHANGED <<shTotal, shInFlight, idle>>
    PROVE  ShardInv'
<1>1. \A p, g : InShard(p, g)' = InShard(p, g)
  BY DEF Settled, InShard, OfShard
<1> QED BY <1>1 DEF ShardInv

\* A request enters or leaves its shard.
LEMMA OneInShard ==
    ASSUME Counting, HeldInv, NEW r \in Requests, NEW l, Goto(r, l), UNCHANGED <<pool, shard>>,
           NEW k \in Int, k = In(l, OfShard) - In(pc[r], OfShard)
    PROVE  InUseDelta(pool[r], shard[r], k)
<1> SUFFICES ASSUME NEW p \in Pools, NEW g \in Shards
             PROVE  Cardinality(InShard(p, g)') = Cardinality(InShard(p, g))
                      + (IF p = pool[r] /\ g = shard[r] THEN k ELSE 0)
  BY DEF InUseDelta
<1> DEFINE A == InShard(p, g)  B == InShard(p, g)'
<1>1. A \ {r} = B \ {r}
  BY DEF InShard, Goto, HeldInv, Actors
<1>2. pc'[r] = l
  BY DEF Goto, HeldInv, Actors
<1>3. /\ In(r, A) = IF p = pool[r] /\ g = shard[r] THEN In(pc[r], OfShard) ELSE 0
      /\ In(r, B) = IF p = pool[r] /\ g = shard[r] THEN In(l, OfShard) ELSE 0
  BY <1>2 DEF In, InShard, OfShard
<1>4. IsFiniteSet(A) /\ Cardinality(A) \in Nat
  BY ShardFinite
<1> HIDE DEF A, B
<1>5. Cardinality(B) = Cardinality(A) + In(r, B) - In(r, A)
  BY <1>1, <1>4 DEF Counting, OneElementCounts
<1>6. In(pc[r], OfShard) \in Int /\ In(l, OfShard) \in Int
  BY SMT DEF In
<1>7. Cardinality(B) = Cardinality(A) + (IF p = pool[r] /\ g = shard[r] THEN k ELSE 0)
  BY <1>3, <1>4, <1>5, <1>6, SMT
<1> QED BY <1>7 DEF A, B

LEMMA SameShard ==
    ASSUME ShardInv, NEW p \in Pools, NEW h \in Shards
    PROVE  /\ shTotal = [shTotal EXCEPT ![p][h] = shTotal[p][h]]
           /\ shInFlight = [shInFlight EXCEPT ![p][h] = shInFlight[p][h]]
<1>1. shTotal = [shTotal EXCEPT ![p][h] = shTotal[p][h]]
  BY DEF ShardInv
<1>2. shInFlight = [shInFlight EXCEPT ![p][h] = shInFlight[p][h]]
  BY DEF ShardInv
<1> QED BY <1>1, <1>2

\* A shard loses a connection of its deque: evict_stale_idle() and shutdown()
LEMMA PopShard ==
    ASSUME Counting, ShardInv, WireInv, WireInv', Settled, NEW p \in Pools, NEW h \in Shards,
           idle[p][h] # <<>>, idle' = [idle EXCEPT ![p][h] = Tail(@)],
           shTotal' = [shTotal EXCEPT ![p][h] = @ - 1], UNCHANGED shInFlight
    PROVE  ShardInv'
<1>1. InUseDelta(p, h, 0)
  BY SettledShards
<1>2. DequeDelta(p, h, -1)
  BY PopIdle, ZenonT(30) DEF DequeDelta
<1>3. shTotal[p][h] \in Nat /\ shInFlight[p][h] \in Nat
  BY DEF ShardInv
<1> DEFINE m == shTotal[p][h] - 1
           n == shInFlight[p][h]
<1>4. m = shTotal[p][h] + (-1) + 0 /\ n = shInFlight[p][h] + 0 /\ 0 \in Int /\ -1 \in Int
  BY <1>3, SMT
<1>5. shInFlight' = [shInFlight EXCEPT ![p][h] = n]
  BY SameShard
<1>6. shTotal' = [shTotal EXCEPT ![p][h] = m]
  OBVIOUS
<1>7. CounterDelta(p, h, 0, -1)
  BY <1>4, <1>5, <1>6, ZenonT(30) DEF CounterDelta
<1> QED BY <1>1, <1>2, <1>4, <1>7, ShardCounts

LEMMA EvictSettled ==
    ASSUME HeldInv, NEW a \in Actors, NEW l, Goto(a, l), pc[a] \notin OfShard,
           l \notin OfShard, UNCHANGED <<pool, shard>>
    PROVE  Settled
  BY DEF HeldInv, Goto, Settled, Actors

\* Requests come and go: acquire() and release().
LEMMA MoveShard ==
    ASSUME Counting, HeldInv, HasInv, WireInv, WireInv', ShardInv, NEW r \in Requests, NEW l,
           pc[r] # "new", Goto(r, l), UNCHANGED <<pool, shard>>,
           NEW k \in Int, k = In(l, OfShard) - In(pc[r], OfShard),
           NEW e \in Int, DequeDelta(pool[r], shard[r], e),
           CounterDelta(pool[r], shard[r], k, e)
    PROVE  ShardInv'
<1>1. pool[r] \in Pools /\ shard[r] \in Shards
  BY DEF HasInv, HeldInv, Actors
<1>2. InUseDelta(pool[r], shard[r], k)
  BY OneInShard
<1> QED BY <1>1, <1>2, ShardCounts

LEMMA ScanPopShard ==
    ASSUME Counting, HeldInv, HasInv, WireInv, WireInv', ShardInv, NEW r \in Requests, ScanPop(r)
    PROVE  ShardInv'
<1> DEFINE q == pool[r]
           h == shard[r]
           m == shTotal[q][h]
           n == shInFlight[q][h] + 1
<1>1. /\ pc[r] = "scan" /\ Goto(r, "track") /\ idle[q][h] # <<>> /\ UNCHANGED <<pool, shard>>
      /\ idle' = [idle EXCEPT ![q][h] = Tail(@)] /\ shTotal' = shTotal
      /\ shInFlight' = [shInFlight EXCEPT ![q][h] = n]
  BY DEF ScanPop
<1>2. q \in Pools /\ h \in Shards
  BY <1>1 DEF HasInv, HeldInv, Actors
<1>3. 1 = In("track", OfShard) - In(pc[r], OfShard) /\ pc[r] # "new"
  BY <1>1, SMT DEF In, OfShard
<1>4. DequeDelta(q, h, -1)
  BY <1>1, <1>2, PopIdle, ZenonT(30) DEF DequeDelta
<1>5. m = shTotal[q][h] + (-1) + 1 /\ 1 \in Int /\ -1 \in Int
  BY <1>2, SMT DEF ShardInv
<1>6. shTotal' = [shTotal EXCEPT ![q][h] = m]
  BY <1>1, <1>2, SameShard
<1>7. CounterDelta(q, h, 1, -1)
  BY <1>1, <1>5, <1>6, ZenonT(30) DEF CounterDelta
<1> QED BY <1>1, <1>3, <1>4, <1>5, <1>7, MoveShard, ZenonT(30)

LEMMA ReleaseIdleShard ==
    ASSUME Counting, HeldInv, HasInv, WireInv, WireInv', ShardInv, NEW r \in Requests,
           ReleaseIdle(r)
    PROVE  ShardInv'
<1> DEFINE q == pool[r]
           h == shard[r]
           m == shTotal[q][h]
           n == shInFlight[q][h] - 1
<1>1. /\ pc[r] = "release" /\ Goto(r, "giveBack") /\ UNCHANGED <<pool, shard>>
      /\ idle' = [idle EXCEPT ![q][h] = Append(@, wire[r])] /\ shTotal' = shTotal
      /\ shInFlight' = [shInFlight EXCEPT ![q][h] = n]
  BY DEF ReleaseIdle
<1>2. q \in Pools /\ h \in Shards /\ wire[r] \in Kept
  BY <1>1 DEF HasInv, HeldInv, WireInv, Actors
<1>3. -1 = In("giveBack", OfShard) - In(pc[r], OfShard) /\ pc[r] # "new"
  BY <1>1, SMT DEF In, OfShard
<1>4. DequeDelta(q, h, 1)
  BY <1>1, <1>2, PushIdle, ZenonT(30) DEF DequeDelta
<1>5. /\ m = shTotal[q][h] + 1 + (-1) /\ n = shInFlight[q][h] + (-1)
      /\ 1 \in Int /\ -1 \in Int
  BY <1>2, SMT DEF ShardInv
<1>6. shTotal' = [shTotal EXCEPT ![q][h] = m]
  BY <1>1, <1>2, SameShard
<1>7. CounterDelta(q, h, -1, 1)
  BY <1>1, <1>5, <1>6, ZenonT(30) DEF CounterDelta
<1> QED BY <1>1, <1>3, <1>4, <1>5, <1>7, MoveShard, ZenonT(30)

LEMMA InsertShard ==
    ASSUME Counting, HeldInv, HasInv, WireInv, WireInv', ShardInv, NEW r \in Requests, Insert(r)
    PROVE  ShardInv'
<1> DEFINE q == pool[r]
           h == shard[r]
           m == shTotal[q][h] + 1
           n == shInFlight[q][h] + 1
<1>1. /\ pc[r] = "insert" /\ Goto(r, "connect") /\ idle' = idle /\ UNCHANGED <<pool, shard>>
      /\ shTotal' = [shTotal EXCEPT ![q][h] = m]
      /\ shInFlight' = [shInFlight EXCEPT ![q][h] = n]
  BY DEF Insert
<1>2. q \in Pools /\ h \in Shards
  BY <1>1 DEF HasInv, HeldInv, Actors
<1>3. 1 = In("connect", OfShard) - In(pc[r], OfShard) /\ pc[r] # "new"
  BY <1>1, SMT DEF In, OfShard
<1>4. Len(idle'[q][h]) = Len(idle[q][h]) + 0
  BY <1>1, <1>2, SMT DEF WireInv
<1>5. m = shTotal[q][h] + 0 + 1 /\ 0 \in Int /\ 1 \in Int
  BY <1>2, SMT DEF ShardInv
<1>6. CounterDelta(q, h, 1, 0) /\ DequeDelta(q, h, 0)
  BY <1>1, <1>4, <1>5, ZenonT(30) DEF CounterDelta, DequeDelta
<1> QED BY <1>1, <1>3, <1>5, <1>6, MoveShard, ZenonT(30)

\* The connection is closed, whatever the reason.
LeaveStep(r) == TrackThrow(r) \/ ConnectFail(r) \/ ReleaseNoMemory(r) \/ ReleaseClosed(r)

LEMMA LeaveStepShard ==
    ASSUME Counting, HeldInv, HasInv, WireInv, WireInv', ShardInv, NEW r \in Requests,
           LeaveStep(r)
    PROVE  ShardInv'
<1> DEFINE q == pool[r]
           h == shard[r]
           m == shTotal[q][h] - 1
           n == shInFlight[q][h] - 1
           Left(l) == /\ pc[r] \in OfShard /\ Goto(r, l) /\ idle' = idle
                      /\ UNCHANGED <<pool, shard>>
                      /\ shTotal' = [shTotal EXCEPT ![q][h] = m]
                      /\ shInFlight' = [shInFlight EXCEPT ![q][h] = n]
<1>1. (TrackThrow(r) \/ ConnectFail(r)) => Left("giveBack")
  BY DEF TrackThrow, ConnectFail, LeaveShard, OfShard
<1>2. ReleaseNoMemory(r) => Left("dropped")
  BY DEF ReleaseNoMemory, LeaveShard, callVars, OfShard
<1>3. ReleaseClosed(r) => Left("giveBack")
  BY DEF ReleaseClosed, LeaveShard, OfShard
<1>4. PICK l \in {"giveBack", "dropped"} : Left(l)
  <2> HIDE DEF Left
  <2> QED BY <1>1, <1>2, <1>3, ZenonT(30) DEF LeaveStep
<1>5. q \in Pools /\ h \in Shards /\ pc[r] # "new"
  BY <1>4 DEF HasInv, HeldInv, Actors, OfShard
<1>6. -1 = In(l, OfShard) - In(pc[r], OfShard)
  BY <1>4, SMT DEF In, OfShard
<1>7. Len(idle'[q][h]) = Len(idle[q][h]) + 0
  BY <1>4, <1>5, SMT DEF WireInv
<1>8. /\ m = shTotal[q][h] + 0 + (-1) /\ n = shInFlight[q][h] + (-1)
      /\ 0 \in Int /\ -1 \in Int
  BY <1>5, SMT DEF ShardInv
<1>9. CounterDelta(q, h, -1, 0) /\ DequeDelta(q, h, 0)
  BY <1>4, <1>7, <1>8, ZenonT(30) DEF CounterDelta, DequeDelta
<1> QED BY <1>4, <1>5, <1>6, <1>8, <1>9, MoveShard, ZenonT(30)

\* The steps that leave the shards alone
SettledStep(r) ==
    \/ RouteRequest(r) \/ RefuseInFlight(r) \/ EndAttempt(r) \/ SweepDone(r)
    \/ EvictGiveTotal(r) \/ EvictGiveBudget(r) \/ ReserveInFlight(r) \/ ReserveTotal(r)
    \/ ReserveBudget(r) \/ DropInFlight(r) \/ GiveTotal(r) \/ GiveBudget(r)
    \/ GiveInFlight(r) \/ ScanThrow(r) \/ ScanNext(r) \/ Track(r) \/ InsertThrow(r)
    \/ ConnectOk(r) \/ BuildRefuses(r) \/ UseOk(r) \/ UseBad(r) \/ UseThrow(r)

LEMMA QuietShard ==
    ASSUME RefInv, HeldInv, ShardInv, NEW r \in Requests, SettledStep(r)
    PROVE  ShardInv'
<1>0. r \in Actors
  BY DEF Actors
<1>1. ASSUME NEW l, pc' = [pc EXCEPT ![r] = l],
             UNCHANGED <<pool, shard, shTotal, shInFlight, idle>>,
             l \in OfShard <=> pc[r] \in OfShard
      PROVE  ShardInv'
  <2>1. Settled
    BY <1>0, <1>1, SMT DEF Settled, HeldInv
  <2> QED BY <1>1, <2>1, ShardQuiet
<1>2. ASSUME NEW l, pc' = [pc EXCEPT ![r] = l], pc[r] \notin OfShard, l \notin OfShard,
             pool' = pool \/ \E p : pool' = [pool EXCEPT ![r] = p],
             shard' = shard \/ \E h : shard' = [shard EXCEPT ![r] = h],
             UNCHANGED <<shTotal, shInFlight, idle>>
      PROVE  ShardInv'
  <2>1. Settled
    BY <1>0, <1>2 DEF Settled, HeldInv, RefInv, RefType, Actors
  <2> QED BY <1>2, <2>1, ShardQuiet
<1>3. CASE RouteRequest(r) \/ RefuseInFlight(r) \/ SweepDone(r)
  BY <1>2, <1>3, ZenonT(30)
  DEF RouteRequest, RefuseInFlight, SweepDone, Goto, callVars, poolVars, OfShard
<1>4. CASE EndAttempt(r)
  <2>1. \/ pc' = [pc EXCEPT ![r] = "sweep"] /\ pool' = pool
        \/ pc' = [pc EXCEPT ![r] = "new"] /\ pool' = [pool EXCEPT ![r] = None]
    BY <1>4, Zenon DEF EndAttempt, Goto
  <2>2. /\ shard' = [shard EXCEPT ![r] = 0] /\ UNCHANGED <<shTotal, shInFlight, idle>>
        /\ pc[r] \notin OfShard /\ "sweep" \notin OfShard /\ "new" \notin OfShard
    BY <1>4 DEF EndAttempt, poolVars, OfShard
  <2> QED BY <1>2, <2>1, <2>2, ZenonT(30)
<1>5. CASE EvictGiveTotal(r) \/ EvictGiveBudget(r)
  BY <1>2, <1>5, ZenonT(30) DEF EvictGiveTotal, EvictGiveBudget, Goto, callVars, poolVars, OfShard
<1>6. CASE ReserveInFlight(r) \/ ReserveTotal(r) \/ ReserveBudget(r)
  BY <1>2, <1>6 DEF ReserveInFlight, ReserveTotal, ReserveBudget, Goto, poolVars, OfShard
<1>7. CASE DropInFlight(r) \/ ScanThrow(r) \/ ScanNext(r)
  BY <1>2, <1>7, ZenonT(30)
  DEF DropInFlight, ScanThrow, ScanNext, Goto, callVars, poolVars, OfShard
<1>8. CASE GiveTotal(r) \/ GiveBudget(r) \/ GiveInFlight(r)
  <2>1. UNCHANGED <<pc, pool, shard, shTotal, shInFlight, idle>>
    BY <1>8 DEF GiveTotal, GiveBudget, GiveInFlight, poolVars
  <2>2. Settled
    BY <2>1, Zenon DEF Settled
  <2> QED BY <2>1, <2>2, ShardQuiet
<1>9. CASE Track(r) \/ ConnectOk(r)
  BY <1>1, <1>9 DEF Track, ConnectOk, Goto, callVars, poolVars, OfShard
<1>10. CASE InsertThrow(r)
  BY <1>2, <1>10, ZenonT(30) DEF InsertThrow, Goto, callVars, poolVars, OfShard
<1>11. ASSUME NEW l \in {"release", "releaseBad"}, EndUse(r, l) PROVE ShardInv'
  BY <1>1, <1>11, ZenonT(30) DEF EndUse, Goto, OfShard
<1>12. CASE BuildRefuses(r) \/ UseBad(r) \/ UseThrow(r)
  BY <1>11, <1>12 DEF BuildRefuses, UseBad, UseThrow
<1>13. CASE UseOk(r)
  BY <1>11, <1>13 DEF UseOk
<1> QED BY <1>3, <1>4, <1>5, <1>6, <1>7, <1>8, <1>9, <1>10, <1>12, <1>13 DEF SettledStep

\* An eviction step of an actor, and shutdown()
LEMMA EvictShard ==
    ASSUME Counting, RefInv, HeldInv, HasInv, WireInv, WireInv', ShardInv, NEW a \in Actors,
           NEW h \in Shards, EvictFrom(a, h),
           \/ pc[a] = "sweep" /\ Goto(a, "sweepTotal")
           \/ pc[a] = "scan" /\ Goto(a, "scanTotal")
    PROVE  ShardInv'
<1>1. /\ pool[a] \in Pools /\ UNCHANGED <<pool, shard, shInFlight>>
      /\ idle[pool[a]][h] # <<>> /\ idle' = [idle EXCEPT ![pool[a]][h] = Tail(@)]
      /\ shTotal' = [shTotal EXCEPT ![pool[a]][h] = @ - 1]
  BY DEF EvictFrom, callVars, HasInv
<1>2. PICK l : Goto(a, l) /\ pc[a] \notin OfShard /\ l \notin OfShard
  BY SMT DEF OfShard
<1>3. Settled
  BY <1>1, <1>2, EvictSettled
<1> QED BY <1>1, <1>3, PopShard, ZenonT(30)

\* Reloads and destructors
ReloadStep ==
    (\E kept, made \in SUBSET Pools : PrepareReload(kept, made)) \/ PublishReload

LEMMA ReloadShard ==
    ASSUME ShardInv, ReloadStep \/ UNCHANGED vars
    PROVE  ShardInv'
<1>1. UNCHANGED <<pc, pool, shard, shTotal, shInFlight, idle>>
  <2>1. CASE ReloadStep
    BY <2>1 DEF ReloadStep, PrepareReload, PublishReload, poolVars, callVars
  <2>2. CASE UNCHANGED vars
    BY <2>2 DEF vars, poolVars, callVars
  <2> QED BY <2>1, <2>2
<1>2. Settled
  BY <1>1, Zenon DEF Settled
<1> QED BY <1>1, <1>2, ShardQuiet

LEMMA DestroyShard ==
    ASSUME Counting, WireInv, WireInv', ShardInv, NEW p \in Pools, DestroyStep(p)
    PROVE  ShardInv'
<1>1. UNCHANGED <<pc, pool, shard>>
  BY DEF DestroyStep, DestroyPool, CloseIdle, CloseGiveTotal, CloseGiveBudget, CloseDone, callVars
<1>2. Settled
  BY <1>1, Zenon DEF Settled
<1>3. CASE UNCHANGED <<shTotal, shInFlight, idle>>
  BY <1>2, <1>3, ShardQuiet
<1>4. CASE CloseIdle(p)
  BY <1>2, <1>4, PopShard, ZenonT(30) DEF CloseIdle
<1>5. CASE DestroyPool(p) \/ CloseGiveTotal(p) \/ CloseGiveBudget(p) \/ CloseDone(p)
  BY <1>3, <1>5 DEF DestroyPool, CloseGiveTotal, CloseGiveBudget, CloseDone, poolVars
<1> QED BY <1>4, <1>5 DEF DestroyStep

\* The statistics service
LEMMA SweeperShard ==
    ASSUME Counting, RefInv, HeldInv, HasInv, WireInv, WireInv', ShardInv, NEW a \in Sweepers,
           StatsSweep(a) \/ EvictStep(a)
    PROVE  ShardInv'
<1>1. CASE EvictInSweep(a)
  BY <1>1, EvictShard DEF EvictInSweep, Actors
<1>2. CASE StatsSweep(a) \/ EvictGiveTotal(a) \/ EvictGiveBudget(a) \/ SweepDone(a)
  <2>1. /\ UNCHANGED <<shTotal, shInFlight, idle, shard>>
        /\ \E l : pc' = [pc EXCEPT ![a] = l]
        /\ pool' = pool \/ \E p : pool' = [pool EXCEPT ![a] = p]
    BY <1>2 DEF StatsSweep, EvictGiveTotal, EvictGiveBudget, SweepDone, Goto, poolVars, callVars
  <2>2. \A r \in Requests : pc'[r] = pc[r] /\ pool'[r] = pool[r]
    BY <2>1, SetsAssumption DEF HeldInv, RefInv, RefType, Actors
  <2>3. Settled
    BY <2>1, <2>2 DEF Settled
  <2> QED BY <2>1, <2>3, ShardQuiet
<1> QED BY <1>1, <1>2 DEF EvictStep

LEMMA StepShard ==
    Counting /\ RefInv /\ HeldInv /\ HasInv /\ WireInv /\ WireInv' /\ ShardInv /\ [Next]_vars
        => ShardInv'
<1> SUFFICES ASSUME Counting, RefInv, HeldInv, HasInv, WireInv, WireInv', ShardInv, [Next]_vars
             PROVE  ShardInv'
  OBVIOUS
<1>1. ASSUME NEW r \in Requests, RouteRequest(r) \/ RequestStep(r) PROVE ShardInv'
  <2>0. r \in Actors
    BY DEF Actors
  <2>1. CASE EvictInSweep(r)
    BY <2>0, <2>1, EvictShard DEF EvictInSweep
  <2>2. CASE EvictInScan(r)
    BY <2>0, <2>2, EvictShard DEF EvictInScan, HeldInv
  <2>3. CASE ScanPop(r) \/ Insert(r) \/ ReleaseIdle(r)
    BY <2>3, ScanPopShard, InsertShard, ReleaseIdleShard
  <2> QED BY <1>1, <2>1, <2>2, <2>3, LeaveStepShard, QuietShard
      DEF RequestStep, EvictStep, LeaveStep, SettledStep
<1> QED BY <1>1, ReloadShard, DestroyShard, SweeperShard DEF Next, ReloadStep

\* What is being connected or used is in Shard::active.
LEMMA UsersJoin ==
    ASSUME HeldInv, ActiveInv, NEW r \in Requests, pool[r] \in Pools, NEW l, Goto(r, l),
           UNCHANGED pool,
           \/ l \in {"connect", "use"} /\ active' = [active EXCEPT ![pool[r]] = @ \cup {r}]
           \/ l \notin {"connect", "use"} /\ active' = [active EXCEPT ![pool[r]] = @ \ {r}]
    PROVE  ActiveInv'
<1>1. pc'[r] = l /\ \A s \in Requests \ {r} : pc'[s] = pc[s]
  BY DEF Goto, HeldInv, Actors
<1>2. \A p \in Pools \ {pool[r]} : active'[p] = active[p] /\ Users(p)' = Users(p)
  BY <1>1 DEF ActiveInv, Users
<1>3. active'[pool[r]] = Users(pool[r])'
  BY <1>1, SMT DEF ActiveInv, Users
<1>4. active' \in [Pools -> SUBSET Requests]
  BY SMT DEF ActiveInv
<1>5. \A p \in Pools : active'[p] = Users(p)'
  BY <1>2, <1>3 DEF ActiveInv
<1> QED BY <1>4, <1>5 DEF ActiveInv, Users

LEMMA UsersStay ==
    ASSUME ActiveInv, UNCHANGED active,
           \A r \in Requests : \/ /\ pool'[r] = pool[r]
                                  /\ pc'[r] \in {"connect", "use"} <=> pc[r] \in {"connect", "use"}
                               \/ /\ pc'[r] \notin {"connect", "use"}
                                  /\ pc[r] \notin {"connect", "use"}
    PROVE  ActiveInv'
  BY DEF ActiveInv, Users

\* Shard::active follows track_active() and untrack_active().
LEMMA RequestActive ==
    ASSUME RefInv, HeldInv, HasInv, ActiveInv, NEW r \in Requests,
           RouteRequest(r) \/ RequestStep(r)
    PROVE  ActiveInv'
<1>0. r \in Actors /\ (pc[r] # "new" => pool[r] \in Pools)
  BY DEF Actors, HasInv
<1>1. CASE Track(r) \/ Insert(r)
  BY <1>0, <1>1, UsersJoin DEF Track, Insert
<1>2. CASE TrackThrow(r) \/ ConnectFail(r) \/ ReleaseNoMemory(r)
  BY <1>0, <1>2, UsersJoin DEF TrackThrow, ConnectFail, ReleaseNoMemory, LeaveShard
<1>3. CASE ReleaseClosed(r)
  BY <1>0, <1>3, UsersJoin, ZenonT(30) DEF ReleaseClosed, LeaveShard
<1>4. ASSUME NEW l \in {"release", "releaseBad"}, EndUse(r, l) PROVE ActiveInv'
  BY <1>0, <1>4, UsersJoin, ZenonT(30) DEF EndUse
<1>5. CASE BuildRefuses(r) \/ UseBad(r) \/ UseThrow(r)
  BY <1>4, <1>5 DEF BuildRefuses, UseBad, UseThrow
<1>6. CASE UseOk(r)
  BY <1>4, <1>6 DEF UseOk
<1>7. ASSUME active' = active, NEW l, pc' = [pc EXCEPT ![r] = l],
             \/ pool' = pool /\ (l \in {"connect", "use"} <=> pc[r] \in {"connect", "use"})
             \/ /\ pool' = pool \/ \E p : pool' = [pool EXCEPT ![r] = p]
                /\ l \notin {"connect", "use"} /\ pc[r] \notin {"connect", "use"}
      PROVE  ActiveInv'
  <2>1. pc'[r] = l /\ \A s \in Requests \ {r} : pc'[s] = pc[s] /\ pool'[s] = pool[s]
    BY <1>0, <1>7 DEF HeldInv, RefInv, RefType, Actors
  <2> QED BY <1>7, <2>1, UsersStay
<1>8. CASE RouteRequest(r) \/ RefuseInFlight(r) \/ SweepDone(r)
  BY <1>7, <1>8 DEF RouteRequest, RefuseInFlight, SweepDone, Goto, poolVars
<1>9. CASE EndAttempt(r)
  <2>1. \/ pc' = [pc EXCEPT ![r] = "sweep"] /\ pool' = pool
        \/ pc' = [pc EXCEPT ![r] = "new"] /\ pool' = [pool EXCEPT ![r] = None]
    BY <1>9, Zenon DEF EndAttempt, Goto
  <2>2. active' = active /\ pc[r] = "giveBack"
    BY <1>9 DEF EndAttempt, poolVars
  <2> QED BY <1>7, <2>1, <2>2
<1>10. CASE EvictInSweep(r) \/ EvictInScan(r) \/ EvictGiveTotal(r) \/ EvictGiveBudget(r)
  BY <1>7, <1>10, ZenonT(30)
  DEF EvictInSweep, EvictInScan, EvictFrom, EvictGiveTotal, EvictGiveBudget, Goto, poolVars
<1>11. CASE ReserveInFlight(r) \/ ReserveTotal(r) \/ ReserveBudget(r)
  BY <1>7, <1>11 DEF ReserveInFlight, ReserveTotal, ReserveBudget, Goto, poolVars
<1>12. CASE ScanPop(r) \/ ScanThrow(r) \/ ScanNext(r)
  BY <1>7, <1>12, ZenonT(30) DEF ScanPop, ScanThrow, ScanNext, Goto, poolVars
<1>15. CASE InsertThrow(r) \/ ConnectOk(r)
  BY <1>7, <1>15, ZenonT(30) DEF InsertThrow, ConnectOk, Goto, poolVars
<1>13. CASE ReleaseIdle(r) \/ DropInFlight(r)
  BY <1>7, <1>13 DEF ReleaseIdle, DropInFlight, Goto
<1>14. CASE GiveTotal(r) \/ GiveBudget(r) \/ GiveInFlight(r)
  BY <1>14, UsersStay DEF GiveTotal, GiveBudget, GiveInFlight, poolVars
<1> QED BY <1>1, <1>2, <1>3, <1>5, <1>6, <1>8, <1>9, <1>10, <1>11, <1>12, <1>13, <1>14,
       <1>15 DEF RequestStep, EvictStep

LEMMA StepActive == RefInv /\ HeldInv /\ HasInv /\ ActiveInv /\ [Next]_vars => ActiveInv'
<1> SUFFICES ASSUME RefInv, HeldInv, HasInv, ActiveInv, [Next]_vars PROVE ActiveInv'
  OBVIOUS
<1>1. CASE UNCHANGED <<active, pc, pool>>
  BY <1>1, UsersStay
<1>2. CASE (\E kept, made \in SUBSET Pools : PrepareReload(kept, made)) \/ PublishReload
           \/ UNCHANGED vars
  BY <1>1, <1>2 DEF PrepareReload, PublishReload, vars, poolVars
<1>3. ASSUME NEW p \in Pools, DestroyStep(p) PROVE ActiveInv'
  BY <1>1, <1>3
  DEF DestroyStep, DestroyPool, CloseIdle, CloseGiveTotal, CloseGiveBudget, CloseDone, poolVars
<1>4. ASSUME NEW a \in Sweepers, StatsSweep(a) \/ EvictStep(a) PROVE ActiveInv'
  <2>1. active' = active /\ \E l : pc' = [pc EXCEPT ![a] = l]
    BY <1>4, ZenonT(30) DEF StatsSweep, EvictStep, EvictInSweep, EvictFrom, EvictGiveTotal, EvictGiveBudget,
       SweepDone, Goto, poolVars
  <2>2. pool' = pool \/ \E p : pool' = [pool EXCEPT ![a] = p]
    BY <1>4, ZenonT(30) DEF StatsSweep, EvictStep, EvictInSweep, EvictFrom, EvictGiveTotal, EvictGiveBudget,
       SweepDone
  <2>3. \A r \in Requests : pc'[r] = pc[r] /\ pool'[r] = pool[r]
    BY <2>1, <2>2, SetsAssumption DEF HeldInv, RefInv, RefType, Actors
  <2> QED BY <2>1, <2>3, UsersStay
<1> QED BY <1>2, <1>3, <1>4, RequestActive DEF Next

\* The shards are empty at the start.
LEMMA InitShards == Counting /\ Init => ShardInv /\ ActiveInv
<1> SUFFICES ASSUME Counting, Init PROVE ShardInv /\ ActiveInv
  OBVIOUS
<1>1. \A p, h : InShard(p, h) = {}
  BY DEF Init, InShard, Actors
<1>2. \A p, h : Cardinality(InShard(p, h)) = 0
  BY <1>1 DEF Counting, EmptyIsZero
<1>3. \A p \in Pools : \A h \in Shards :
        Len(idle[p][h]) = 0 /\ shTotal[p][h] = 0 /\ shInFlight[p][h] = 0
  BY DEF Init
<1>4. shTotal \in [Pools -> [Shards -> Nat]] /\ shInFlight \in [Pools -> [Shards -> Nat]]
  BY DEF Init
<1>5. ShardInv
  BY <1>2, <1>3, <1>4, SMT DEF ShardInv
<1>6. ActiveInv
  BY DEF Init, ActiveInv, Users, Actors
<1> QED BY <1>5, <1>6

-----------------------------------------------------------------------------
(* Types *)

LEMMA InitType == Init => RestType
<1>1. 0 \in Shards /\ 0 \in 0..1
  BY NumbersAssumption, SMT DEF Shards
<1> SUFFICES ASSUME Init PROVE RestType
  OBVIOUS
<1>2. /\ ready \in BOOLEAN
      /\ maxConcurrent \in [Pools -> ConcurrencyLimits] /\ limit \in BudgetLimits
      /\ locked \in [Actors -> Shards \cup {None}]
  BY ZenonT(30) DEF Init
<1>3. /\ tried \in [Requests -> Shards] /\ attempt \in [Requests -> 0..1]
  BY <1>1 DEF Init
<1>4. /\ sock \in [Requests -> BOOLEAN] /\ reused \in [Requests -> BOOLEAN]
      /\ again \in [Requests -> BOOLEAN]
  BY DEF Init
<1> QED BY <1>2, <1>3, <1>4 DEF RestType

LEMMA RequestType ==
    ASSUME HeldInv, RestType, NEW r \in Requests, RouteRequest(r) \/ RequestStep(r)
    PROVE  RestType'
<1>0. r \in Actors /\ 0 \in Shards /\ (tried[r] + 1) % NShards \in Shards /\ 0 \in 0..1 /\ 1 \in 0..1
  BY NumbersAssumption, SMT DEF Actors, RestType, Shards
<1>1. CASE RouteRequest(r) \/ EvictGiveTotal(r) \/ EvictGiveBudget(r)
  BY <1>1 DEF RouteRequest, EvictGiveTotal, EvictGiveBudget, RestType, tableVars, callVars, limits
<1>2. CASE SweepDone(r) \/ ScanThrow(r)
  BY <1>0, <1>2 DEF SweepDone, ScanThrow, Unlock, RestType, tableVars, callVars, limits
<1>3. CASE EvictInSweep(r) \/ EvictInScan(r)
  <2>1. PICK h \in Shards : EvictFrom(r, h)
    BY <1>3 DEF EvictInSweep, EvictInScan, HeldInv
  <2> QED BY <1>0, <2>1 DEF EvictFrom, RestType, tableVars, callVars, limits
<1>4. CASE ReserveInFlight(r) \/ RefuseInFlight(r) \/ ReserveTotal(r) \/ ReserveBudget(r)
  BY <1>0, <1>4 DEF ReserveInFlight, RefuseInFlight, ReserveTotal, ReserveBudget, RestType,
     tableVars, limits
<1>5. CASE ScanPop(r) \/ ScanNext(r)
  <2>1. /\ tried' = [tried EXCEPT ![r] = 0] \/ tried' = [tried EXCEPT ![r] = (@ + 1) % NShards]
        /\ locked' = [locked EXCEPT ![r] = None]
    BY <1>5 DEF ScanPop, ScanNext, Unlock
  <2>2. tried' \in [Requests -> Shards] /\ locked' \in [Actors -> Shards \cup {None}]
    BY <1>0, <2>1 DEF RestType
  <2>3. sock' \in [Requests -> BOOLEAN] /\ reused' \in [Requests -> BOOLEAN]
    BY <1>5, ZenonT(30) DEF ScanPop, ScanNext, RestType
  <2>4. UNCHANGED <<ready, maxConcurrent, limit, attempt, again>>
    BY <1>5 DEF ScanPop, ScanNext, tableVars, limits
  <2> QED BY <2>2, <2>3, <2>4 DEF RestType
<1>6. CASE Track(r) \/ TrackThrow(r) \/ Insert(r) \/ InsertThrow(r) \/ ConnectOk(r)
  BY <1>6, ZenonT(30) DEF Track, TrackThrow, Insert, InsertThrow, ConnectOk, RestType, tableVars, callVars,
     limits
<1>7. CASE ConnectFail(r) \/ ReleaseNoMemory(r) \/ ReleaseClosed(r)
  BY <1>7, ZenonT(30) DEF ConnectFail, ReleaseNoMemory, ReleaseClosed, RestType, tableVars, callVars, limits
<1>8. ASSUME NEW l, EndUse(r, l), again' \in [Requests -> BOOLEAN], attempt' \in [Requests -> 0..1]
      PROVE  RestType'
  BY <1>8 DEF EndUse, RestType, tableVars, limits
<1>9. CASE BuildRefuses(r) \/ UseThrow(r)
  BY <1>8, <1>9 DEF BuildRefuses, UseThrow, RestType
<1>10. CASE UseOk(r)
  BY <1>8, <1>10 DEF UseOk, RestType
<1>11. CASE UseBad(r)
  <2>1. PICK b \in BOOLEAN : again' = [again EXCEPT ![r] = b /\ reused[r] /\ attempt[r] = 0]
    BY <1>11, ZenonT(30) DEF UseBad
  <2>2. again' \in [Requests -> BOOLEAN]
    BY <2>1 DEF RestType
  <2>3. attempt' \in [Requests -> 0..1]
    BY <1>0, <1>11 DEF UseBad, RestType
  <2> QED BY <1>8, <1>11, <2>2, <2>3 DEF UseBad
<1>12. CASE ReleaseIdle(r) \/ DropInFlight(r) \/ GiveTotal(r) \/ GiveBudget(r) \/ GiveInFlight(r)
  BY <1>12, ZenonT(30) DEF ReleaseIdle, DropInFlight, GiveTotal, GiveBudget, GiveInFlight, RestType,
     tableVars, limits
<1>13. CASE EndAttempt(r)
  <2>1. attempt' = attempt \/ attempt' = [attempt EXCEPT ![r] = 0]
    BY <1>13, Zenon DEF EndAttempt
  <2>2. attempt' \in [Requests -> 0..1]
    BY <1>0, <2>1 DEF RestType
  <2> QED BY <1>0, <1>13, <2>2, ZenonT(30) DEF EndAttempt, RestType, tableVars, limits
<1> QED BY <1>1, <1>2, <1>3, <1>4, <1>5, <1>6, <1>7, <1>9, <1>10, <1>11, <1>12, <1>13
    DEF RequestStep, EvictStep

LEMMA StepType == HeldInv /\ RestType /\ [Next]_vars => RestType'
<1> SUFFICES ASSUME HeldInv, RestType, [Next]_vars PROVE RestType'
  OBVIOUS
<1>1. CASE UNCHANGED vars
  BY <1>1 DEF vars, RestType, tableVars, callVars, limits
<1>2. CASE (\E kept, made \in SUBSET Pools : PrepareReload(kept, made)) \/ PublishReload
  BY <1>2, ZenonT(30) DEF PrepareReload, PublishReload, RestType, callVars, limits
<1>3. ASSUME NEW p \in Pools, DestroyStep(p) PROVE RestType'
  BY <1>3 DEF DestroyStep, DestroyPool, CloseIdle, CloseGiveTotal, CloseGiveBudget, CloseDone,
     RestType, callVars, limits
<1>4. ASSUME NEW a \in Sweepers, StatsSweep(a) \/ EvictStep(a) PROVE RestType'
  <2>1. CASE EvictInSweep(a)
    <3>1. PICK h \in Shards : EvictFrom(a, h)
      BY <2>1 DEF EvictInSweep
    <3> QED BY <3>1, ZenonT(30) DEF EvictFrom, RestType, tableVars, callVars, limits
  <2>2. CASE SweepDone(a)
    BY <2>2, ZenonT(30) DEF SweepDone, Unlock, RestType, tableVars, callVars, limits
  <2>3. CASE StatsSweep(a) \/ EvictGiveTotal(a) \/ EvictGiveBudget(a)
    BY <2>3 DEF StatsSweep, EvictGiveTotal, EvictGiveBudget, RestType, tableVars, callVars, limits
  <2> QED BY <1>4, <2>1, <2>2, <2>3 DEF EvictStep
<1> QED BY <1>1, <1>2, <1>3, <1>4, RequestType DEF Next

-----------------------------------------------------------------------------
(* The theorems *)

\* The invariant under which HttpPool, its shards, the budget and the sessions work,
\* whatever the reloads and the evictions do.
THEOREM PoolInvariant == Spec => []PoolInv
<1>1. Init => PoolInv
  BY CountingHolds, InitRef, InitWire, InitSlots, InitShards DEF PoolInv
<1>2. PoolInv /\ [Next]_vars => PoolInv'
  BY CountingHolds, StepRef, StepHeld, StepWire, StepSlots, StepShard, StepActive DEF PoolInv
<1> QED BY <1>1, <1>2, PTL DEF Spec

\* total_count, in_flight_count, Shard::total, Shard::in_flight, Shard::active and the
\* shared budget count exactly what exists, for any number of sessions, pools, shards and
\* reloads: no failing path of acquire(), no release and no destructor leaks a slot.
THEOREM AccountingCorrect == Spec => []Accounting
<1>1. PoolInv => Accounting
  BY DEF PoolInv, SlotInv, ShardInv, ActiveInv, Users, Accounting
<1> QED BY <1>1, PoolInvariant, PTL

\* A pool never has more open sockets than max_size, whatever runs concurrently between
\* the check of total_count and the connect.
THEOREM SocketsBoundedCorrect == Spec => []SocketsBounded
<1>1. ASSUME PoolInv, NEW p \in Pools
      PROVE  Cardinality(IdleConns({p}))
             + Cardinality({r \in Reserved({p}, "total") : sock[r]}) <= MaxSize
  <2> DEFINE R == Reserved({p}, "total")
             Q == {r \in R : sock[r]}
             E == Evicting({p}, EvictOwes("total"))
             C == Closing({p}, CloseOwes("total"))
             I == IdleConns({p})
  <2>0. {p} \in SUBSET Pools /\ IsFiniteSet(IdleConns(Pools))
    BY <1>1 DEF PoolInv, SlotInv
  <2>1. /\ IsFiniteSet(R) /\ Cardinality(R) \in Nat /\ Cardinality(I) \in Nat
        /\ Cardinality(E) \in Nat /\ Cardinality(C) \in Nat
    BY <2>0, CountingHolds, Finite
  <2>2. Cardinality(Q) \in Nat /\ Cardinality(Q) <= Cardinality(R)
    <3>1. Q \in SUBSET R
      OBVIOUS
    <3> HIDE DEF Q, R
    <3> QED BY <2>1, <3>1, FS_Subset, FS_CardinalityType
  <2>3. /\ Cardinality(I) + Cardinality(R) + Cardinality(E) + Cardinality(C) = total[p]
        /\ total[p] <= MaxSize
    BY <1>1 DEF PoolInv, SlotInv, Taken
  <2>4. MaxSize \in Nat
    BY NumbersAssumption
  <2> HIDE DEF I, R, E, C, Q
  <2>5. Cardinality(I) + Cardinality(Q) <= MaxSize
    BY <2>1, <2>2, <2>3, <2>4, SMT
  <2> QED BY <2>5 DEF I, Q, R
<1>2. PoolInv => SocketsBounded
  BY <1>1 DEF SocketsBounded
<1> QED BY <1>2, PoolInvariant, PTL

\* Every variable has its type; the counters of the pools, of the shards and of the budget,
\* which the code keeps in unsigned integers, never go below zero.
THEOREM TypeCorrect == Spec => []TypeOK
<1>1. PoolInv /\ RestType => TypeOK
  <2> SUFFICES ASSUME PoolInv, RestType PROVE TypeOK
    OBVIOUS
  <2>1. wire \in [Requests -> WireStates]
    BY DEF PoolInv, WireInv, Kept, WireStates
  <2>2. idle \in [Pools -> [Shards -> Seq(WireStates)]]
    <3>1. Seq(Kept) \subseteq Seq(WireStates)
      BY SMT DEF Kept, WireStates
    <3> QED BY <3>1 DEF PoolInv, WireInv
  <2> QED BY <2>1, <2>2 DEF PoolInv, RestType, RefInv, RefType, HeldInv, HasInv, SlotInv,
      ShardInv, ActiveInv, TypeOK
<1>2. PoolInv => HeldInv
  BY DEF PoolInv
<1> QED BY <1>1, <1>2, InitType, StepType, PoolInvariant, PTL DEF Spec
=============================================================================
