-------------------------- MODULE HotReloadProofs --------------------------
(***************************************************************************)
(* Safety of HotReload for any number of requests, threads, edits and      *)
(* failed loads.                                                           *)
(*                                                                         *)
(* The inductive invariant adds to the three properties what makes them    *)
(* hold: versions only grow along disk >= current >= sec.ver >= up.ver     *)
(* while a reload runs, a load that passed the second fingerprint check    *)
(* read one version, every cached or remembered generation is at most the  *)
(* live one, and a remembered route is at most as new as the live table.   *)
(***************************************************************************)
EXTENDS HotReload, TLAPS

Loaded == {"prepare", "publishRules", "publishRoutes"}

\* How far the timer handler is, and what that says about what it read.
ReloadInv ==
    /\ sec.ver <= disk /\ up.ver <= sec.ver /\ current <= disk
    /\ rpc \notin {"idle", "off"} => sec.ver <= current
    /\ rpc \in {"loadRoutes", "verify"} => current <= rulesRead /\ rulesRead <= disk
    /\ rpc = "verify" => rulesRead <= routesRead /\ routesRead <= disk
    /\ rpc \in Loaded => rulesRead = current /\ routesRead = current
    /\ rpc \in {"publishRules", "publishRoutes"} => kind[current] \in {"good", "off"}
    /\ rpc = "publishRoutes" => sec.ver = current

\* No remembered generation is ahead of the live one.
GenerationInv ==
    /\ \A a \in Views : a.gen <= sec.gen
    /\ GenerationIdentifiesRules

\* What the routes of the requests are compared with.
RouteInv ==
    \A s \in Sessions :
        /\ route[s] # None => route[s] <= up.ver
        /\ pc[s] \in {"verifyRoutes", "verifyRules", "proxy"} => route[s] # None
        /\ pc[s] # "notfound" => attempt[s] < MaxAttempts

Inv ==
    /\ TypeOK /\ ReloadInv /\ OneConfigurationIsLive /\ GenerationInv /\ RouteInv
    /\ RulesNotOlderThanRoutes

\* The initial configuration satisfies the invariant.
LEMMA InitInv == Init => Inv
<1> SUFFICES ASSUME Init PROVE Inv
    OBVIOUS
<1> USE BoundsAssumption, NoneAssumption
<1>1. 0 \in Versions
    BY DEF Versions
<1>2. TypeOK
  <2>1. [gen |-> 0, ver |-> 0] \in Published /\ [gen |-> 1, ver |-> 0] \in Published
      BY <1>1 DEF Published
  <2>2. /\ "new" \in SessionPCs /\ "idle" \in ReloadPCs /\ "good" \in Kinds
        /\ 0 \in 0..MaxFaults /\ 0 \in 0..MaxAttempts
      BY DEF SessionPCs, ReloadPCs, Kinds, MaxAttempts
  <2> QED
      BY <1>1, <2>1, <2>2, Zenon DEF Init, TypeOK
<1>3. ReloadInv /\ OneConfigurationIsLive
    BY <1>1 DEF Init, ReloadInv, Loaded, OneConfigurationIsLive
<1>4. \A a \in Views : a.ver = 0 /\ a.gen \in {0, 1}
    BY DEF Init, Views
<1>5. GenerationInv
    BY <1>4 DEF Init, GenerationInv, GenerationIdentifiesRules
<1>6. RouteInv /\ RulesNotOlderThanRoutes
    BY DEF Init, RouteInv, RulesNotOlderThanRoutes, MaxAttempts
<1> QED
    BY <1>2, <1>3, <1>5, <1>6 DEF Inv

\* Types are preserved by every step.
LEMMA TypeStep == ASSUME Inv, [Next]_vars PROVE TypeOK'
<1> USE BoundsAssumption, NoneAssumption DEF Versions, TypeOK, Published
<1>a. TypeOK
    BY DEF Inv
<1>b. \A s \in Sessions :
        pc[s] \in {"verifyRoutes", "verifyRules"} => attempt[s] < MaxAttempts
    BY DEF Inv, RouteInv
<1>1. ASSUME NEW k \in Kinds, Edit(k) PROVE TypeOK'
    BY <1>a, <1>1 DEF Edit, reloadVars, sessionVars
<1>2. CASE Start
    BY <1>a, <1>2 DEF Start, sessionVars
<1>3. CASE Stop
    BY <1>a, <1>3, Zenon DEF Stop, sessionVars
<1>4. CASE Tick
    BY <1>a, <1>4 DEF Tick, sessionVars, ReloadPCs
<1>5. CASE LoadRules
    BY <1>a, <1>5 DEF LoadRules, sessionVars, ReloadPCs
<1>6. CASE LoadRoutes
    BY <1>a, <1>6 DEF LoadRoutes, sessionVars, ReloadPCs
<1>7. CASE ReadFails
    BY <1>a, <1>7 DEF ReadFails, sessionVars, ReloadPCs
<1>8. CASE VerifyLoad
    BY <1>a, <1>8 DEF VerifyLoad, sessionVars, ReloadPCs
<1>9. CASE Prepare
    BY <1>a, <1>9 DEF Prepare, sessionVars, ReloadPCs
<1>10. CASE PublishRules
  <2>1. sec' \in Published /\ rpc' \in ReloadPCs
      BY <1>a, <1>10 DEF PublishRules, ReloadPCs
  <2> QED
      BY <1>a, <1>10, <2>1 DEF PublishRules, sessionVars
<1>11. CASE PublishRoutes
  <2>1. up' \in Published /\ rpc' \in ReloadPCs
      BY <1>a, <1>11 DEF PublishRoutes, ReloadPCs
  <2> QED
      BY <1>a, <1>11, <2>1 DEF PublishRoutes, sessionVars
<1>12. ASSUME NEW s \in Sessions, SessionStep(s) PROVE TypeOK'
  <2>1. CASE BeginCheck(s)
      BY <1>a, <2>1, Zenon DEF BeginCheck, reloadVars, SessionPCs, Decided
  <2>2. CASE FinishCheck(s)
    <3>1. View(s) \in Published
        BY <1>a DEF View
    <3>2. cache' \in [Threads -> Published] /\ judged' \in [Sessions -> Published]
        BY <1>a, <2>2, <3>1 DEF FinishCheck
    <3>3. pc' \in [Sessions -> SessionPCs]
        BY <1>a, <2>2 DEF FinishCheck, SessionPCs, Decided
    <3> QED
        BY <1>a, <2>2, <3>2, <3>3, Zenon DEF FinishCheck, reloadVars
  <2>3. CASE Compare(s)
      BY <1>a, <2>3, Zenon DEF Compare, reloadVars, SessionPCs, Decided
  <2>4. CASE ReadRouteGen(s)
      BY <1>a, <2>4, Zenon DEF ReadRouteGen, reloadVars, SessionPCs, Decided
  <2>5. CASE Route(s)
      BY <1>a, <2>5, Zenon DEF Route, reloadVars, SessionPCs, Decided
  <2>6. CASE VerifyRoutes(s)
    <3>1. pc' \in [Sessions -> SessionPCs]
        BY <1>a, <2>6, Zenon DEF VerifyRoutes, Retry, SessionPCs, Decided
    <3>2. route' \in [Sessions -> Versions \cup {None}]
        BY <1>a, <2>6, Zenon DEF VerifyRoutes, Retry
    <3>3. attempt' \in [Sessions -> 0..MaxAttempts]
      <4>0. attempt[s] \in 0..MaxAttempts /\ attempt[s] < MaxAttempts
          BY <1>a, <1>b, <2>6 DEF VerifyRoutes
      <4>1. attempt[s] + 1 \in 0..MaxAttempts
          BY <4>0 DEF MaxAttempts
      <4>2. attempt' = attempt \/ attempt' = [attempt EXCEPT ![s] = attempt[s] + 1]
          BY <2>6 DEF VerifyRoutes, Retry
      <4> QED
          BY <1>a, <4>1, <4>2, Zenon
    <3> QED
        BY <1>a, <2>6, <3>1, <3>2, <3>3, Zenon DEF VerifyRoutes, reloadVars
  <2>7. CASE VerifyRules(s)
    <3>1. pc' \in [Sessions -> SessionPCs]
        BY <1>a, <2>7, Zenon DEF VerifyRules, Retry, SessionPCs, Decided
    <3>2. route' \in [Sessions -> Versions \cup {None}]
        BY <1>a, <2>7, Zenon DEF VerifyRules, Retry
    <3>3. attempt' \in [Sessions -> 0..MaxAttempts]
      <4>0. attempt[s] \in 0..MaxAttempts /\ attempt[s] < MaxAttempts
          BY <1>a, <1>b, <2>7 DEF VerifyRules
      <4>1. attempt[s] + 1 \in 0..MaxAttempts
          BY <4>0 DEF MaxAttempts
      <4>2. attempt' = attempt \/ attempt' = [attempt EXCEPT ![s] = attempt[s] + 1]
          BY <2>7 DEF VerifyRules, Retry
      <4> QED
          BY <1>a, <4>1, <4>2, Zenon
    <3> QED
        BY <1>a, <2>7, <3>1, <3>2, <3>3, Zenon DEF VerifyRules, reloadVars
  <2> QED
      BY <1>12, <2>1, <2>2, <2>3, <2>4, <2>5, <2>6, <2>7, Zenon DEF SessionStep
<1>13. CASE UNCHANGED vars
    BY <1>a, <1>13 DEF vars, reloadVars, sessionVars
<1> QED
    BY <1>1, <1>2, <1>3, <1>4, <1>5, <1>6, <1>7, <1>8, <1>9, <1>10, <1>11, <1>12, <1>13, Zenon
       DEF Next, ReloadStep

\* The handler's bookkeeping is preserved by every step.
LEMMA ReloadInvStep ==
    ASSUME Inv, [Next]_vars
    PROVE  ReloadInv' /\ OneConfigurationIsLive' /\ up.ver <= up'.ver
<1> USE BoundsAssumption DEF ReloadInv, OneConfigurationIsLive, Loaded
<1>a. /\ ReloadInv /\ OneConfigurationIsLive
      /\ disk \in Nat /\ current \in Nat /\ rulesRead \in Nat /\ routesRead \in Nat
      /\ sec.ver \in Nat /\ up.ver \in Nat /\ sec.ver \in Versions
      /\ current \in Versions /\ kind \in [Versions -> Kinds]
    BY DEF Inv, TypeOK, Published, Versions
<1>1. ASSUME NEW k \in Kinds, Edit(k) PROVE ReloadInv' /\ OneConfigurationIsLive' /\ up.ver <= up'.ver
  <2>1. disk + 1 # sec.ver /\ disk + 1 # current
      BY <1>a
  <2>2. kind'[sec.ver] = kind[sec.ver] /\ kind'[current] = kind[current]
      BY <1>a, <1>1, <2>1 DEF Edit
  <2> QED
      BY <1>a, <1>1, <2>2 DEF Edit, reloadVars
<1>2. CASE Start
    BY <1>a, <1>2 DEF Start
<1>3. CASE Stop
    BY <1>a, <1>3 DEF Stop
<1>4. CASE Tick
    BY <1>a, <1>4 DEF Tick
<1>5. CASE LoadRules
    BY <1>a, <1>5 DEF LoadRules
<1>6. CASE LoadRoutes
    BY <1>a, <1>6 DEF LoadRoutes
<1>7. CASE ReadFails
    BY <1>a, <1>7 DEF ReadFails
<1>8. CASE VerifyLoad
    BY <1>a, <1>8 DEF VerifyLoad
<1>9. CASE Prepare
    BY <1>a, <1>9 DEF Prepare, Rejected, Kinds
<1>10. CASE PublishRules
    BY <1>a, <1>10 DEF PublishRules
<1>11. CASE PublishRoutes
    BY <1>a, <1>11 DEF PublishRoutes
<1>12. CASE UNCHANGED <<disk, kind, reloadVars, sec, up>>
    BY <1>a, <1>12 DEF reloadVars
<1>13. ASSUME NEW s \in Sessions, SessionStep(s)
       PROVE  UNCHANGED <<disk, kind, reloadVars, sec, up>>
    BY <1>13 DEF SessionStep, BeginCheck, FinishCheck, Compare, ReadRouteGen, Route,
                 VerifyRoutes, VerifyRules
<1> QED
    BY <1>1, <1>2, <1>3, <1>4, <1>5, <1>6, <1>7, <1>8, <1>9, <1>10, <1>11, <1>12, <1>13
       DEF Next, ReloadStep, vars

\* Every view a step leaves behind was there before, or is the newly published one.
LEMMA ViewsStep ==
    ASSUME Inv, [Next]_vars
    PROVE  \/ Views' \subseteq Views /\ sec' = sec
           \/ Views' \subseteq Views \cup {sec'} /\ sec'.gen = sec.gen + 1
<1>a. TypeOK
    BY DEF Inv
<1>1. CASE PublishRules
    BY <1>1 DEF PublishRules, sessionVars, Views
<1>2. ASSUME NEW s \in Sessions, FinishCheck(s) PROVE Views' \subseteq Views /\ sec' = sec
  <2>1. View(s) \in Views /\ sec' = sec
      BY <1>a, <1>2 DEF View, Views, TypeOK, FinishCheck
  <2>2. \A t \in Threads : cache'[t] = cache[t] \/ cache'[t] = View(s)
      BY <1>a, <1>2 DEF TypeOK, FinishCheck
  <2>3. \A q \in Sessions : judged'[q] = judged[q] \/ judged'[q] = View(s)
      BY <1>a, <1>2 DEF TypeOK, FinishCheck
  <2> QED
      BY <2>1, <2>2, <2>3 DEF Views
<1>3. CASE UNCHANGED <<sec, cache, judged>>
    BY <1>3 DEF Views
<1>4. ASSUME NEW s \in Sessions, SessionStep(s), ~FinishCheck(s)
      PROVE  UNCHANGED <<sec, cache, judged>>
    BY <1>4 DEF SessionStep, BeginCheck, Compare, ReadRouteGen, Route, VerifyRoutes,
                VerifyRules
<1>5. ASSUME NEW k \in Kinds, Edit(k) PROVE UNCHANGED <<sec, cache, judged>>
    BY <1>5 DEF Edit, sessionVars
<1>6. ASSUME Start \/ Stop \/ ReloadStep, ~PublishRules PROVE UNCHANGED <<sec, cache, judged>>
    BY <1>6 DEF Start, Stop, ReloadStep, Tick, LoadRules, LoadRoutes, ReadFails, VerifyLoad,
                Prepare, PublishRoutes, sessionVars
<1>7. CASE UNCHANGED vars
    BY <1>3, <1>7 DEF vars, sessionVars
<1> QED
    BY <1>1, <1>2, <1>3, <1>4, <1>5, <1>6, <1>7 DEF Next, ReloadStep

LEMMA GenerationInvStep == ASSUME Inv, [Next]_vars PROVE GenerationInv'
<1>a. /\ GenerationInv /\ sec.gen \in Nat /\ sec \in Views
      /\ \A a \in Views : a.gen \in Nat
    BY DEF Inv, TypeOK, Published, Views
<1>1. CASE Views' \subseteq Views /\ sec' = sec
    BY <1>a, <1>1 DEF GenerationInv, GenerationIdentifiesRules
<1>2. CASE Views' \subseteq Views \cup {sec'} /\ sec'.gen = sec.gen + 1
  <2>1. \A a \in Views : a.gen <= sec.gen /\ a.gen < sec'.gen
      BY <1>a, <1>2 DEF GenerationInv
  <2>2. \A a \in Views' : a = sec' \/ (a \in Views /\ a.gen < sec'.gen)
      BY <1>2, <2>1
  <2>3. \A a \in Views' : a.gen <= sec'.gen
      BY <1>a, <1>2, <2>2
  <2>4. \A a, b \in Views' : a.gen = b.gen => a.ver = b.ver
      BY <1>a, <2>2 DEF GenerationInv, GenerationIdentifiesRules
  <2> QED
      BY <2>3, <2>4 DEF GenerationInv, GenerationIdentifiesRules
<1> QED
    BY <1>1, <1>2, ViewsStep

\* What the requests remember stays comparable with what is live.
LEMMA RouteInvStep == ASSUME Inv, [Next]_vars PROVE RouteInv' /\ RulesNotOlderThanRoutes'
<1> USE BoundsAssumption, NoneAssumption DEF RouteInv, RulesNotOlderThanRoutes
<1>a. /\ RouteInv /\ RulesNotOlderThanRoutes /\ TypeOK
    BY DEF Inv
<1>b. /\ up.ver \in Nat /\ up'.ver \in Nat /\ sec.ver \in Nat /\ up.ver <= sec.ver
      /\ up.ver <= up'.ver
  <2>1. up' \in Published
      BY TypeStep DEF TypeOK, Published, Versions
  <2>2. up \in Published /\ sec \in Published /\ up.ver <= sec.ver
      BY DEF Inv, TypeOK, ReloadInv
  <2>3. up.ver <= up'.ver
      BY ReloadInvStep
  <2> QED
      BY <2>1, <2>2, <2>3 DEF Published, Versions
<1>c. \A q \in Sessions : /\ route[q] # None => route[q] \in Nat
                          /\ judged[q].ver \in Nat /\ attempt[q] \in Nat
    BY <1>a DEF TypeOK, Versions, Published
<1>1. CASE UNCHANGED <<pc, route, judged, attempt>>
    BY <1>a, <1>b, <1>c, <1>1
<1>2. ASSUME NEW s \in Sessions, SessionStep(s) PROVE RouteInv' /\ RulesNotOlderThanRoutes'
  <2>1. CASE BeginCheck(s)
      BY <1>a, <1>b, <1>c, <2>1 DEF BeginCheck, TypeOK
  <2>2. CASE FinishCheck(s)
      BY <1>a, <1>b, <1>c, <2>2 DEF FinishCheck, TypeOK
  <2>3. CASE Compare(s)
      BY <1>a, <1>b, <1>c, <2>3 DEF Compare, TypeOK
  <2>4. CASE ReadRouteGen(s)
      BY <1>a, <1>b, <1>c, <2>4 DEF ReadRouteGen, TypeOK
  <2>5. CASE Route(s)
      BY <1>a, <1>b, <1>c, <2>5 DEF Route, TypeOK
  <2>6. CASE VerifyRoutes(s)
      BY <1>a, <1>b, <1>c, <2>6 DEF VerifyRoutes, Retry, TypeOK, MaxAttempts
  <2>7. CASE VerifyRules(s)
    <3>1. sec.gen = judged[s].gen => judged[s].ver = sec.ver
        BY DEF Inv, GenerationInv, GenerationIdentifiesRules, Views
    <3>2. sec.gen = judged[s].gen => judged[s].ver >= route[s]
        BY <1>a, <1>b, <1>c, <2>7, <3>1 DEF VerifyRules
    <3> QED
        BY <1>a, <1>b, <1>c, <2>7, <3>2 DEF VerifyRules, Retry, TypeOK, MaxAttempts
  <2> QED
      BY <1>2, <2>1, <2>2, <2>3, <2>4, <2>5, <2>6, <2>7 DEF SessionStep
<1>3. ASSUME NEW k \in Kinds, Edit(k) PROVE UNCHANGED <<pc, route, judged, attempt>>
    BY <1>3 DEF Edit, sessionVars
<1>4. ASSUME Start \/ Stop \/ ReloadStep PROVE UNCHANGED <<pc, route, judged, attempt>>
    BY <1>4 DEF Start, Stop, ReloadStep, Tick, LoadRules, LoadRoutes, ReadFails, VerifyLoad,
                Prepare, PublishRules, PublishRoutes, sessionVars
<1>5. CASE UNCHANGED vars
    BY <1>1, <1>5 DEF vars, sessionVars
<1> QED
    BY <1>1, <1>2, <1>3, <1>4, <1>5 DEF Next

\* The inductive invariant holds in every reachable state.
THEOREM ReloadInvariant == Spec => []Inv
<1>1. Inv /\ [Next]_vars => Inv'
    BY TypeStep, ReloadInvStep, GenerationInvStep, RouteInvStep DEF Inv
<1> QED
    BY InitInv, <1>1, PTL DEF Spec

\* Types, for the timer handler, the published pair and every request.
THEOREM TypeCorrect == Spec => []TypeOK
<1>1. Inv => TypeOK
    BY DEF Inv
<1> QED
    BY ReloadInvariant, <1>1, PTL

\* No request is ever proxied along a route newer than the rules that allowed it: the
\* guarantee ClientSession's consistency loop claims.
THEOREM RulesNotOlder == Spec => []RulesNotOlderThanRoutes
<1>1. Inv => RulesNotOlderThanRoutes
    BY DEF Inv
<1> QED
    BY ReloadInvariant, <1>1, PTL

\* ReloadService publishes whole, accepted configurations only.
THEOREM WholeConfigurations == Spec => []OneConfigurationIsLive
<1>1. Inv => OneConfigurationIsLive
    BY DEF Inv
<1> QED
    BY ReloadInvariant, <1>1, PTL

\* snapshot_view_fast() never pairs a generation with another generation's rules.
THEOREM CachesAgree == Spec => []GenerationIdentifiesRules
<1>1. Inv => GenerationIdentifiesRules
    BY DEF Inv, GenerationInv
<1> QED
    BY ReloadInvariant, <1>1, PTL
=============================================================================
