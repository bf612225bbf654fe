----------------------------- MODULE ServerProofs -----------------------------
(***************************************************************************)
(* Proofs about Server and Combo for every number of sessions and queries, *)
(* every limit and every number of io threads.                             *)
(*                                                                         *)
(* The inductive invariant has four parts, each closed under the steps by  *)
(* itself or with the parts before it: the sessions and their counters,    *)
(* the bytes left on a connection, the queries and their permits, and the  *)
(* order of the stop.                                                      *)
(***************************************************************************)
EXTENDS Server, Counting, FiniteSetTheorems, TLAPS

-----------------------------------------------------------------------------
(* Sizes of finite sets *)

\* What adding or removing at most one element does to the size of a set.
LEMMA OneElement ==
    ASSUME NEW A, NEW B, NEW s, IsFiniteSet(A), A \ {s} = B \ {s}
    PROVE  /\ Cardinality(A) \in Nat /\ Cardinality(B) \in Nat
           /\ Cardinality(B) = Cardinality(A) + In(s, B) - In(s, A)
           /\ s \in A => Cardinality(A) > 0
           /\ IsFiniteSet(B)
<1>0. IsFiniteSet(B)
  <2>1. IsFiniteSet(A \cup {s}) /\ B \in SUBSET (A \cup {s})
    BY FS_AddElement
  <2> QED BY <2>1, FS_Subset
<1>1. Cardinality(A) \in Nat
  BY FS_CardinalityType
<1>2. s \in A => Cardinality(A) > 0
  BY <1>1, FS_EmptySet
<1>3. CASE s \in A <=> s \in B
  <2>1. A = B
    BY <1>3
  <2> QED BY <1>0, <1>1, <1>2, <2>1 DEF In
<1>4. CASE s \notin A /\ s \in B
  <2>1. B = A \cup {s}
    BY <1>4
  <2>2. Cardinality(B) = Cardinality(A) + 1
    BY <2>1, <1>4, FS_AddElement
  <2> QED BY <1>0, <1>1, <1>4, <2>2 DEF In
<1>5. CASE s \in A /\ s \notin B
  <2>1. B = A \ {s}
    BY <1>5
  <2>2. Cardinality(B) = Cardinality(A) - 1
    BY <2>1, <1>5, FS_RemoveElement
  <2> QED BY <1>0, <1>1, <1>2, <1>5, <2>2 DEF In
<1> QED BY <1>3, <1>4, <1>5

USE ZenonT(30)

\* Where a session can be, and where it is in the registry, holds a handler
\* lease, or holds a session lease.
Registered == {"loop", "read", "body", "handle", "combo", "write", "end",
               "end-refused"}
Handled == {"counted", "register", "loop", "read", "body", "handle", "combo",
            "write", "end"}
Entered == Handled \cup {"recheck", "enter", "refused", "end-refused"}
SessionPCs == Entered \cup {"none", "admit"}

Statuses == {0, 200, 400, 408, 413}

\* The sessions of f whose program counter is in S.
At(f, S) == {s \in Sessions : f[s].pc \in S}

SessionType == ses \in [Sessions -> [pc : SessionPCs, clean : BOOLEAN,
                                     status : Statuses]]

\* The counters and the registry are what the sessions' positions say.
SessionInv ==
    /\ SessionType
    /\ active = Cardinality(At(ses, Entered))
    /\ handlers = Cardinality(At(ses, Handled))
    /\ maxClients \in ClientLimits
    /\ active <= maxClients
    /\ registry = At(ses, Registered)
    /\ closing \cup closed \subseteq registry

-----------------------------------------------------------------------------
(* Sessions and their counters *)

\* The step moves session s to pc and no other session.
Moves(s, pc) ==
    /\ SessionType'
    /\ ses'[s].pc = pc
    /\ \A t \in Sessions \ {s} : ses'[t] = ses[t]

\* A session's move keeps the counters when they change by what the session
\* takes or gives back, and the registry when the session enters or leaves it
\* as its position says.
Balanced(s, pc) ==
    /\ Moves(s, pc)
    /\ active' = active + In(pc, Entered) - In(ses[s].pc, Entered)
    /\ handlers' = handlers + In(pc, Handled) - In(ses[s].pc, Handled)
    /\ maxClients' = maxClients
    /\ active' <= maxClients
    /\ registry' = IF pc \in Registered THEN registry \cup {s} ELSE registry \ {s}
    /\ closing' \cup closed' \subseteq registry'

LEMMA BalancedStep ==
    ASSUME SessionInv, NEW s \in Sessions, NEW pc, Balanced(s, pc)
    PROVE  SessionInv'
<1>1. /\ SessionType' /\ ses'[s].pc = pc
      /\ \A t \in Sessions \ {s} : ses'[t] = ses[t]
  BY DEF Balanced, Moves
<1>2. ASSUME NEW S
      PROVE  Cardinality(At(ses', S)) =
               Cardinality(At(ses, S)) + In(pc, S) - In(ses[s].pc, S)
  <2>1. /\ At(ses, S) \ {s} = At(ses', S) \ {s}
        /\ In(s, At(ses', S)) = In(pc, S)
        /\ In(s, At(ses, S)) = In(ses[s].pc, S)
    BY <1>1, SMT DEF At, In
  <2>2. IsFiniteSet(At(ses, S))
    BY ComboAssumption, FS_Subset DEF At
  <2> QED BY <2>1, <2>2, OneElement, SMT
<1>3. registry' = At(ses', Registered)
  BY <1>1, SMT DEF SessionInv, Balanced, At
<1>4. active' = Cardinality(At(ses', Entered))
  BY <1>2 DEF SessionInv, Balanced
<1>5. handlers' = Cardinality(At(ses', Handled))
  BY <1>2 DEF SessionInv, Balanced
<1> QED BY <1>1, <1>3, <1>4, <1>5 DEF SessionInv, Balanced

\* Steps that move no session.
LEMMA RestSessions ==
    ASSUME SessionInv, UNCHANGED <<ses, active, handlers, maxClients, registry>>,
           closing' \cup closed' \subseteq registry
    PROVE  SessionInv'
  BY DEF SessionInv, SessionType, At

LEMMA InitSessions == Init => SessionInv
<1> SUFFICES ASSUME Init PROVE SessionInv
  OBVIOUS
<1>1. SessionType
  BY DEF Init, SessionType, NoSession, SessionPCs, Statuses
<1>2. At(ses, Entered) = {} /\ At(ses, Handled) = {} /\ At(ses, Registered) = {}
  BY DEF Init, At, NoSession, Entered, Handled, Registered
<1>3. active = Cardinality({}) /\ handlers = Cardinality({})
  BY FS_EmptySet DEF Init
<1>4. active <= maxClients
  BY ServerAssumption, SMT DEF Init
<1> QED BY <1>1, <1>2, <1>3, <1>4 DEF Init, SessionInv

\* The counters are numbers, the session counter positive while a session is
\* entered.
LEMMA CountersTyped ==
    ASSUME SessionInv
    PROVE  /\ active \in Nat /\ handlers \in Nat /\ maxClients \in Nat
           /\ \A s \in Sessions : ses[s].pc \in Entered => active > 0
           /\ \A s \in Sessions : s \in registry <=> ses[s].pc \in Registered
<1>1. Cardinality(At(ses, Entered)) \in Nat /\ Cardinality(At(ses, Handled)) \in Nat
  BY ComboAssumption, FS_Subset, FS_CardinalityType DEF At
<1>2. \A s \in Sessions : ses[s].pc \in Entered => Cardinality(At(ses, Entered)) > 0
  BY ComboAssumption, FS_Subset, OneElement DEF At
<1>3. \A s \in Sessions : s \in registry <=> ses[s].pc \in Registered
  BY DEF SessionInv, At
<1> QED BY <1>1, <1>2, <1>3, ServerAssumption DEF SessionInv

\* Goto moves one session.
LEMMA GotoMoves ==
    ASSUME SessionType, NEW s \in Sessions, NEW pc \in SessionPCs, Goto(s, pc)
    PROVE  Moves(s, pc)
  BY DEF SessionType, Moves, Goto

\* A step that leaves counters, registry and closes alone is balanced when the
\* session's two positions hold the same leases.
LEMMA QuietMove ==
    ASSUME SessionInv, NEW s \in Sessions, NEW pc, Moves(s, pc),
           UNCHANGED <<active, handlers, maxClients, registry, closing, closed>>,
           In(pc, Entered) = In(ses[s].pc, Entered),
           In(pc, Handled) = In(ses[s].pc, Handled),
           pc \in Registered <=> ses[s].pc \in Registered
    PROVE  SessionInv'
<1>1. In(pc, Entered) \in Nat /\ In(pc, Handled) \in Nat
  BY DEF In
<1>2. Balanced(s, pc)
  BY <1>1, CountersTyped, SMT DEF Balanced, SessionInv
<1> QED BY <1>2, BalancedStep

\* The acceptor keeps counters and registry.
LEMMA AcceptSessions ==
    ASSUME SessionInv, NEW s \in Sessions, Accept(s) \/ Admit(s) \/ Recheck(s)
    PROVE  SessionInv'
<1> USE DEF SessionPCs, Entered, Handled, Registered
<1>1. CASE Accept(s)
  <2>1. Moves(s, "admit") /\ ses[s].pc = "none"
    BY <1>1, GotoMoves DEF Accept, SessionInv
  <2> QED BY <1>1, <2>1, QuietMove DEF Accept, SessionOnly, stopVars, In
<1>2. CASE Admit(s)
  <2>1. CASE Full
    <3>1. Moves(s, "none") /\ ses[s].pc = "admit"
      BY <1>2, <2>1, GotoMoves DEF Admit, SessionInv
    <3> QED BY <1>2, <2>1, <3>1, QuietMove DEF Admit, stopVars, In
  <2>2. CASE ~Full
    <3>1. Moves(s, "recheck") /\ ses[s].pc = "admit"
      BY <1>2, <2>2, GotoMoves DEF Admit, SessionInv
    <3>2. active' = active + 1 /\ active' <= maxClients
      BY <1>2, <2>2, CountersTyped, SMT DEF Admit, Full
    <3>3. Balanced(s, "recheck")
      BY <1>2, <3>1, <3>2, CountersTyped, SMT DEF Admit, stopVars, Balanced, In, SessionInv
    <3> QED BY <3>3, BalancedStep
  <2> QED BY <2>1, <2>2
<1>3. CASE Recheck(s)
  <2>1. CASE coord = "running"
    <3>1. Moves(s, "enter") /\ ses[s].pc = "recheck"
      BY <1>3, <2>1, GotoMoves DEF Recheck, SessionInv
    <3> QED BY <1>3, <2>1, <3>1, QuietMove DEF Recheck, stopVars, In
  <2>2. CASE coord # "running"
    <3>1. Moves(s, "none") /\ ses[s].pc = "recheck"
      BY <1>3, <2>2, GotoMoves DEF Recheck, SessionInv
    <3>2. active' = active - 1 /\ active' <= maxClients
      BY <1>3, <2>2, <3>1, CountersTyped, SMT DEF Recheck, LeaveSession, SessionInv
    <3>3. Balanced(s, "none")
      BY <1>3, <3>1, <3>2, CountersTyped, SMT DEF Recheck, stopVars, Balanced, In, SessionInv
    <3> QED BY <3>3, BalancedStep
  <2> QED BY <2>1, <2>2
<1> QED BY <1>1, <1>2, <1>3

SessionRecords == [pc : SessionPCs, clean : BOOLEAN, status : Statuses]

\* Storing a session record moves one session.
LEMMA RecordMoves ==
    ASSUME SessionType, NEW s \in Sessions, NEW r \in SessionRecords,
           ses' = [ses EXCEPT ![s] = r]
    PROVE  Moves(s, r.pc)
  BY DEF SessionType, Moves, SessionRecords

\* A refusal and a route's answer move the session to the write.
LEMMA AnswerMoves ==
    ASSUME SessionType, NEW s \in Sessions
    PROVE  /\ \A status \in Statuses : Refuse(s, status) => Moves(s, "write")
           /\ ses' = [ses EXCEPT ![s].pc = "write", ![s].status = 200]
                => Moves(s, "write")
<1>0. "write" \in SessionPCs /\ 200 \in Statuses
  BY DEF SessionPCs, Entered, Handled, Statuses
<1>1. ASSUME NEW status \in Statuses, Refuse(s, status)
      PROVE  Moves(s, "write")
  <2> DEFINE r == [pc |-> "write", clean |-> FALSE, status |-> status]
  <2>1. r \in SessionRecords /\ r.pc = "write"
    BY <1>0 DEF SessionRecords
  <2>2. ses' = [ses EXCEPT ![s] = r]
    BY <1>1 DEF Refuse
  <2> QED BY <2>1, <2>2, RecordMoves
<1>2. ASSUME ses' = [ses EXCEPT ![s].pc = "write", ![s].status = 200]
      PROVE  Moves(s, "write")
  <2> DEFINE r == [ses[s] EXCEPT !.pc = "write", !.status = 200]
  <2>1. r \in SessionRecords /\ r.pc = "write"
    BY <1>0 DEF SessionType, SessionRecords
  <2>2. ses' = [ses EXCEPT ![s] = r]
    BY <1>2 DEF SessionType
  <2> QED BY <2>1, <2>2, RecordMoves
<1> QED BY <1>1, <1>2

\* Where the write leaves the session.
LEMMA WriteMoves ==
    ASSUME SessionType, NEW s \in Sessions, WriteResponse(s)
    PROVE  Moves(s, "loop") \/ Moves(s, "end")
<1>1. PICK sent, keepAlive \in BOOLEAN :
        ses' = [ses EXCEPT ![s] =
            IF /\ sent
               /\ ~ClosesConnection(ses[s].status)
               /\ keepAlive
               /\ routes = "running"
            THEN [pc |-> "loop", clean |-> ses[s].clean, status |-> 0]
            ELSE [NoSession EXCEPT !.pc = "end"]]
  BY DEF WriteResponse
<1> DEFINE kept == [pc |-> "loop", clean |-> ses[s].clean, status |-> 0]
           ended == [NoSession EXCEPT !.pc = "end"]
<1>2. ses' = [ses EXCEPT ![s] = kept] \/ ses' = [ses EXCEPT ![s] = ended]
  BY <1>1
<1>3. ses[s].clean \in BOOLEAN
  BY DEF SessionType
<1>4. kept \in SessionRecords /\ kept.pc = "loop"
  BY <1>3 DEF SessionRecords, SessionPCs, Entered, Handled, Statuses
<1>5. ended \in SessionRecords /\ ended.pc = "end"
  BY DEF SessionRecords, NoSession, SessionPCs, Entered, Handled, Statuses
<1> HIDE DEF kept, ended
<1>6. CASE ses' = [ses EXCEPT ![s] = kept]
  BY <1>4, <1>6, RecordMoves
<1>7. CASE ses' = [ses EXCEPT ![s] = ended]
  BY <1>5, <1>7, RecordMoves
<1> QED BY <1>2, <1>6, <1>7

\* The results of the reads have statuses, all of which close the connection.
LEMMA RefusalStatus ==
    \A result : StatusOf(result) \in Statuses /\ ClosesConnection(StatusOf(result))
  BY SMT DEF StatusOf, Statuses, ClosesConnection

\* Every step of ClientSession::run keeps counters and registry.
LEMMA RunSessions ==
    ASSUME SessionInv, NEW s \in Sessions,
           ReadHeader(s) \/ ReadFails(s) \/ SessionStep(s)
    PROVE  SessionInv'
<1> USE DEF SessionPCs, Entered, Handled, Registered
<1>1. CASE EnterHandler(s)
  <2>1. CASE routes = "running"
    <3>1. Moves(s, "counted") /\ ses[s].pc = "enter"
      BY <1>1, <2>1, GotoMoves DEF EnterHandler, SessionInv
    <3>2. Balanced(s, "counted")
      BY <1>1, <2>1, <3>1, CountersTyped, SMT DEF EnterHandler, stopVars, Balanced, In,
         SessionInv
    <3> QED BY <3>2, BalancedStep
  <2>2. CASE routes # "running"
    <3>1. Moves(s, "refused") /\ ses[s].pc = "enter"
      BY <1>1, <2>2, GotoMoves DEF EnterHandler, SessionInv
    <3> QED BY <1>1, <2>2, <3>1, QuietMove DEF EnterHandler, stopVars, In
  <2> QED BY <2>1, <2>2
<1>2. CASE EnterHandlerRecheck(s)
  <2>1. CASE routes = "running"
    <3>1. Moves(s, "register") /\ ses[s].pc = "counted"
      BY <1>2, <2>1, GotoMoves DEF EnterHandlerRecheck, SessionInv
    <3> QED BY <1>2, <2>1, <3>1, QuietMove DEF EnterHandlerRecheck, stopVars, In
  <2>2. CASE routes # "running"
    <3>1. Moves(s, "refused") /\ ses[s].pc = "counted"
      BY <1>2, <2>2, GotoMoves DEF EnterHandlerRecheck, SessionInv
    <3>2. Balanced(s, "refused")
      BY <1>2, <2>2, <3>1, CountersTyped, SMT DEF EnterHandlerRecheck, stopVars, Balanced,
         In, SessionInv
    <3> QED BY <3>2, BalancedStep
  <2> QED BY <2>1, <2>2
<1>3. CASE RegisterSession(s)
  <2> DEFINE pc == IF ses[s].pc = "register" THEN "loop" ELSE "end-refused"
  <2>1. Moves(s, pc) /\ ses[s].pc \in {"register", "refused"}
    BY <1>3, GotoMoves DEF RegisterSession, SessionInv
  <2>2. Balanced(s, pc)
    BY <1>3, <2>1, CountersTyped, SMT DEF RegisterSession, stopVars, Balanced, In, SessionInv
  <2> QED BY <2>2, BalancedStep
<1>4. CASE NextRequest(s)
  <2>1. (Moves(s, "read") \/ Moves(s, "end")) /\ ses[s].pc = "loop"
    BY <1>4, GotoMoves DEF NextRequest, SessionInv
  <2> QED BY <1>4, <2>1, QuietMove DEF NextRequest, SessionOnly, stopVars, In
<1>5. CASE ReadFails(s)
  <2>1. Moves(s, "end") /\ ses[s].pc = "read"
    BY <1>5, GotoMoves DEF ReadFails, SessionInv
  <2> QED BY <1>5, <2>1, QuietMove DEF ReadFails, SessionOnly, stopVars, In
<1>6. CASE ReadHeader(s)
  <2>1. /\ Moves(s, "write") \/ Moves(s, "body") \/ Moves(s, "handle")
        /\ ses[s].pc = "read"
    <3>1. 400 \in Statuses
      BY DEF Statuses
    <3>2. Refuse(s, 400) \/ Goto(s, "body") \/ Goto(s, "handle")
      BY <1>6 DEF ReadHeader, Framing
    <3> QED BY <1>6, <3>1, <3>2, GotoMoves, AnswerMoves DEF ReadHeader, SessionInv
  <2> QED BY <1>6, <2>1, QuietMove DEF ReadHeader, SessionOnly, stopVars, In
<1>7. CASE ReadContentLengthBody(s) \/ ReadChunkedBody(s)
  <2>1. (Moves(s, "write") \/ Moves(s, "handle")) /\ ses[s].pc = "body"
    BY <1>7, GotoMoves, AnswerMoves, RefusalStatus DEF ReadContentLengthBody,
       ReadChunkedBody, SessionInv
  <2> QED BY <1>7, <2>1, QuietMove DEF ReadContentLengthBody, ReadChunkedBody,
         SessionOnly, stopVars, In
<1>8. CASE HandleLocal(s)
  <2>1. (Moves(s, "write") \/ Moves(s, "end")) /\ ses[s].pc = "handle"
    BY <1>8, GotoMoves, AnswerMoves DEF HandleLocal, SessionInv
  <2> QED BY <1>8, <2>1, QuietMove DEF HandleLocal, SessionOnly, stopVars, In
<1>9. CASE HandleCombo(s)
  <2>1. Moves(s, "combo") /\ ses[s].pc = "handle"
    BY <1>9, GotoMoves DEF HandleCombo, SessionInv
  <2> QED BY <1>9, <2>1, QuietMove DEF HandleCombo, stopVars, In
<1>10. CASE ComboAnswered(s)
  <2>1. Moves(s, "write") /\ ses[s].pc = "combo"
    BY <1>10, AnswerMoves DEF ComboAnswered, SessionInv
  <2> QED BY <1>10, <2>1, QuietMove DEF ComboAnswered, stopVars, In
<1>11. CASE WriteResponse(s)
  <2>1. (Moves(s, "loop") \/ Moves(s, "end")) /\ ses[s].pc = "write"
    BY <1>11, WriteMoves DEF WriteResponse, SessionInv
  <2> QED BY <1>11, <2>1, QuietMove DEF WriteResponse, SessionOnly, stopVars, In
<1>12. CASE EndSession(s)
  <2>1. Moves(s, "none") /\ ses[s].pc \in {"end", "end-refused"}
    <3>1. /\ NoSession \in SessionRecords
          /\ NoSession.pc = "none"
      BY DEF NoSession, SessionRecords, Statuses
    <3> QED BY <1>12, <3>1, RecordMoves DEF EndSession, SessionInv
  <2>2. active' = active - 1 /\ active' <= maxClients
    BY <1>12, <2>1, CountersTyped, SMT DEF EndSession, ReleaseSession, LeaveSession, SessionInv
  <2>3. Balanced(s, "none")
    BY <1>12, <2>1, <2>2, CountersTyped, SMT DEF EndSession, ReleaseHandler, stopVars,
       Balanced, In, SessionInv
  <2> QED BY <2>3, BalancedStep
<1> QED BY <1>1, <1>2, <1>3, <1>4, <1>5, <1>6, <1>7, <1>8, <1>9, <1>10, <1>11,
           <1>12 DEF SessionStep

\* The closes and stop_sessions touch registered sessions only.
LEMMA CloseSessions ==
    ASSUME SessionInv, StopServer \/ \E s \in Sessions : CloseSocket(s)
    PROVE  SessionInv'
<1>1. UNCHANGED <<ses, active, handlers, maxClients, registry>>
  BY DEF StopServer, CloseSocket, stopVars
<1>2. closing' \cup closed' \subseteq registry
  BY DEF StopServer, CloseSocket, SessionInv
<1> QED BY <1>1, <1>2, RestSessions

\* Queries and the rest of the stop touch neither sessions nor counters.
LEMMA OtherSessions ==
    ASSUME SessionInv,
           \/ \E q \in Queries : QueryRuns(q) \/ QueryEnds(q) \/ QueryLate(q)
           \/ RequestStop \/ HandlerThrows
           \/ BeginDraining \/ DispatchStop \/ Drained \/ DrainTimeout
           \/ StopIo \/ JoinIo \/ Cleanup
           \/ UNCHANGED vars
    PROVE  SessionInv'
<1>1. UNCHANGED <<ses, active, handlers, maxClients, registry, closing, closed>>
  BY DEF QueryRuns, QueryEnds, QueryLate, ComboRest, RequestStop, HandlerThrows,
     BeginDraining, DispatchStop, Drained, DrainTimeout, StopIo, JoinIo, Cleanup,
     StopOnly, stopVars, vars
<1> QED BY <1>1, RestSessions DEF SessionInv

LEMMA StepSessions == SessionInv /\ [Next]_vars => SessionInv'
  BY AcceptSessions, RunSessions, CloseSessions, OtherSessions DEF Next, Stopping

-----------------------------------------------------------------------------
(* The bytes left on a connection *)

\* A connection with unread bytes on it is only ever written to once more,
\* with an answer that closes it.
CleanInv ==
    \A s \in Sessions :
        ~ses[s].clean => ses[s].pc = "write" /\ ClosesConnection(ses[s].status)

LEMMA InitClean == Init => CleanInv
  BY SMT DEF Init, CleanInv, NoSession

\* Goto and a route's answer leave the connection as it is; both leave from
\* positions where it is clean.
LEMMA KeepClean ==
    ASSUME SessionType, CleanInv, NEW s \in Sessions, ses[s].pc # "write",
           \/ \E pc : Goto(s, pc)
           \/ ses' = [ses EXCEPT ![s].pc = "write", ![s].status = 200]
    PROVE  CleanInv'
<1>1. ses[s].clean
  BY DEF CleanInv
<1>2. ses'[s].clean = ses[s].clean
  BY SMT DEF SessionType, Goto
<1>3. \A t \in Sessions \ {s} : ses'[t] = ses[t]
  BY DEF SessionType, Goto
<1> QED BY <1>1, <1>2, <1>3, Zenon DEF CleanInv

\* A refusal leaves bytes unread and is the last answer.
LEMMA RefuseClean ==
    ASSUME SessionType, CleanInv, NEW s \in Sessions, NEW status, Refuse(s, status),
           ClosesConnection(status)
    PROVE  CleanInv'
<1>1. /\ ses'[s].pc = "write" /\ ses'[s].status = status
      /\ \A t \in Sessions \ {s} : ses'[t] = ses[t]
  BY DEF SessionType, Refuse
<1> QED BY <1>1, Zenon DEF CleanInv

\* After the write the connection is read again only if it is clean.
LEMMA WriteClean ==
    ASSUME SessionType, CleanInv, NEW s \in Sessions, WriteResponse(s)
    PROVE  CleanInv'
<1>1. PICK sent, keepAlive \in BOOLEAN :
        ses' = [ses EXCEPT ![s] =
            IF /\ sent
               /\ ~ClosesConnection(ses[s].status)
               /\ keepAlive
               /\ routes = "running"
            THEN [pc |-> "loop", clean |-> ses[s].clean, status |-> 0]
            ELSE [NoSession EXCEPT !.pc = "end"]]
  BY DEF WriteResponse
<1>2. \A t \in Sessions \ {s} : ses'[t] = ses[t]
  BY <1>1 DEF SessionType
<1>3. CASE ClosesConnection(ses[s].status)
  <2>1. ses'[s].clean = TRUE
    BY <1>1, <1>3 DEF SessionType, NoSession
  <2> QED BY <1>2, <2>1, Zenon DEF CleanInv
<1>4. CASE ~ClosesConnection(ses[s].status)
  <2>1. ses[s].clean
    BY <1>4 DEF CleanInv
  <2>2. ses'[s].clean = ses[s].clean \/ ses'[s].clean = TRUE
    BY <1>1 DEF SessionType, NoSession
  <2> QED BY <1>2, <2>1, <2>2, Zenon DEF CleanInv
<1> QED BY <1>3, <1>4

\* Every step keeps it.
LEMMA StepClean == SessionType /\ CleanInv /\ [Next]_vars => CleanInv'
<1> SUFFICES ASSUME SessionType, CleanInv, [Next]_vars PROVE CleanInv'
  OBVIOUS
<1>1. ASSUME UNCHANGED ses PROVE CleanInv'
  BY <1>1 DEF CleanInv
<1>2. ASSUME NEW s \in Sessions, Accept(s) \/ Admit(s) \/ Recheck(s) PROVE CleanInv'
  BY <1>2, KeepClean DEF Accept, Admit, Recheck
<1>3. ASSUME NEW s \in Sessions, ReadHeader(s) PROVE CleanInv'
  <2>1. ClosesConnection(400)
    BY DEF ClosesConnection
  <2> QED BY <1>3, <2>1, KeepClean, RefuseClean DEF ReadHeader, Framing
<1>4. ASSUME NEW s \in Sessions, ReadContentLengthBody(s) \/ ReadChunkedBody(s)
      PROVE  CleanInv'
  <2>1. ses[s].pc = "body" /\ (Goto(s, "handle") \/ \E x : Refuse(s, StatusOf(x)))
    BY <1>4 DEF ReadContentLengthBody, ReadChunkedBody
  <2> QED BY <2>1, KeepClean, RefuseClean, RefusalStatus
<1>5. ASSUME NEW s \in Sessions,
             \/ EnterHandler(s) \/ EnterHandlerRecheck(s) \/ RegisterSession(s)
             \/ NextRequest(s) \/ ReadFails(s) \/ HandleLocal(s) \/ HandleCombo(s)
             \/ ComboAnswered(s)
      PROVE  CleanInv'
  BY <1>5, KeepClean DEF EnterHandler, EnterHandlerRecheck, RegisterSession,
     NextRequest, ReadFails, HandleLocal, HandleCombo, ComboAnswered
<1>6. ASSUME NEW s \in Sessions, EndSession(s) PROVE CleanInv'
  <2>1. /\ ses'[s].clean = TRUE
        /\ \A t \in Sessions \ {s} : ses'[t] = ses[t]
    BY <1>6 DEF EndSession, NoSession, SessionType
  <2> QED BY <2>1, Zenon DEF CleanInv
<1>7. CASE UNCHANGED vars
  BY <1>1, <1>7 DEF vars
<1>8. ASSUME StopServer \/ \E s \in Sessions : CloseSocket(s) PROVE CleanInv'
  BY <1>1, <1>8 DEF StopServer, CloseSocket
<1>9. ASSUME \/ \E q \in Queries : QueryRuns(q) \/ QueryEnds(q) \/ QueryLate(q)
             \/ RequestStop \/ HandlerThrows
             \/ BeginDraining \/ DispatchStop \/ Drained \/ DrainTimeout
             \/ StopIo \/ JoinIo \/ Cleanup
      PROVE  CleanInv'
  BY <1>1, <1>9 DEF QueryRuns, QueryEnds, QueryLate, ComboRest, RequestStop,
     HandlerThrows, BeginDraining, DispatchStop, Drained, DrainTimeout, StopIo,
     JoinIo, Cleanup, StopOnly
<1> QED BY <1>2, <1>3, <1>4, <1>5, <1>6, <1>7, <1>8, <1>9, WriteClean
        DEF Next, SessionStep, Stopping

-----------------------------------------------------------------------------
(* The queries and their permits *)

QueryRecords == [pc : {"free", "queued", "running"},
                 owner : Sessions \cup {Nobody},
                 winner : {"none", "pending", "timeout"}]

Busy(f) == {q \in Queries : f[q].pc # "free"}

PermitInv ==
    /\ query \in [Queries -> QueryRecords]
    /\ inFlight = Cardinality(Busy(query))
    /\ inFlight <= MaxInFlight

LEMMA InitPermits == Init => PermitInv
<1> SUFFICES ASSUME Init PROVE PermitInv
  OBVIOUS
<1>1. query \in [Queries -> QueryRecords] /\ Busy(query) = {} /\ inFlight = 0
  BY DEF Init, ComboInit, FreeSlot, QueryRecords, Busy
<1> QED BY <1>1, FS_EmptySet, ComboAssumption, SMT DEF PermitInv

\* One slot changes: the permits in use change by what the slot takes or gives
\* back.
LEMMA SlotStep ==
    ASSUME PermitInv, NEW q \in Queries, NEW r \in QueryRecords,
           query' = [query EXCEPT ![q] = r],
           inFlight' = inFlight + In(r.pc, {"queued", "running"})
                                - In(query[q].pc, {"queued", "running"}),
           inFlight' <= MaxInFlight
    PROVE  PermitInv'
<1>1. query' \in [Queries -> QueryRecords]
  BY DEF PermitInv
<1>2. /\ Busy(query) \ {q} = Busy(query') \ {q}
      /\ In(q, Busy(query')) = In(r.pc, {"queued", "running"})
      /\ In(q, Busy(query)) = In(query[q].pc, {"queued", "running"})
  BY DEF PermitInv, Busy, In, QueryRecords
<1>3. IsFiniteSet(Busy(query))
  BY ComboAssumption, FS_Subset DEF Busy
<1>4. Cardinality(Busy(query')) = Cardinality(Busy(query)) + In(q, Busy(query'))
                                    - In(q, Busy(query))
  BY <1>2, <1>3, OneElement
<1>5. inFlight' = Cardinality(Busy(query'))
  BY <1>2, <1>4 DEF PermitInv
<1> QED BY <1>1, <1>5 DEF PermitInv

\* While a permit is left there is a slot for the query.
LEMMA SlotLeft ==
    ASSUME PermitInv, MayStart
    PROVE  \E q \in Queries : query[q].pc = "free"
<1> SUFFICES ASSUME \A q \in Queries : query[q].pc # "free" PROVE FALSE
  OBVIOUS
<1>1. Busy(query) = Queries
  BY DEF Busy
<1>2. Cardinality(Queries) \in Nat
  BY ComboAssumption, FS_CardinalityType
<1> QED BY <1>1, <1>2, ComboAssumption, SMT DEF PermitInv, MayStart

LEMMA InFlightTyped == PermitInv => inFlight \in Nat
  BY ComboAssumption, FS_Subset, FS_CardinalityType DEF PermitInv, Busy

LEMMA StartPermits ==
    ASSUME PermitInv, NEW s \in Sessions, StartQuery(s)
    PROVE  PermitInv'
<1> DEFINE q == CHOOSE x \in Queries : query[x].pc = "free"
           r == [pc |-> "queued", owner |-> s, winner |-> "pending"]
<1>1. q \in Queries /\ query[q].pc = "free"
  BY SlotLeft DEF StartQuery
<1>2. r \in QueryRecords /\ r.pc = "queued"
  BY DEF QueryRecords
<1>3. query' = [query EXCEPT ![q] = r] /\ inFlight' = inFlight + 1 /\ MayStart
  BY DEF StartQuery
<1> HIDE DEF q, r
<1>4. In(r.pc, {"queued", "running"}) = 1 /\ In(query[q].pc, {"queued", "running"}) = 0
  BY <1>1, <1>2 DEF In
<1>5. inFlight' = inFlight + 1 - 0 /\ inFlight' <= MaxInFlight
  BY <1>3, InFlightTyped, ComboAssumption, SMT DEF MayStart
<1> QED BY <1>1, <1>2, <1>3, <1>4, <1>5, SlotStep

LEMMA RunPermits ==
    ASSUME PermitInv, NEW q \in Queries, RunQuery(q) \/ Deadline(q)
    PROVE  PermitInv'
<1> DEFINE r == IF RunQuery(q) THEN [query[q] EXCEPT !.pc = "running"]
                               ELSE [query[q] EXCEPT !.winner = "timeout"]
<1>1. r \in QueryRecords /\ r.pc \in {"queued", "running"} /\ query[q].pc = "queued"
  BY DEF PermitInv, QueryRecords, RunQuery, Deadline
<1>2. query' = [query EXCEPT ![q] = r] /\ inFlight' = inFlight
  BY DEF PermitInv, RunQuery, Deadline
<1> HIDE DEF r
<1>3. In(r.pc, {"queued", "running"}) = 1 /\ In(query[q].pc, {"queued", "running"}) = 1
  BY <1>1 DEF In
<1>4. inFlight' = inFlight + 1 - 1 /\ inFlight' <= MaxInFlight
  BY <1>2, InFlightTyped, ComboAssumption, SMT DEF PermitInv
<1> QED BY <1>1, <1>2, <1>3, <1>4, SlotStep

LEMMA EndPermits ==
    ASSUME PermitInv, NEW q \in Queries, EndQuery(q)
    PROVE  PermitInv'
<1>1. FreeSlot \in QueryRecords /\ FreeSlot.pc = "free"
  BY DEF QueryRecords, FreeSlot
<1>2. query' = [query EXCEPT ![q] = FreeSlot] /\ inFlight' = inFlight - 1
      /\ query[q].pc = "running"
  BY DEF EndQuery, ClaimQuery
<1>3. /\ In(FreeSlot.pc, {"queued", "running"}) = 0
      /\ In(query[q].pc, {"queued", "running"}) = 1
  BY <1>1, <1>2 DEF In
<1>4. inFlight' = inFlight + 0 - 1 /\ inFlight' <= MaxInFlight
  BY <1>2, InFlightTyped, ComboAssumption, SMT DEF PermitInv
<1> QED BY <1>1, <1>2, <1>3, <1>4, SlotStep

LEMMA StepPermits == PermitInv /\ [Next]_vars => PermitInv'
<1> SUFFICES ASSUME PermitInv, [Next]_vars PROVE PermitInv'
  OBVIOUS
<1>1. ASSUME UNCHANGED <<inFlight, query>> PROVE PermitInv'
  BY <1>1 DEF PermitInv, Busy
<1>2. ASSUME NEW q \in Queries, QueryRuns(q) \/ QueryLate(q) \/ QueryEnds(q)
      PROVE  PermitInv'
  BY <1>2, RunPermits, EndPermits DEF QueryRuns, QueryLate, QueryEnds
<1>3. ASSUME NEW s \in Sessions, HandleCombo(s) PROVE PermitInv'
  BY <1>1, <1>3, StartPermits DEF HandleCombo, ComboStep, CacheHit, TryAcquireRejects
<1>4. ASSUME NEW s \in Sessions, ComboAnswered(s) PROVE PermitInv'
  BY <1>1, <1>4 DEF ComboAnswered
<1>5. ASSUME NEW s \in Sessions,
             \/ Accept(s) \/ Admit(s) \/ Recheck(s) \/ ReadHeader(s) \/ ReadFails(s)
             \/ EnterHandler(s) \/ EnterHandlerRecheck(s) \/ RegisterSession(s)
             \/ NextRequest(s) \/ ReadContentLengthBody(s) \/ ReadChunkedBody(s)
             \/ HandleLocal(s) \/ WriteResponse(s) \/ EndSession(s) \/ CloseSocket(s)
      PROVE  PermitInv'
  <2>1. UNCHANGED comboVars
    BY <1>5 DEF Accept, Admit, Recheck, ReadHeader, ReadFails, EnterHandler,
       EnterHandlerRecheck, RegisterSession, NextRequest, ReadContentLengthBody,
       ReadChunkedBody, HandleLocal, WriteResponse, EndSession, CloseSocket, SessionOnly
  <2> QED BY <1>1, <2>1 DEF comboVars
<1>6. ASSUME \/ RequestStop \/ HandlerThrows \/ Stopping \/ UNCHANGED vars
      PROVE  PermitInv'
  <2>1. UNCHANGED comboVars
    BY <1>6 DEF RequestStop, HandlerThrows, Stopping, BeginDraining, DispatchStop,
       StopServer, Drained, DrainTimeout, StopIo, JoinIo, Cleanup, StopOnly, vars
  <2> QED BY <1>1, <2>1 DEF comboVars
<1> QED BY <1>2, <1>3, <1>4, <1>5, <1>6 DEF Next, SessionStep

-----------------------------------------------------------------------------
(* The order of the stop *)

StopRecords == [request : {"none", "coord", "dispatch", "done"},
                server : {"up", "posted", "cleared", "down"},
                drain : {"off", "polling", "drained", "timeout"},
                io : {"run", "stopped"}]

\* The drain begins when new sessions are turned away; stop_sessions runs when
\* running is cleared; the pools shut down when the io threads have returned.
StopInv ==
    /\ stop \in StopRecords
    /\ routes \in Phases /\ coord \in Phases /\ running \in BOOLEAN
    /\ stop.request \in {"dispatch", "done"} => coord # "running"
    /\ stop.drain # "off" => stop.request = "done"
    /\ stop.server \in {"cleared", "down"} => running = FALSE
    /\ app # "run" => stop.io = "stopped" /\ Running = {}

LEMMA InitStop == Init => StopInv
  BY SMT DEF Init, StopInv, StopRecords, Phases

\* Once the io_context is stopped no query begins.
LEMMA StopQueries ==
    ASSUME StopInv, NEW q \in Queries, QueryRuns(q) \/ QueryEnds(q) \/ QueryLate(q)
    PROVE  StopInv'
<1>1. UNCHANGED stopVars
  BY DEF QueryRuns, QueryEnds, QueryLate, ComboRest
<1>2. CASE stop.io = "run"
  BY <1>1, <1>2 DEF StopInv, stopVars
<1>3. CASE stop.io # "run"
  <2>1. EndQuery(q)
    BY <1>3 DEF QueryRuns, QueryEnds, QueryLate
  <2>2. Running = {} => FALSE
    BY <2>1 DEF EndQuery, Running
  <2> QED BY <1>1, <2>2 DEF StopInv, stopVars
<1> QED BY <1>2, <1>3

\* Sessions touch none of it, except by the queries they start.
LEMMA StopSessions ==
    ASSUME StopInv, UNCHANGED stopVars, UNCHANGED query \/ stop.io = "run"
    PROVE  StopInv'
  BY DEF StopInv, stopVars, Running

LEMMA StepStop == StopInv /\ [Next]_vars => StopInv'
<1> SUFFICES ASSUME StopInv, [Next]_vars PROVE StopInv'
  OBVIOUS
<1>1. ASSUME NEW s \in Sessions,
             \/ Accept(s) \/ Admit(s) \/ Recheck(s) \/ ReadHeader(s) \/ ReadFails(s)
             \/ SessionStep(s) \/ CloseSocket(s)
      PROVE  StopInv'
  <2>1. UNCHANGED stopVars
    BY <1>1 DEF Accept, Admit, Recheck, ReadHeader, ReadFails, SessionStep, EnterHandler,
       EnterHandlerRecheck, RegisterSession, NextRequest, ReadContentLengthBody,
       ReadChunkedBody, HandleLocal, HandleCombo, ComboAnswered, WriteResponse,
       EndSession, CloseSocket, SessionOnly
  <2>2. stop.io = "run"
    BY <1>1 DEF Accept, Admit, Recheck, ReadHeader, ReadFails, SessionStep, EnterHandler,
       EnterHandlerRecheck, RegisterSession, NextRequest, ReadContentLengthBody,
       ReadChunkedBody, HandleLocal, HandleCombo, ComboAnswered, WriteResponse,
       EndSession, CloseSocket, On, Io
  <2> QED BY <2>1, <2>2, StopSessions
<1> USE DEF StopInv, StopRecords, Phases, Running
<1>2. CASE RequestStop
  BY <1>2 DEF RequestStop, StopOnly, comboVars, Io
<1>3. CASE BeginDraining
  BY <1>3 DEF BeginDraining, StopOnly, comboVars
<1>4. CASE DispatchStop
  BY <1>4 DEF DispatchStop, StopOnly, comboVars
<1>5. CASE StopServer
  BY <1>5 DEF StopServer, comboVars
<1>6. CASE Drained \/ DrainTimeout
  BY <1>6 DEF Drained, DrainTimeout, StopOnly, comboVars
<1>7. CASE StopIo
  BY <1>7 DEF StopIo, MarkStopped, StopOnly, comboVars
<1>8. CASE HandlerThrows
  BY <1>8 DEF HandlerThrows, StopOnly, comboVars, Io
<1>9. CASE JoinIo
  BY <1>9 DEF JoinIo, StopOnly, comboVars
<1>10. CASE Cleanup
  BY <1>10 DEF Cleanup, MarkStopped, StopOnly, comboVars
<1>11. CASE UNCHANGED vars
  BY <1>11 DEF vars, stopVars, comboVars
<1> QED BY <1>1, <1>2, <1>3, <1>4, <1>5, <1>6, <1>7, <1>8, <1>9, <1>10, <1>11,
           StopQueries DEF Next, Stopping

-----------------------------------------------------------------------------
(* Sessions and the stop together *)

\* After the drain has seen no session only the acceptor's two looks at the
\* phase are left; after stop_sessions every reader is closed or about to be.
DrainInv == stop.drain = "drained" =>
    \A s \in Sessions : ses[s].pc \in {"none", "admit", "recheck"}

ReaderInv == stop.server = "down" =>
    \A s \in Sessions : ses[s].pc = "read" => s \in closing \cup closed

\* The step moves no session but s: one that is not entered gets as far as the
\* second look at the phase, and from there nowhere once the server drains; a
\* session begins to read only while running is set; and no close is
\* forgotten, but those of s when it ends.
Flows(s) ==
    /\ UNCHANGED stop
    /\ \A t \in Sessions \ {s} : ses'[t].pc = ses[t].pc
    /\ ses[s].pc \in {"none", "admit"} => ses'[s].pc \in {"none", "admit", "recheck"}
    /\ ses[s].pc = "recheck" /\ coord # "running" => ses'[s].pc = "none"
    /\ ses'[s].pc = "read" => running
    /\ (closing \cup closed) \ {s} \subseteq closing' \cup closed'

LEMMA AcceptFlows ==
    ASSUME SessionType, NEW s \in Sessions, Accept(s) \/ Admit(s) \/ Recheck(s)
    PROVE  Flows(s)
<1> USE DEF SessionType, Goto, Flows, stopVars, SessionPCs, Entered, Handled
<1>1. CASE Accept(s)
  BY <1>1 DEF Accept, SessionOnly
<1>2. CASE Admit(s)
  BY <1>2 DEF Admit
<1>3. CASE Recheck(s)
  BY <1>3 DEF Recheck
<1> QED BY <1>1, <1>2, <1>3

\* A move of a session that runs to a position other than the read.
LEMMA MoveFlows ==
    ASSUME SessionType, NEW s \in Sessions, NEW pc, Moves(s, pc), UNCHANGED stop,
           ses[s].pc \notin {"none", "admit", "recheck"}, pc # "read",
           (closing \cup closed) \ {s} \subseteq closing' \cup closed'
    PROVE  Flows(s)
  BY DEF Moves, Flows

LEMMA RunFlows ==
    ASSUME SessionType, NEW s \in Sessions,
           ReadHeader(s) \/ ReadFails(s) \/ SessionStep(s)
    PROVE  Flows(s)
<1> USE DEF SessionPCs, Entered, Handled, stopVars
<1>1. CASE EnterHandler(s)
  <2>1. Moves(s, "counted") \/ Moves(s, "refused")
    BY <1>1, GotoMoves DEF EnterHandler
  <2> QED BY <1>1, <2>1, MoveFlows DEF EnterHandler
<1>2. CASE EnterHandlerRecheck(s)
  <2>1. Moves(s, "register") \/ Moves(s, "refused")
    BY <1>2, GotoMoves DEF EnterHandlerRecheck
  <2> QED BY <1>2, <2>1, MoveFlows DEF EnterHandlerRecheck
<1>3. CASE RegisterSession(s)
  <2>1. Moves(s, "loop") \/ Moves(s, "end-refused")
    BY <1>3, GotoMoves DEF RegisterSession
  <2> QED BY <1>3, <2>1, MoveFlows DEF RegisterSession
<1>4. CASE NextRequest(s)
  BY <1>4 DEF NextRequest, SessionOnly, Goto, Flows, SessionType
<1>5. CASE ReadFails(s)
  <2>1. Moves(s, "end")
    BY <1>5, GotoMoves DEF ReadFails
  <2> QED BY <1>5, <2>1, MoveFlows DEF ReadFails, SessionOnly
<1>6. CASE ReadHeader(s)
  <2>1. Moves(s, "write") \/ Moves(s, "body") \/ Moves(s, "handle")
    <3>1. 400 \in Statuses
      BY DEF Statuses
    <3>2. Refuse(s, 400) \/ Goto(s, "body") \/ Goto(s, "handle")
      BY <1>6 DEF ReadHeader, Framing
    <3> QED BY <3>1, <3>2, GotoMoves, AnswerMoves
  <2> QED BY <1>6, <2>1, MoveFlows DEF ReadHeader, SessionOnly
<1>7. CASE ReadContentLengthBody(s) \/ ReadChunkedBody(s)
  <2>1. Moves(s, "write") \/ Moves(s, "handle")
    BY <1>7, GotoMoves, AnswerMoves, RefusalStatus DEF ReadContentLengthBody,
       ReadChunkedBody
  <2> QED BY <1>7, <2>1, MoveFlows DEF ReadContentLengthBody, ReadChunkedBody,
         SessionOnly
<1>8. CASE HandleLocal(s)
  <2>1. Moves(s, "write") \/ Moves(s, "end")
    BY <1>8, GotoMoves, AnswerMoves DEF HandleLocal
  <2> QED BY <1>8, <2>1, MoveFlows DEF HandleLocal, SessionOnly
<1>9. CASE HandleCombo(s)
  <2>1. Moves(s, "combo")
    BY <1>9, GotoMoves DEF HandleCombo
  <2> QED BY <1>9, <2>1, MoveFlows DEF HandleCombo
<1>10. CASE ComboAnswered(s)
  <2>1. Moves(s, "write")
    BY <1>10, AnswerMoves DEF ComboAnswered
  <2> QED BY <1>10, <2>1, MoveFlows DEF ComboAnswered
<1>11. CASE WriteResponse(s)
  <2>1. Moves(s, "loop") \/ Moves(s, "end")
    BY <1>11, WriteMoves
  <2> QED BY <1>11, <2>1, MoveFlows DEF WriteResponse, SessionOnly
<1>12. CASE EndSession(s)
  <2>1. NoSession \in SessionRecords /\ NoSession.pc = "none"
    BY DEF NoSession, SessionRecords, Statuses
  <2>2. Moves(s, "none")
    BY <1>12, <2>1, RecordMoves DEF EndSession
  <2> QED BY <1>12, <2>2, MoveFlows DEF EndSession
<1> QED BY <1>1, <1>2, <1>3, <1>4, <1>5, <1>6, <1>7, <1>8, <1>9, <1>10, <1>11,
           <1>12 DEF SessionStep

\* Every step either moves one session as above, or no session and at most the
\* sets of the closes.
LEMMA FlowInv ==
    ASSUME StopInv, DrainInv, ReaderInv, NEW s \in Sessions, Flows(s)
    PROVE  DrainInv' /\ ReaderInv'
<1>1. DrainInv'
  <2> SUFFICES ASSUME stop.drain = "drained"
               PROVE  \A t \in Sessions : ses'[t].pc \in {"none", "admit", "recheck"}
    BY DEF DrainInv, Flows
  <2>1. coord # "running"
    BY DEF StopInv
  <2> QED BY <2>1 DEF DrainInv, Flows
<1>2. ReaderInv'
  <2> SUFFICES ASSUME stop.server = "down", NEW t \in Sessions, ses'[t].pc = "read"
               PROVE  t \in closing' \cup closed'
    BY DEF ReaderInv, Flows
  <2>1. ~running
    BY DEF StopInv
  <2>2. t # s /\ ses[t].pc = "read"
    BY <2>1 DEF Flows
  <2> QED BY <2>2 DEF ReaderInv, Flows
<1> QED BY <1>1, <1>2

LEMMA InitDrain == Init => DrainInv /\ ReaderInv
  BY SMT DEF Init, DrainInv, ReaderInv

\* The poll that ends the drain finds every session gone.
LEMMA DrainedEmpty ==
    ASSUME SessionInv, active = 0
    PROVE  \A s \in Sessions : ses[s].pc \in {"none", "admit"}
<1>1. \A s \in Sessions : ses[s].pc \notin Entered
  BY CountersTyped, SMT
<1> QED BY <1>1 DEF SessionInv, SessionType, SessionPCs

LEMMA StepDrain ==
    SessionInv /\ StopInv /\ DrainInv /\ ReaderInv /\ [Next]_vars
        => DrainInv' /\ ReaderInv'
<1> SUFFICES ASSUME SessionInv, StopInv, DrainInv, ReaderInv, [Next]_vars
             PROVE  DrainInv' /\ ReaderInv'
  OBVIOUS
<1>1. ASSUME NEW s \in Sessions,
             \/ Accept(s) \/ Admit(s) \/ Recheck(s) \/ ReadHeader(s) \/ ReadFails(s)
             \/ SessionStep(s)
      PROVE  DrainInv' /\ ReaderInv'
  BY <1>1, AcceptFlows, RunFlows, FlowInv DEF SessionInv
<1> USE DEF DrainInv, ReaderInv
<1>2. ASSUME NEW s \in Sessions, CloseSocket(s) PROVE DrainInv' /\ ReaderInv'
  BY <1>2 DEF CloseSocket, stopVars
<1>3. CASE StopServer
  <2>1. DrainInv'
    BY <1>3 DEF StopServer, StopInv, StopRecords
  <2>2. \A s \in Sessions : ses[s].pc = "read" => s \in registry
    BY CountersTyped DEF Registered
  <2>3. ReaderInv'
    BY <1>3, <2>2 DEF StopServer, StopInv, StopRecords
  <2> QED BY <2>1, <2>3
<1>4. CASE Drained
  <2>1. \A s \in Sessions : ses[s].pc \in {"none", "admit"}
    BY <1>4, DrainedEmpty DEF Drained
  <2> QED BY <1>4, <2>1 DEF Drained, StopOnly
<1>5. CASE RequestStop \/ HandlerThrows \/ BeginDraining \/ DispatchStop
  BY <1>5 DEF RequestStop, HandlerThrows, BeginDraining, DispatchStop, StopOnly,
     StopInv, StopRecords
<1>6. CASE DrainTimeout \/ StopIo \/ JoinIo \/ Cleanup
  BY <1>6 DEF DrainTimeout, StopIo, JoinIo, Cleanup, StopOnly, StopInv, StopRecords
<1>7. CASE \E q \in Queries : QueryRuns(q) \/ QueryEnds(q) \/ QueryLate(q)
  BY <1>7 DEF QueryRuns, QueryEnds, QueryLate, ComboRest, stopVars
<1>8. CASE UNCHANGED vars
  BY <1>8 DEF vars, stopVars
<1> QED BY <1>1, <1>2, <1>3, <1>4, <1>5, <1>6, <1>7, <1>8 DEF Next, Stopping

-----------------------------------------------------------------------------
(* The theorems *)

ServerInv ==
    /\ SessionInv /\ CleanInv /\ PermitInv /\ StopInv /\ DrainInv /\ ReaderInv

\* All parts of the invariant hold in every reachable state of the server.
THEOREM ServerInvariant == Spec => []ServerInv
<1>1. Init => ServerInv
  BY InitSessions, InitClean, InitPermits, InitStop, InitDrain DEF ServerInv
<1>2. ServerInv /\ [Next]_vars => ServerInv'
  BY StepSessions, StepClean, StepPermits, StepStop, StepDrain DEF ServerInv, SessionInv
<1> QED BY <1>1, <1>2, PTL DEF Spec

\* Sessions, handlers and permits are counted within their limits, and closes
\* are posted to registered sessions only (try_enter_session, enter_handler,
\* try_acquire, stop_sessions).
THEOREM TypeCorrect == Spec => []TypeOK
<1>1. ServerInv => TypeOK
  <2> SUFFICES ASSUME ServerInv PROVE TypeOK
    OBVIOUS
  <2>1. IsFiniteSet(At(ses, Entered)) /\ At(ses, Handled) \subseteq At(ses, Entered)
        /\ At(ses, Entered) \subseteq Sessions
    BY ComboAssumption, FS_Subset DEF At, Entered
  <2>2. /\ Cardinality(At(ses, Handled)) <= Cardinality(At(ses, Entered))
        /\ Cardinality(At(ses, Entered)) <= Cardinality(Sessions)
        /\ Cardinality(Sessions) \in Nat
    BY <2>1, ComboAssumption, FS_Subset, FS_CardinalityType
  <2>3. active \in 0 .. Cardinality(Sessions) /\ handlers \in 0 .. active
    BY <2>2, CountersTyped, SMT DEF ServerInv, SessionInv
  <2>4. inFlight \in 0 .. MaxInFlight
    BY InFlightTyped, ComboAssumption, SMT DEF ServerInv, PermitInv
  <2> QED BY <2>3, <2>4 DEF TypeOK, ServerInv, SessionInv, StopInv
<1> QED BY <1>1, ServerInvariant, PTL

\* active_sessions_ is the number of leases held, and after a drain that saw
\* none no connection gets past the second look at the phase
\* (try_enter_session, leave_session, wait_for_drain).
THEOREM DrainedMeansGoneCorrect == Spec => []DrainedMeansGone
<1>1. ServerInv => DrainedMeansGone
  <2> SUFFICES ASSUME ServerInv PROVE DrainedMeansGone
    OBVIOUS
  <2>1. Leased = At(ses, Entered)
    BY DEF ServerInv, SessionInv, SessionType, Leased, At, SessionPCs, Entered, Handled
  <2>2. stop.drain = "drained" => Leased \subseteq {s \in Sessions : ses[s].pc = "recheck"}
    BY DEF ServerInv, DrainInv, Leased
  <2> QED BY <2>1, <2>2 DEF DrainedMeansGone, ServerInv, SessionInv
<1> QED BY <1>1, ServerInvariant, PTL

\* However a timeout races the completion, the permits in use are those of the
\* unfinished queries (try_acquire, claim_query, claim_timeout).
THEOREM PermitsMatchQueriesCorrect == Spec => []PermitsMatchQueries
<1>1. ServerInv => PermitsMatchQueries
  BY DEF ServerInv, PermitInv, PermitsMatchQueries, Busy
<1> QED BY <1>1, ServerInvariant, PTL

\* No session reads once stop() is through without a close on its way
\* (HttpServer::stop, stop_sessions, the loop's look at running).
THEOREM StopReachesReadersCorrect == Spec => []StopReachesReaders
<1>1. ServerInv => StopReachesReaders
  BY DEF ServerInv, ReaderInv, StopReachesReaders
<1> QED BY <1>1, ServerInvariant, PTL

\* A connection with an unread body is never read again (the early answers of
\* ClientSession::run and the statuses that close).
THEOREM CleanBeforeReuseCorrect == Spec => []CleanBeforeReuse
<1>1. ServerInv => CleanBeforeReuse
  BY Zenon DEF ServerInv, CleanInv, CleanBeforeReuse
<1> QED BY <1>1, ServerInvariant, PTL

\* cleanup() shuts the pools down after the last query on an io thread
\* (Application::run, cleanup).
THEOREM PoolsOutliveQueriesCorrect == Spec => []PoolsOutliveQueries
<1>1. ServerInv => PoolsOutliveQueries
  BY DEF ServerInv, StopInv, PoolsOutliveQueries
<1> QED BY <1>1, ServerInvariant, PTL
=============================================================================
