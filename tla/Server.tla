-------------------------------- MODULE Server --------------------------------
(***************************************************************************)
(* The front server and its shutdown: HttpServer (http_server.hpp), the    *)
(* session registry and loop (client_session.hpp), ShutdownCoordinator,    *)
(* RouteLifecycle, and the stopping of Application (application.cpp).      *)
(*                                                                         *)
(* The acceptor and every session have a strand; a step is the part of a   *)
(* handler between two accesses to what other threads share.  Routing and  *)
(* forwarding are HotReload's and HttpPool's; here a request is read,      *)
(* handled, locally or by /api/combo, and answered.                        *)
(***************************************************************************)
EXTENDS Combo

CONSTANT ClientLimits   \* the settings of max_client_connections, at least 1

ASSUME ServerAssumption == ClientLimits \subseteq Nat \ {0}

VARIABLES
    maxClients,     \* max_client_connections of this process
    routes,         \* phase of RouteLifecycle
    coord,          \* phase of ShutdownCoordinator
    active,         \* active_sessions_
    handlers,       \* active_handlers_
    running,        \* HttpServerState::running
    registry,       \* sessions in HttpServerState::sessions
    closing,        \* closes posted by stop_sessions, not yet run
    closed,         \* sessions whose socket was closed by stop_sessions
    ses,            \* the coroutine of each session
    stop,           \* request_stop, server stop and the drain coroutine
    app             \* the main thread: "run", "joined", "clean"

stopVars == <<maxClients, routes, coord, running, stop, app>>
vars == <<comboVars, stopVars, active, handlers, registry, closing, closed, ses>>

Phases == {"running", "draining", "stopped"}

NoSession == [pc |-> "none", clean |-> TRUE, status |-> 0]

Init ==
    /\ ComboInit
    /\ maxClients \in ClientLimits
    /\ routes = "running" /\ coord = "running"
    /\ active = 0 /\ handlers = 0
    /\ running = TRUE
    /\ registry = {} /\ closing = {} /\ closed = {}
    /\ ses = [s \in Sessions |-> NoSession]
    /\ stop = [request |-> "none", server |-> "up", drain |-> "off",
               io |-> "run"]
    /\ app = "run"

-----------------------------------------------------------------------------
\* leave_session
LeaveSession == active' = IF active = 0 THEN 0 ELSE active - 1

\* a lease is given back once, by whichever of its copies still owns it
ReleaseHandler == handlers' = handlers - 1
ReleaseSession == LeaveSession

MarkStopped == routes' = "stopped" /\ coord' = "stopped"

\* a handler of the io_context may run
Io == stop.io = "run" /\ ThreadFree

\* a handler of the session's strand may run
On(s) == Io /\ StrandFree(s)

Goto(s, pc) == ses' = [ses EXCEPT ![s].pc = pc]

SessionOnly == UNCHANGED <<comboVars, stopVars, active, handlers, registry,
                           closing, closed>>

(* The acceptor: start() and try_enter_session.  Its strand also runs      *)
(* stop(), so nothing of stop() comes between these steps.                 *)

AcceptorBusy == \E s \in Sessions : ses[s].pc \in {"admit", "recheck"}

\* a socket arrives; the first look at the phase
Accept(s) ==
    /\ Io
    /\ running
    /\ ~AcceptorBusy
    /\ ses[s].pc = "none"
    /\ \A q \in Queries : query[q].owner # s  \* the slot's strand is new
    /\ coord = "running"
    /\ Goto(s, "admit")
    /\ SessionOnly

\* a plausible bug: the limit admits one more
FullOffByOne == active > maxClients

Full == active >= maxClients

\* the compare-and-swap on active_sessions_, with the limit
Admit(s) ==
    /\ Io
    /\ ses[s].pc = "admit"
    /\ IF Full
       THEN Goto(s, "none") /\ UNCHANGED active
       ELSE Goto(s, "recheck") /\ active' = active + 1
    /\ UNCHANGED <<comboVars, stopVars, handlers, registry, closing, closed>>

\* a plausible bug: the phase is not looked at again
RecheckNever(s) ==
    /\ Io
    /\ ses[s].pc = "recheck"
    /\ Goto(s, "enter")
    /\ UNCHANGED active
    /\ UNCHANGED <<comboVars, stopVars, handlers, registry, closing, closed>>

Recheck(s) ==
    /\ Io
    /\ ses[s].pc = "recheck"
    /\ IF coord = "running"
       THEN Goto(s, "enter") /\ UNCHANGED active
       ELSE Goto(s, "none") /\ LeaveSession
    /\ UNCHANGED <<comboVars, stopVars, handlers, registry, closing, closed>>

-----------------------------------------------------------------------------
(* ClientSession::run.                                                     *)

\* enter_handler
EnterHandler(s) ==
    /\ On(s)
    /\ ses[s].pc = "enter"
    /\ IF routes = "running"
       THEN Goto(s, "counted") /\ handlers' = handlers + 1
       ELSE Goto(s, "refused") /\ UNCHANGED handlers
    /\ UNCHANGED <<comboVars, stopVars, active, registry, closing, closed>>

EnterHandlerRecheck(s) ==
    /\ On(s)
    /\ ses[s].pc = "counted"
    /\ IF routes = "running"
       THEN Goto(s, "register") /\ UNCHANGED handlers
       ELSE Goto(s, "refused") /\ handlers' = handlers - 1
    /\ UNCHANGED <<comboVars, stopVars, active, registry, closing, closed>>

\* SessionSocketGuard; without a handler lease the session ends here
RegisterSession(s) ==
    /\ On(s)
    /\ ses[s].pc \in {"register", "refused"}
    /\ registry' = registry \cup {s}
    /\ Goto(s, IF ses[s].pc = "register" THEN "loop" ELSE "end-refused")
    /\ UNCHANGED <<comboVars, stopVars, active, handlers, closing, closed>>

\* while (state_->running)
NextRequest(s) ==
    /\ On(s)
    /\ ses[s].pc = "loop"
    /\ Goto(s, IF running THEN "read" ELSE "end")
    /\ SessionOnly

\* the read fails, times out or is cancelled, or the header is refused
ReadFails(s) ==
    /\ On(s)
    /\ ses[s].pc = "read"
    /\ Goto(s, "end")
    /\ SessionOnly

\* the answer to a body that was not read to its end: its rest is on the wire
Refuse(s, status) ==
    ses' = [ses EXCEPT ![s] = [pc |-> "write", clean |-> FALSE, status |-> status]]

\* the framing is refused, or there is a body to read, or none
Framing(s) == Refuse(s, 400) \/ Goto(s, "body") \/ Goto(s, "handle")

\* A header arrives and is well formed; also on a socket that was closed, when
\* the completion of the read was queued before the close.
ReadHeader(s) ==
    /\ On(s)
    /\ ses[s].pc = "read"
    /\ Framing(s)
    /\ SessionOnly

\* a read that fails, or whose deadline passed before it was disarmed: then it
\* is a timeout, also when data did arrive
ReadFailures == {"Timeout", "PeerClosed", "SysError"}

\* a line that does not end within the limit is no chunk
LineFailures == ReadFailures \cup {"InvalidChunk"}

StatusOf(result) ==
    CASE result = "TooLarge" -> 413
      [] result = "Timeout"  -> 408
      [] OTHER               -> 400

\* Which of the two framings a body has is not remembered.
ReadContentLengthBody(s) ==
    /\ On(s)
    /\ ses[s].pc = "body"
    /\ \/ Goto(s, "handle")
       \/ \E result \in ReadFailures \cup {"TooLarge"} :
            Refuse(s, StatusOf(result))
    /\ SessionOnly

\* chunk by chunk, and the trailer; any line or chunk may be the last one read
ReadChunkedBody(s) ==
    /\ On(s)
    /\ ses[s].pc = "body"
    /\ \/ Goto(s, "handle")
       \/ \E result \in LineFailures \cup {"TooLarge"} :
            Refuse(s, StatusOf(result))
    /\ SessionOnly

\* a route that answers at once, an upstream's answer, or 404; a route's 400
\* closes the connection as a client without keep-alive does; after an
\* exception the session writes 500 and ends; 200 stands for every status that
\* leaves the connection open
HandleLocal(s) ==
    /\ On(s)
    /\ ses[s].pc = "handle"
    /\ \/ ses' = [ses EXCEPT ![s].pc = "write", ![s].status = 200]
       \/ Goto(s, "end")
    /\ SessionOnly

\* handle_api_combo, when the cache has answered
HandleCombo(s) ==
    /\ On(s)
    /\ ses[s].pc = "handle"
    /\ Goto(s, "combo")
    /\ ComboStep(s)
    /\ UNCHANGED <<stopVars, active, handlers, registry, closing, closed>>

ComboAnswered(s) ==
    /\ On(s)
    /\ ses[s].pc = "combo"
    /\ waiting[s] = "answered"
    /\ ses' = [ses EXCEPT ![s].pc = "write", ![s].status = 200]
    /\ waiting' = [waiting EXCEPT ![s] = "nothing"]
    /\ UNCHANGED <<inFlight, query, stopVars, active, handlers, registry,
                   closing, closed>>

\* a plausible bug: 413 does not close the connection
LastOf408(status) == status \in {400, 408}

\* the answers after which the connection is not read again
ClosesConnection(status) == status \in {400, 408, 413}

\* The response is written; then the connection is closed, or kept alive.
WriteResponse(s) ==
    /\ On(s)
    /\ ses[s].pc = "write"
    /\ \E sent, keepAlive \in BOOLEAN :
        /\ s \in closed => ~sent
        /\ ses' = [ses EXCEPT ![s] =
            IF /\ sent
               /\ ~ClosesConnection(@.status)
               /\ keepAlive
               /\ routes = "running"
            THEN [pc |-> "loop", clean |-> @.clean, status |-> 0]
            ELSE [NoSession EXCEPT !.pc = "end"]]
    /\ SessionOnly

\* the coroutine returns: socket guard, handler lease, session lease
EndSession(s) ==
    /\ On(s)
    /\ ses[s].pc \in {"end", "end-refused"}
    /\ registry' = registry \ {s}
    /\ IF ses[s].pc = "end" THEN ReleaseHandler ELSE UNCHANGED handlers
    /\ ReleaseSession
    /\ ses' = [ses EXCEPT ![s] = NoSession]
    /\ closing' = closing \ {s}
    /\ closed' = closed \ {s}
    /\ UNCHANGED <<comboVars, stopVars>>

SessionStep(s) ==
    \/ EnterHandler(s) \/ EnterHandlerRecheck(s) \/ RegisterSession(s)
    \/ NextRequest(s) \/ ReadContentLengthBody(s) \/ ReadChunkedBody(s)
    \/ HandleLocal(s) \/ HandleCombo(s) \/ ComboAnswered(s)
    \/ WriteResponse(s) \/ EndSession(s)

-----------------------------------------------------------------------------
(* The queries of /api/combo.                                              *)

ComboRest == UNCHANGED <<stopVars, active, handlers, registry, closing,
                         closed, ses>>

QueryRuns(q) == stop.io = "run" /\ RunQuery(q) /\ ComboRest
QueryEnds(q) == EndQuery(q) /\ ComboRest
QueryLate(q) == stop.io = "run" /\ Deadline(q) /\ ComboRest
-----------------------------------------------------------------------------
(* Application::request_stop, HttpServer::stop and the drain coroutine.    *)

StopOnly == UNCHANGED <<comboVars, maxClients, active, handlers, registry,
                        closing, closed, ses>>

\* A signal, or the end of the accept loop by an exception:
\* stop_requested_.exchange and RouteLifecycle::begin_draining.
RequestStop ==
    /\ Io
    /\ stop.request = "none"
    /\ stop' = [stop EXCEPT !.request = "coord"]
    /\ routes' = "draining"
    /\ UNCHANGED <<coord, running, app>>
    /\ StopOnly

BeginDraining ==
    /\ stop.request = "coord"
    /\ coord' = "draining"
    /\ stop' = [stop EXCEPT !.request = "dispatch"]
    /\ UNCHANGED <<routes, running, app>>
    /\ StopOnly

\* server_->stop() is dispatched and the drain coroutine spawned
DispatchStop ==
    /\ stop.request = "dispatch"
    /\ stop' = [stop EXCEPT !.request = "done", !.server = "posted",
                            !.drain = "polling"]
    /\ UNCHANGED <<routes, coord, running, app>>
    /\ StopOnly

\* a plausible bug: the sessions are stopped before running is cleared
StopServerSessionsFirst ==
    /\ Io
    /\ ~AcceptorBusy
    /\ \/ /\ stop.server = "posted"
          /\ closing' = registry \ closed
          /\ stop' = [stop EXCEPT !.server = "cleared"]
          /\ UNCHANGED running
       \/ /\ stop.server = "cleared"
          /\ running' = FALSE
          /\ stop' = [stop EXCEPT !.server = "down"]
          /\ UNCHANGED closing
    /\ UNCHANGED <<comboVars, maxClients, routes, coord, app, active, handlers,
                   registry, closed, ses>>

\* On the acceptor's strand: running is cleared and the acceptor closed, then
\* stop_sessions posts a close to every registered session.
StopServer ==
    /\ Io
    /\ ~AcceptorBusy
    /\ \/ /\ stop.server = "posted"
          /\ running' = FALSE
          /\ stop' = [stop EXCEPT !.server = "cleared"]
          /\ UNCHANGED closing
       \/ /\ stop.server = "cleared"
          /\ closing' = registry \ closed
          /\ stop' = [stop EXCEPT !.server = "down"]
          /\ UNCHANGED running
    /\ UNCHANGED <<comboVars, maxClients, routes, coord, app, active, handlers,
                   registry, closed, ses>>

CloseSocket(s) ==
    /\ On(s)
    /\ s \in closing
    /\ closing' = closing \ {s}
    /\ closed' = closed \cup {s}
    /\ UNCHANGED <<comboVars, stopVars, active, handlers, registry, ses>>

\* wait_for_drain: it polls active_sessions_
Drained ==
    /\ Io
    /\ stop.drain = "polling"
    /\ active = 0
    /\ stop' = [stop EXCEPT !.drain = "drained"]
    /\ UNCHANGED <<routes, coord, running, app>>
    /\ StopOnly

\* a plausible bug: the drain waits for the sessions however long it takes
DrainNeverTimesOut == Drained

\* five seconds have passed
DrainTimeout ==
    /\ Io
    /\ stop.drain = "polling"
    /\ stop' = [stop EXCEPT !.drain = "timeout"]
    /\ UNCHANGED <<routes, coord, running, app>>
    /\ StopOnly

\* mark_stopped and ioc_.stop()
StopIo ==
    /\ stop.io = "run"
    /\ stop.drain \in {"drained", "timeout"}
    /\ stop' = [stop EXCEPT !.io = "stopped"]
    /\ MarkStopped
    /\ UNCHANGED <<running, app>>
    /\ StopOnly

\* run_io_context and stop_after_handler_exception
HandlerThrows ==
    /\ Io
    /\ IF stop.request = "none"
       THEN /\ routes' = "draining"
            /\ stop' = [stop EXCEPT !.request = "coord"]
       ELSE /\ stop' = [stop EXCEPT !.io = "stopped"]
            /\ UNCHANGED routes
    /\ UNCHANGED <<coord, running, app>>
    /\ StopOnly

\* a plausible bug: cleanup does not wait for the io threads
JoinIoEarly ==
    /\ app = "run"
    /\ stop.io = "stopped"
    /\ app' = "joined"
    /\ UNCHANGED <<routes, coord, running, stop>>
    /\ StopOnly

\* run() joins the threads of the io_context: the handlers they are in end
JoinIo ==
    /\ app = "run"
    /\ stop.io = "stopped"
    /\ Running = {}
    /\ stop.request # "coord" /\ stop.request # "dispatch"
    /\ app' = "joined"
    /\ UNCHANGED <<routes, coord, running, stop>>
    /\ StopOnly

\* cleanup(): the services stop, the pools shut down
Cleanup ==
    /\ app = "joined"
    /\ app' = "clean"
    /\ MarkStopped
    /\ UNCHANGED <<running, stop>>
    /\ StopOnly

-----------------------------------------------------------------------------
Stopping ==
    \/ BeginDraining \/ DispatchStop \/ StopServer
    \/ Drained \/ DrainTimeout \/ StopIo \/ JoinIo \/ Cleanup

Next ==
    \/ \E s \in Sessions :
        \/ Accept(s) \/ Admit(s) \/ Recheck(s)
        \/ ReadHeader(s) \/ ReadFails(s) \/ SessionStep(s) \/ CloseSocket(s)
    \/ \E q \in Queries :
        QueryRuns(q) \/ QueryEnds(q) \/ QueryLate(q)
    \/ RequestStop \/ HandlerThrows
    \/ Stopping

Spec == Init /\ [][Next]_vars

\* The threads that stop the server run, the drain timer fires, and a query
\* ends, by its timeout at the latest.  Clients and sessions owe nothing.
FairSpec ==
    /\ Spec
    /\ WF_vars(\/ BeginDraining \/ DispatchStop \/ StopIo \/ JoinIo \/ Cleanup
               \/ \E q \in Queries : QueryEnds(q))
    /\ SF_vars(Drained \/ DrainTimeout)

\* The io threads run what is queued and timers fire, but MySQL may take
\* longer than any deadline.
SlowSpec ==
    /\ Spec
    /\ \A s \in Sessions : SF_vars(SessionStep(s))
    /\ \A q \in Queries :
        SF_vars(QueryRuns(q)) /\ WF_vars(QueryLate(q))

-----------------------------------------------------------------------------
Leased == {s \in Sessions : ses[s].pc \notin {"none", "admit"}}

\* Every variable has its type; both limits hold.
TypeOK ==
    /\ routes \in Phases /\ coord \in Phases /\ running \in BOOLEAN
    /\ active \in 0 .. Cardinality(Sessions)
    /\ maxClients \in ClientLimits /\ active <= maxClients
    /\ handlers \in 0 .. active
    /\ inFlight \in 0 .. MaxInFlight
    /\ closing \cup closed \subseteq registry

\* active_sessions_ counts the sessions that hold a lease, and once the drain
\* has seen none left, none begins to run: a connection accepted while the
\* phases change is turned away by the second look at the phase.
DrainedMeansGone ==
    /\ active = Cardinality(Leased)
    /\ stop.drain = "drained" => Leased \subseteq {s \in Sessions :
                                                    ses[s].pc = "recheck"}

\* The permits in use are those of the queries not yet completed, the ones
\* whose request was answered 504 included: a timeout that races the answer
\* neither leaks a permit nor returns it twice.
PermitsMatchQueries ==
    inFlight = Cardinality({q \in Queries : query[q].pc # "free"})

\* Once stop() has run, no session sits in a read that nobody will cancel: a
\* session missed by the snapshot of stop_sessions registered later, and then
\* it sees running cleared before it reads.
StopReachesReaders ==
    stop.server = "down" =>
        \A s \in Sessions :
            ses[s].pc = "read" => s \in closing \cup closed

\* "The caller must stop reusing this connection because unread body bytes
\* may still be on the wire": no request is read from such a connection.
CleanBeforeReuse ==
    \A s \in Sessions :
        ses[s].pc \in {"loop", "read", "body"} => ses[s].clean

\* The pools shut down when no query runs on an io thread any more.
PoolsOutliveQueries == app = "clean" => Running = {}

\* A stop that was requested ends: cleanup is reached whatever the clients
\* do, and also after an exception in the middle of the stop.
StopTerminates == stop.request # "none" ~> app = "clean"

\* "MySQL fallback over combo_deadline_ms: the request is answered with 504",
\* however long the query takes.
DeadlineIsKept ==
    \A s \in Sessions :
        waiting[s] = "query" ~> waiting[s] # "query" \/ stop.request # "none"
=============================================================================
