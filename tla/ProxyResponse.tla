---------------------------- MODULE ProxyResponse ----------------------------
(***************************************************************************)
(* read_proxy_response (src/http/proxy_forwarder.hpp): how the answer of   *)
(* an upstream is read, and whether its connection may serve another       *)
(* request.  An answer is described by what the function tells apart.      *)
(***************************************************************************)
EXTENDS Naturals

\* read_with_timeout without OperationDeadline: whichever of the read and the
\* timer is first
ReadFailures == {"Timeout", "PeerClosed", "SysError"}

\* a body whose end is the end of the connection is never known to be whole
BodyResults(framing) ==
    CASE framing = "chunked" -> ReadFailures \cup {"Success", "TooLarge", "InvalidChunk"}
      [] framing = "length"  -> ReadFailures \cup {"Success", "TooLarge"}
      [] framing = "eof"     -> ReadFailures \cup {"TooLarge"}

MaxInformational == 8

\* infos: informational responses before the last header
\* last: that header: final, not read to its end, too long, without a status
\*   line, with a refused framing, or informational with a framing or upgrade
\* noBody: HEAD, 204 or 304
\* surplus: bytes beyond the end of the answer arrived with it
Answers ==
    {a \in [infos : {0, MaxInformational, MaxInformational + 1},
            last : {"final", "cut", "tooLong", "noStatus", "badFraming", "badInfo"},
            keepAlive : BOOLEAN,
            noBody : BOOLEAN,
            framing : {"chunked", "length", "eof"},
            body : UNION {BodyResults(f) : f \in {"chunked", "length", "eof"}},
            surplus : BOOLEAN] :
        a.body \in BodyResults(a.framing)}

\* error: resp.error is set; close: connection_close; rest: bytes in
\* read_buffer; unread: bytes of this exchange are still to come, or were
\* thrown away
Failed == [error |-> TRUE, close |-> TRUE, rest |-> FALSE, unread |-> TRUE]

HeaderRead(a) == a.infos <= MaxInformational /\ a.last = "final"

\* a plausible bug: what came with the header is dropped and forgotten
NoBodyForgets(a) ==
    [error |-> FALSE, close |-> ~a.keepAlive, rest |-> FALSE, unread |-> a.surplus]

NoBody(a) ==
    [error |-> FALSE, close |-> ~a.keepAlive \/ a.surplus, rest |-> FALSE,
     unread |-> a.surplus]

\* read_chunked_body and read_content_length_body leave what follows the body
Delimited(a) ==
    IF a.body = "Success"
    THEN [error |-> FALSE, close |-> ~a.keepAlive, rest |-> a.surplus,
          unread |-> a.surplus]
    ELSE Failed

UntilEof(a) ==
    IF a.body = "PeerClosed"
    THEN [error |-> FALSE, close |-> TRUE, rest |-> FALSE, unread |-> FALSE]
    ELSE Failed

ReadProxyResponse(a) ==
    CASE ~HeaderRead(a)                         -> Failed
      [] HeaderRead(a) /\ a.noBody              -> NoBody(a)
      [] HeaderRead(a) /\ ~a.noBody /\ a.framing = "eof" -> UntilEof(a)
      [] OTHER                                  -> Delimited(a)

Outcomes == {ReadProxyResponse(a) : a \in Answers}
=============================================================================
