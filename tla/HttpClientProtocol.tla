------------------------ MODULE HttpClientProtocol ------------------------
(***************************************************************************)
(* http::ClientProtocol of whisperlib/http/http_client_protocol.cc: many   *)
(* requests over one connection, at most MaxConcurrent of them at the      *)
(* server.  Everything runs in the selector's thread.  A response is a     *)
(* head and a body, which may come in different read events.               *)
(*                                                                         *)
(* Each request is sent once, so that a request is also its request_id_.   *)
(* A done_callback that sends another request is a SendRequest right after *)
(* the step that ran it.                                                   *)
(***************************************************************************)
EXTENDS Integers, Sequences, FiniteSets, SequencesExt

CONSTANTS
    Requests,
    MaxConcurrent,  \* max_concurrent_requests_
    MaxWaiting      \* max_waiting_requests_

Nobody == "NULL"        \* no request
Fresh == "new"          \* a ClientRequest of the protocol itself, request_id_ 0
Orphan == "orphan"      \* the same with request_id_ -1

\* The limits are counts, and a user's request is none of the protocol's own.
HttpParameters ==
    /\ MaxConcurrent \in Nat /\ MaxWaiting \in Nat
    /\ {Nobody, Fresh, Orphan} \cap Requests = {}

VARIABLES
    conn,               \* the connection; "gone" when connection_ is NULL
    conn_error_,
    waiting_requests_,
    active_requests_,
    callback_map_,      \* the requests with a done_callback
    reading_request_,
    error,              \* error_ of each request
    got,                \* the pieces of responses parsed into each request
    calls,              \* how often the done_callback of each request has run
    scheduled,          \* done_callbacks in the selector
    inbuf,              \* pieces of responses that have arrived
    answered            \* requests that the server has answered

clientVars == <<waiting_requests_, active_requests_, callback_map_, error, calls, scheduled>>
httpVars == <<conn, conn_error_, clientVars, reading_request_, got, inbuf, answered>>

Piece(q, part) == [of |-> q, part |-> part]
Sent == {q \in Requests : error[q] # "INCOMPLETE"} \cup callback_map_

HttpInit ==
    /\ conn = "disconnected" /\ conn_error_ = "INCOMPLETE"
    /\ waiting_requests_ = <<>> /\ active_requests_ = {} /\ callback_map_ = {}
    /\ reading_request_ = Nobody
    /\ error = [q \in Requests |-> "INCOMPLETE"] /\ got = [q \in Requests |-> {}]
    /\ calls = [q \in Requests |-> 0] /\ scheduled = {} /\ inbuf = <<>> /\ answered = {}

-----------------------------------------------------------------------------
\* The waiting requests that fit are written to the connection, which keeps
\* them until it is connected.
WriteRequestsToServer(w, active) ==
    LET n == Min({Len(w), MaxConcurrent - Cardinality(active)}) IN
      /\ waiting_requests_' = SubSeq(w, n + 1, Len(w))
      /\ active_requests_' = active \cup Range(SubSeq(w, 1, n))

\* The done_callback of each of qs runs, once.
RunCallbacks(qs) == calls' = [q \in Requests |-> calls[q] + (IF q \in qs THEN 1 ELSE 0)]

\* NotifyConnectionDeletion: the connection is closed, every request is resolved.
ResolveAll(e, w, active) ==
    LET final == IF e = "INCOMPLETE" THEN "CLOSED" ELSE e IN
      /\ conn' = "gone" /\ conn_error_' = final
      /\ error' = [q \in Requests |-> IF q \in active THEN final
                                      ELSE IF q \in Range(w) THEN "DEPENDENCY" ELSE error[q]]
      /\ RunCallbacks(active \cup Range(w))
      /\ waiting_requests_' = <<>> /\ active_requests_' = {} /\ callback_map_' = {}

\* A request for a connection that is gone, or one too many.
SendRefused(q) ==
    \/ /\ conn = "gone"
       /\ error' = [error EXCEPT ![q] = "CLOSED"]
       /\ RunCallbacks({q}) /\ UNCHANGED scheduled
    \/ /\ conn # "gone" /\ Len(waiting_requests_) >= MaxWaiting
       /\ error' = [error EXCEPT ![q] = "TOO_MANY"]
       /\ scheduled' = scheduled \cup {q} /\ UNCHANGED calls

\* Connect may fail at once, which closes.
SendAccepted(q) ==
    LET w == Append(waiting_requests_, q) IN
      /\ conn # "gone" /\ Len(waiting_requests_) < MaxWaiting
      /\ \/ /\ conn = "disconnected"
            /\ conn' = "connecting" /\ waiting_requests_' = w
            /\ callback_map_' = callback_map_ \cup {q}
            /\ UNCHANGED <<conn_error_, active_requests_, error, calls>>
         \/ /\ conn = "disconnected"
            /\ ResolveAll(conn_error_, w, active_requests_)
         \/ /\ conn # "disconnected"
            /\ callback_map_' = callback_map_ \cup {q}
            /\ WriteRequestsToServer(w, active_requests_)
            /\ UNCHANGED <<conn, conn_error_, error, calls>>

SendRequest(q) ==
    /\ q \notin Sent
    /\ \/ /\ SendRefused(q)
          /\ UNCHANGED <<conn, conn_error_, waiting_requests_, active_requests_, callback_map_>>
       \/ SendAccepted(q) /\ UNCHANGED scheduled
    /\ UNCHANGED <<reading_request_, got, inbuf, answered>>

RunScheduled ==
    /\ \E q \in scheduled : RunCallbacks({q}) /\ scheduled' = scheduled \ {q}
    /\ UNCHANGED <<conn, conn_error_, waiting_requests_, active_requests_, callback_map_,
                   error, reading_request_, got, inbuf, answered>>

NotifyConnected ==
    /\ conn = "connecting"
    /\ conn' = "connected" /\ conn_error_' = "OK"
    /\ WriteRequestsToServer(waiting_requests_, active_requests_)
    /\ UNCHANGED <<callback_map_, error, calls, scheduled, reading_request_, got, inbuf, answered>>

\* The server closes, the connect or the write timeout closes, or the user with Clear.
Closed ==
    /\ conn \in {"connecting", "connected"}
    /\ \E e \in {conn_error_, "TIMEOUT"} : ResolveAll(e, waiting_requests_, active_requests_)
    /\ UNCHANGED <<scheduled, reading_request_, got, inbuf, answered>>

\* Variant: the timeout leaves the done_callback behind.
HandleTimeoutKeepsCallback(q) ==
    /\ conn # "gone" /\ q \in active_requests_
    /\ error' = [error EXCEPT ![q] = "TIMEOUT"]
    /\ active_requests_' = active_requests_ \ {q}
    /\ RunCallbacks({q})
    /\ UNCHANGED <<conn, conn_error_, waiting_requests_, callback_map_, scheduled,
                   reading_request_, got, inbuf, answered>>

\* The timeout of one request.  Nothing is written in its place.
HandleTimeout(q) ==
    /\ conn # "gone" /\ q \in active_requests_
    /\ error' = [error EXCEPT ![q] = "TIMEOUT"]
    /\ active_requests_' = active_requests_ \ {q}
    /\ callback_map_' = callback_map_ \ {q}
    /\ RunCallbacks({q})
    /\ UNCHANGED <<conn, conn_error_, waiting_requests_, scheduled, reading_request_, got, inbuf,
                   answered>>

\* The server answers what it was sent, in any order.
Written == {q \in Requests : q \in active_requests_ \/ error[q] = "TIMEOUT"}
Answer(q) ==
    /\ conn = "connected" /\ q \in Written \ answered
    /\ answered' = answered \cup {q}
    /\ inbuf' = inbuf \o <<Piece(q, "head"), Piece(q, "body")>>
    /\ UNCHANGED <<conn, conn_error_, clientVars, reading_request_, got>>

-----------------------------------------------------------------------------
(* ProcessMoreData.                                                         *)

\* With one concurrent request the only active one is read into unseen.
ReadingRequest ==
    IF MaxConcurrent = 1 /\ active_requests_ # {} THEN CHOOSE q \in active_requests_ : TRUE ELSE Fresh

\* Variant: a response that nobody waits for goes to a request that waits.
IdentifyAnyRequest(q) ==
    IF q \in active_requests_ THEN q
    ELSE IF active_requests_ # {} THEN CHOOSE r \in active_requests_ : TRUE ELSE Orphan

\* The request that the X-Request-Id of the response names; a server that does
\* not send one has an orphan.
IdentifyReadingRequest(q) == IF q \in active_requests_ THEN q ELSE Orphan

Parse(q) == got' = IF q \in Requests THEN [got EXCEPT ![q] = @ \cup {Head(inbuf)}] ELSE got

ReadHead ==
    /\ conn = "connected" /\ inbuf # <<>> /\ reading_request_ = Nobody
    /\ \E r \in IF ReadingRequest = Fresh THEN {IdentifyReadingRequest(Head(inbuf).of), Orphan}
               ELSE {ReadingRequest} :
          reading_request_' = r /\ Parse(r)
    /\ inbuf' = Tail(inbuf)
    /\ UNCHANGED <<conn, conn_error_, clientVars, answered>>

\* A response that belongs to nobody closes the connection.
ReadOrphan ==
    /\ conn = "connected" /\ inbuf # <<>> /\ reading_request_ = Orphan
    /\ ResolveAll("DEPENDENCY", waiting_requests_, active_requests_)
    /\ inbuf' = Tail(inbuf)
    /\ UNCHANGED <<scheduled, reading_request_, got, answered>>

\* Variant: a response that is complete puts no waiting request on the line.
ReadBodyOnly ==
    /\ conn = "connected" /\ inbuf # <<>> /\ reading_request_ \in Requests
    /\ Parse(reading_request_)
    /\ error' = [error EXCEPT ![reading_request_] = "OK"]
    /\ callback_map_' = callback_map_ \ {reading_request_}
    /\ RunCallbacks({reading_request_} \cap callback_map_)
    /\ active_requests_' = active_requests_ \ {reading_request_}
    /\ reading_request_' = Nobody
    /\ inbuf' = Tail(inbuf)
    /\ UNCHANGED <<conn, conn_error_, waiting_requests_, scheduled, answered>>

\* Read to the end; the request may have been resolved by its timeout meanwhile.
ReadBody ==
    /\ conn = "connected" /\ inbuf # <<>> /\ reading_request_ \in Requests
    /\ Parse(reading_request_)
    /\ error' = [error EXCEPT ![reading_request_] = "OK"]
    /\ callback_map_' = callback_map_ \ {reading_request_}
    /\ RunCallbacks({reading_request_} \cap callback_map_)
    /\ WriteRequestsToServer(waiting_requests_, active_requests_ \ {reading_request_})
    /\ reading_request_' = Nobody
    /\ inbuf' = Tail(inbuf)
    /\ UNCHANGED <<conn, conn_error_, scheduled, answered>>

\* The parser fails: the request gets that error, the connection is closed.
ReadBroken ==
    /\ conn = "connected" /\ inbuf # <<>> /\ reading_request_ \in Requests
    /\ LET q == reading_request_
           lost == (active_requests_ \ {q}) \cup Range(waiting_requests_)
       IN  /\ RunCallbacks(lost \cup ({q} \cap callback_map_))
           /\ error' = [p \in Requests |-> IF p = q THEN "PARSING"
                                           ELSE IF p \in lost THEN "DEPENDENCY" ELSE error[p]]
    /\ conn' = "gone" /\ conn_error_' = "DEPENDENCY"
    /\ waiting_requests_' = <<>> /\ active_requests_' = {} /\ callback_map_' = {}
    /\ reading_request_' = Nobody
    /\ inbuf' = Tail(inbuf)
    /\ UNCHANGED <<scheduled, got, answered>>

Read == ReadHead \/ ReadOrphan \/ ReadBody \/ ReadBroken

HttpNext ==
    \/ \E q \in Requests : SendRequest(q) \/ HandleTimeout(q) \/ Answer(q)
    \/ RunScheduled \/ NotifyConnected \/ Closed \/ Read

AllSent == Sent = Requests /\ conn = "gone" /\ scheduled = {} /\ UNCHANGED httpVars

HttpSpec == HttpInit /\ [][HttpNext \/ AllSent]_httpVars

\* The selector delivers events and closures, a connect ends, and the server
\* answers what it got.
HttpFairness ==
    /\ WF_httpVars(Read) /\ WF_httpVars(RunScheduled) /\ WF_httpVars(NotifyConnected)
    /\ \A q \in Requests : WF_httpVars(Answer(q))

FairHttpSpec == HttpSpec /\ HttpFairness

-----------------------------------------------------------------------------
(* The done_callback of a request runs once: not before the request is      *)
(* resolved, and whoever resolves it - the response, its timeout, the close *)
(* of the connection, a failed Connect inside SendRequest, a full queue -   *)
(* nobody does it again (http_client_protocol.h:452, "call once the done    *)
(* callback").                                                              *)
CalledBackOnce ==
    /\ callback_map_ = active_requests_ \cup Range(waiting_requests_)
    /\ \A q \in Sent : calls[q] = IF q \in callback_map_ \cup scheduled THEN 0 ELSE 1
    /\ conn = "gone" => callback_map_ = {}

(* What is parsed into a request is its own response, however late, in      *)
(* whatever order and between whatever timeouts the responses come          *)
(* (http_client_protocol.h:492, "based on the request_id header").          *)
AnswerBelongs == \A q \in Requests : \A p \in got[q] : p.of = q

(* A request that waits behind others is resolved in the end, when the      *)
(* server answers: by its own response, or by the close that a response to  *)
(* a request that timed out brings.                                         *)
RequestResolved == \A q \in Requests : q \in callback_map_ ~> q \notin callback_map_
=============================================================================
