--------------------------- MODULE FailSafeClient ---------------------------
(***************************************************************************)
(* http::FailSafeClient of whisperlib/http/failsafe_http_client.cc: it     *)
(* spreads requests over one ClientProtocol per server, tries a request    *)
(* again when it fails, and keeps what does not fit in a queue.            *)
(*                                                                         *)
(* Callbacks call each other: a request that fails inside SendRequest is   *)
(* started again before SendRequest returns.  The state is therefore a     *)
(* record f and the methods are functions of it; refusing is the set of    *)
(* the servers whose Connect fails at once during one step.                *)
(***************************************************************************)
EXTENDS Integers, Sequences, FiniteSets, SequencesExt

CONSTANTS
    Requests,
    Urgent,         \* the requests started with urgency
    NumServers,
    NumRetries,     \* num_retries_; a negative one is no limit
    MaxConcurrent,  \* max_concurrent_requests_ of the clients
    KeepAlives,     \* the values of keep_alive_sec_ > 0
    MaxResets       \* bound: Reset and ForceCloseAll

VARIABLES f, resets
vars == <<f, resets>>

\* clients: one per server that was needed so far: "NULL", "new" (not connected),
\* "up" or "dead"; load: the requests each one has; death: "never", "recent" or
\* "old" by reopen_connection_interval_ms_.  started, cancelled, expired (by
\* request_timeout_ms_), result and completions (runs of the completion closure)
\* follow the requests; aborted: the CHECK of RequeuePending failed.
Init ==
    /\ \E keepAlive \in KeepAlives :
       f = [keepAlive |-> keepAlive, clients |-> <<>>, load |-> <<>>, death |-> <<>>, pending |-> <<>>, map |-> {},
            retries |-> [q \in Requests |-> NumRetries], closing |-> FALSE,
            started |-> {}, cancelled |-> {}, expired |-> {}, gone |-> FALSE,
            result |-> [q \in Requests |-> "none"], completions |-> [q \in Requests |-> 0],
            aborted |-> FALSE]
    /\ resets = 0

-----------------------------------------------------------------------------
\* Op of v, with v evaluated once.
With(v, Op(_)) == CHOOSE r \in {Op(u) : u \in {v}} : TRUE

Complete(x, q, e) == [x EXCEPT !.completions[q] = @ + 1, !.result[q] = e]

IsAlive(x, i) == x.clients[i] \in {"new", "up"}
Reopens(x, i) == ~IsAlive(x, i) /\ x.death[i] = "old"

\* The pass over clients_: dead clients are deleted, and made again when the
\* interval is over.
Refreshed(x) ==
    [x EXCEPT !.clients = [i \in DOMAIN @ |-> IF IsAlive(x, i) THEN @[i]
                                              ELSE IF Reopens(x, i) THEN "new" ELSE "NULL"],
              !.death = [i \in DOMAIN @ |-> IF IsAlive(x, i) THEN @[i] ELSE "recent"]]

\* The client to send to: one just made again, else the first of the least loaded;
\* 0 when there is none.
MinId(x) ==
    LET y == Refreshed(x)
        again == {i \in DOMAIN x.clients : Reopens(x, i)}
        alive == {i \in DOMAIN x.clients : IsAlive(x, i)}
    IN  IF again # {} THEN Max(again)
        ELSE IF alive = {} THEN 0
        ELSE Min({i \in alive : \A j \in alive : Len(y.load[i]) <= Len(y.load[j])})

\* A server that was not used yet comes before a client that is busy.
Chosen(x) ==
    LET y == Refreshed(x)
        i == MinId(x)
    IN  IF (i = 0 \/ Len(y.load[i]) > 0) /\ Len(y.clients) < NumServers
        THEN [conn |-> [y EXCEPT !.clients = Append(@, "new"), !.load = Append(@, <<>>),
                                 !.death = Append(@, "never")],
              id |-> Len(y.clients) + 1]
        ELSE [conn |-> y, id |-> i]

Busy(x, i) ==
    i = 0 \/ (Len(x.load[i]) > 0 /\ ~x.keepAlive) \/ Len(x.load[i]) >= MaxConcurrent

\* Variant: pending_map_ does not learn of the request.
EnqueueUnmapped(x, q) ==
    [x EXCEPT !.pending = IF q \in Urgent THEN <<q>> \o @ ELSE Append(@, q)]

Enqueue(x, q) ==
    [x EXCEPT !.map = @ \cup {q},
              !.pending = IF q \in Urgent THEN <<q>> \o @ ELSE Append(@, q)]

\* fits: what InternalStartRequest returns.
RECURSIVE InternalStartRequest(_, _, _)
InternalStartRequest(x, q, refusing) ==
    IF x.closing THEN [now |-> Complete(x, q, "CLIENT_CLOSE"), fits |-> FALSE]
    ELSE IF q \in x.expired THEN [now |-> Complete(x, q, "TIMEOUT"), fits |-> TRUE]
    ELSE IF x.retries[q] = 0 THEN [now |-> Complete(x, q, "TOO_MANY_RETRIES"), fits |-> TRUE]
    ELSE With(Chosen(x), LAMBDA to :
         LET y == to.conn
             i == to.id
             z == [y EXCEPT !.retries[q] = IF @ > 0 THEN @ - 1 ELSE @]
         IN  IF Busy(y, i) THEN [now |-> Enqueue(y, q), fits |-> FALSE]
             ELSE [now |-> IF y.clients[i] = "new" /\ i \in refusing
                           THEN InternalStartRequest([z EXCEPT !.clients[i] = "dead"],
                                                     q, refusing).now
                           ELSE [z EXCEPT !.clients[i] = "up", !.load[i] = Append(@, q)],
                   fits |-> TRUE])

\* Variant: what did not fit is forgotten.
KeptNothing(x, old) == x

\* What did not fit is kept in order, unless it was cancelled or is too old.
Kept(x, old) ==
    LET late == {q \in Range(old) \cap x.map : q \in x.expired} IN
      [x EXCEPT !.pending = @ \o SelectSeq(old, LAMBDA q : q \in x.map \ late),
                !.map = @ \ late,
                !.completions = [q \in Requests |-> IF q \in late THEN @[q] + 1 ELSE @[q]],
                !.result = [q \in Requests |-> IF q \in late THEN "TIMEOUT" ELSE @[q]]]

RECURSIVE Requeue(_, _, _)
Requeue(x, old, refusing) ==
    IF old = <<>> THEN x
    ELSE IF Head(old) \notin x.map THEN Requeue(x, Tail(old), refusing)
    ELSE With(InternalStartRequest([x EXCEPT !.map = @ \ {Head(old)}], Head(old), refusing),
              LAMBDA res : IF res.fits THEN Requeue(res.now, Tail(old), refusing)
                           ELSE Kept(res.now, Tail(old)))

RequeuePending(x, refusing) ==
    IF x.pending = <<>> THEN [x EXCEPT !.aborted = @ \/ x.map # {}]
    ELSE Requeue([x EXCEPT !.pending = <<>>], x.pending, refusing)

\* The done_callback given to SendRequest.  Without keep alive a client is given
\* up after one request.
CompletionCallback(x, q, i, e, refusing) ==
    IF e # "INCOMPLETE" /\ (x.closing \/ e = "OK")
    THEN LET y == IF x.keepAlive \/ x.closing \/ x.clients[i] = "NULL" THEN x
                  ELSE [x EXCEPT !.clients[i] = "NULL", !.death[i] = "never"]
         IN  Complete(RequeuePending([y EXCEPT !.map = @ \ {q}], refusing), q, e)
    ELSE InternalStartRequest(x, q, refusing).now

\* The callbacks of the requests qs, one after the other.
RECURSIVE RunCallbacks(_, _, _, _, _)
RunCallbacks(x, qs, i, e, refusing) ==
    IF qs = <<>> THEN x
    ELSE With(CompletionCallback(x, Head(qs), i, e, refusing),
              LAMBDA y : RunCallbacks(y, Tail(qs), i, e, refusing))

-----------------------------------------------------------------------------
Running == ~f.gone /\ ~f.aborted
Becomes(step(_)) == Running /\ \E refusing \in SUBSET (1..NumServers) : f' = step(refusing)

StartRequest(q) ==
    /\ q \notin f.started
    /\ Becomes(LAMBDA refusing :
           With(InternalStartRequest([f EXCEPT !.started = @ \cup {q}], q, refusing),
                LAMBDA res : IF res.fits THEN RequeuePending(res.now, refusing) ELSE res.now))
    /\ UNCHANGED resets

\* Only a request that waits in the queue is found.
CancelRequest(q) ==
    /\ Running /\ q \in f.map
    /\ f' = [f EXCEPT !.cancelled = @ \cup {q}, !.map = @ \ {q}]
    /\ UNCHANGED resets

RequeuePendingAlarm ==
    /\ Becomes(LAMBDA refusing : RequeuePending(f, refusing))
    /\ UNCHANGED resets

\* A client resolves one request: with the response, or by its own timeout.
Without(i, q) == [f EXCEPT !.load[i] = SelectSeq(@, LAMBDA p : p # q)]

RequestDone(i, q, e) ==
    /\ q \in Range(f.load[i])
    /\ Becomes(LAMBDA refusing : CompletionCallback(Without(i, q), q, i, e, refusing))
    /\ UNCHANGED resets

\* The connection of a client is closed, which resolves all it has: with an
\* error, or with OK when nothing has set conn_error_ since it was connected.
ClientDies(i, e) ==
    /\ f.clients[i] = "up"
    /\ Becomes(LAMBDA refusing :
           RunCallbacks([f EXCEPT !.clients[i] = "dead", !.load[i] = <<>>],
                        f.load[i], i, e, refusing))
    /\ UNCHANGED resets

\* The clients are forgotten first; then each resolves what it has.
Reset ==
    /\ resets < MaxResets /\ resets' = resets + 1
    /\ Becomes(LAMBDA refusing :
           RunCallbacks([f EXCEPT !.clients = <<>>, !.load = <<>>, !.death = <<>>],
                        FlattenSeq(f.load), 1, "CLIENT_CLOSE", refusing))

\* The clients that may not be connected yet although requests were sent to them:
\* a second request makes them active while conn_error_ is CONN_INCOMPLETE.
Unconnected == {i \in DOMAIN f.clients : f.load[i] # <<>> /\ MaxConcurrent > 1}

\* While closing_ is set, a callback also ends a request of the queue, unless the
\* client of its own request was not connected.
ClosedAll(connecting) ==
    LET close(x, i) ==
            RunCallbacks(x, f.load[i], i,
                         IF i \in connecting THEN "INCOMPLETE" ELSE "CLIENT_CLOSE", {})
    IN  [FoldLeft(close, [f EXCEPT !.closing = TRUE, !.load = [i \in DOMAIN @ |-> <<>>]],
                  [i \in DOMAIN f.clients |-> i])
         EXCEPT !.clients = <<>>, !.load = <<>>, !.death = <<>>, !.closing = FALSE]

ForceCloseAll ==
    /\ Running /\ resets < MaxResets /\ resets' = resets + 1
    /\ \E connecting \in SUBSET Unconnected : f' = ClosedAll(connecting)

Destructor ==
    /\ Running
    /\ \E connecting \in SUBSET Unconnected :
         LET closed == ClosedAll(connecting)
             remaining == Range(closed.pending) \ closed.cancelled
         IN  f' = [closed EXCEPT
                     !.gone = TRUE, !.pending = <<>>, !.map = {},
                     !.completions = [q \in Requests |-> IF q \in remaining THEN @[q] + 1 ELSE @[q]],
                     !.result = [q \in Requests |-> IF q \in remaining THEN "CLIENT_CLOSE" ELSE @[q]]]
    /\ UNCHANGED resets

\* Time passes.
RequestExpires(q) ==
    /\ Running /\ q \in f.started \ f.expired
    /\ f' = [f EXCEPT !.expired = @ \cup {q}] /\ UNCHANGED resets
IntervalOver(i) ==
    /\ Running /\ f.death[i] = "recent"
    /\ f' = [f EXCEPT !.death[i] = "old"] /\ UNCHANGED resets

ClientStep(q) == \E i \in DOMAIN f.clients, e \in {"OK", "error"} : RequestDone(i, q, e)

Next ==
    \/ \E q \in Requests :
          StartRequest(q) \/ CancelRequest(q) \/ ClientStep(q) \/ RequestExpires(q)
    \/ \E i \in DOMAIN f.clients :
          IntervalOver(i) \/ \E e \in {"OK", "error"} : ClientDies(i, e)
    \/ RequeuePendingAlarm \/ Reset \/ ForceCloseAll \/ Destructor

Stopped == ~Running /\ UNCHANGED vars

Spec == Init /\ [][Next \/ Stopped]_vars

\* The alarm is registered again every time, clients resolve what they have
\* (HttpClientProtocol), and time passes.
Fairness ==
    /\ WF_vars(RequeuePendingAlarm)
    /\ \A q \in Requests : WF_vars(ClientStep(q)) /\ WF_vars(RequestExpires(q))

FairSpec == Spec /\ Fairness

-----------------------------------------------------------------------------
(* Through every retry, requeue inside a callback, Reset and shutdown a     *)
(* request that was started and not cancelled is in one place: once in the  *)
(* queue, once at a client, or completed, and then its completion closure   *)
(* has run once.  The CHECK that an empty queue has an empty pending_map_   *)
(* (failsafe_http_client.cc:159) holds.                                     *)
RequestInOnePlace ==
    /\ ~f.aborted
    /\ \A q \in f.started :
          Cardinality({k \in DOMAIN f.pending : f.pending[k] = q /\ q \in f.map})
          + Cardinality({<<i, k>> \in (1..NumServers) \X (1..MaxConcurrent) :
                            i \in DOMAIN f.load /\ k \in DOMAIN f.load[i] /\ f.load[i][k] = q})
          + f.completions[q] = IF q \in f.cancelled THEN 0 ELSE 1

(* A request that is started is completed or cancelled in the end, whatever *)
(* servers fail and whatever waits before it (the alarm that requeues, the  *)
(* timeout of the ones that never get a turn).                              *)
RequestCompletes ==
    \A q \in Requests :
        q \in f.started ~> (f.completions[q] > 0 \/ q \in f.cancelled \/ f.aborted)
=============================================================================
