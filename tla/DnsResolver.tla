---------------------------- MODULE DnsResolver ----------------------------
(***************************************************************************)
(* The asynchronous resolver of whisperlib/net/dns_resolver.cc.  A client  *)
(* asks for a host and waits for its handler to be run in its selector, or *)
(* cancels.  The first query for a host starts a thread; queries for the   *)
(* same host join the list of that thread.  Everything but the thread's    *)
(* first look at its query happens under mutex_.                           *)
(***************************************************************************)
EXTENDS Integers, Sequences, FiniteSets, SequencesExt

CONSTANTS
    Clients,        \* each asks once: a client is its handler and its Query
    Hosts,
    CancelAllowed   \* whether clients may call DnsCancel

NoHost == "none"

VARIABLES
    host,               \* the host a client asked for
    request,            \* "idle", "pending", "answered" or "cancelled"
    query,              \* the Query: "none", "live", "nullHandler" or "freed"
    query_map_,         \* the clients whose Query can be found for Cancel
    waiting_queries_,   \* the clients waiting for a host; <<>>: no entry
    cache_,             \* "none", or the result "found" or "failed"
    thread,             \* "none", "start", "resolve", "abandon" or "done"
    posted,             \* clients with a Return closure in their selector
    usedFreed,          \* observation: a freed Query was read
    lateAnswers         \* observation: run after a Cancel that came too late

dnsVars == <<host, request, query, query_map_, waiting_queries_, cache_, thread, posted,
          usedFreed, lateAnswers>>

(* The type invariant. *)
DnsTypeOK ==
    /\ host \in [Clients -> Hosts \cup {NoHost}]
    /\ request \in [Clients -> {"idle", "pending", "answered", "cancelled"}]
    /\ query \in [Clients -> {"none", "live", "nullHandler", "freed"}]
    /\ query_map_ \subseteq Clients /\ posted \subseteq Clients
    /\ waiting_queries_ \in [Hosts -> Seq(Clients)]
    /\ cache_ \in [Hosts -> {"none", "found", "failed"}]
    /\ thread \in [Clients -> {"none", "start", "resolve", "abandon", "done"}]

DnsInit ==
    /\ host = [c \in Clients |-> NoHost] /\ request = [c \in Clients |-> "idle"]
    /\ query = [c \in Clients |-> "none"] /\ query_map_ = {}
    /\ waiting_queries_ = [h \in Hosts |-> <<>>] /\ cache_ = [h \in Hosts |-> "none"]
    /\ thread = [c \in Clients |-> "none"] /\ posted = {}
    /\ usedFreed = FALSE /\ lateAnswers = {}

-----------------------------------------------------------------------------
Asks(c, h) ==
    /\ request[c] = "idle"
    /\ request' = [request EXCEPT ![c] = "pending"]
    /\ host' = [host EXCEPT ![c] = h]

\* A cached result is returned unless it is a failure that has expired.
ResolveFromCache(c, h) ==
    /\ Asks(c, h)
    /\ cache_[h] # "none"
    /\ posted' = posted \cup {c}
    /\ UNCHANGED <<query, query_map_, waiting_queries_, cache_, thread, usedFreed, lateAnswers>>

\* Nothing in the cache, or what is there has expired, or was dropped as the least
\* recently used.  A thread is started when there is no list for the host yet.
ResolveByThread(c, h) ==
    /\ Asks(c, h)
    /\ cache_' = [cache_ EXCEPT ![h] = "none"]
    /\ query' = [query EXCEPT ![c] = "live"]
    /\ query_map_' = query_map_ \cup {c}
    /\ waiting_queries_' = [waiting_queries_ EXCEPT ![h] = Append(@, c)]
    /\ thread' = [thread EXCEPT ![c] = IF waiting_queries_[h] = <<>> THEN "start" ELSE @]
    /\ UNCHANGED <<posted, usedFreed, lateAnswers>>

\* Cancel finds nothing once the query was answered into the selector.
Cancel(c) ==
    /\ CancelAllowed
    /\ request[c] = "pending"
    /\ request' = [request EXCEPT ![c] = "cancelled"]
    /\ IF c \in query_map_
       THEN /\ usedFreed' = (usedFreed \/ query[c] = "freed")
            /\ query' = [query EXCEPT ![c] = "nullHandler"]
       ELSE UNCHANGED <<query, usedFreed>>
    /\ UNCHANGED <<host, query_map_, waiting_queries_, cache_, thread, posted, lateAnswers>>

\* Run reads result_handler_ without the mutex.
RunLooks(c) ==
    /\ thread[c] = "start"
    /\ thread' = [thread EXCEPT ![c] = IF query[c] = "nullHandler" THEN "abandon" ELSE "resolve"]
    /\ usedFreed' = (usedFreed \/ query[c] = "freed")
    /\ UNCHANGED <<host, request, query, query_map_, waiting_queries_, cache_, posted, lateAnswers>>

\* The list is dropped when the cancelled query is alone in it; in any case the
\* thread deletes the query and ends.
RunAbandons(c) ==
    /\ thread[c] = "abandon"
    /\ waiting_queries_' = [waiting_queries_ EXCEPT ![host[c]] = IF Len(@) = 1 THEN <<>> ELSE @]
    /\ query' = [query EXCEPT ![c] = "freed"]
    /\ thread' = [thread EXCEPT ![c] = "done"]
    /\ UNCHANGED <<host, request, query_map_, cache_, posted, usedFreed, lateAnswers>>

\* The answer goes to everybody in the list who has not cancelled.
Answered(h) == {q \in Range(waiting_queries_[h]) : query[q] # "nullHandler"}

\* Variant: the answered queries can still be found for Cancel.
RunAnswersKeepsMap(c) ==
    /\ thread[c] = "resolve"
    /\ LET h == host[c]
           waiters == Range(waiting_queries_[h])
       IN  /\ \E result \in {"found", "failed"} : cache_' = [cache_ EXCEPT ![h] = result]
           /\ usedFreed' = (usedFreed \/ \E q \in waiters : query[q] = "freed")
           /\ posted' = posted \cup Answered(h)
           /\ query' = [q \in Clients |-> IF q \in waiters THEN "freed" ELSE query[q]]
           /\ waiting_queries_' = [waiting_queries_ EXCEPT ![h] = <<>>]
    /\ thread' = [thread EXCEPT ![c] = "done"]
    /\ UNCHANGED <<host, request, query_map_, lateAnswers>>

RunAnswers(c) ==
    /\ thread[c] = "resolve"
    /\ LET h == host[c]
           waiters == Range(waiting_queries_[h])
       IN  /\ \E result \in {"found", "failed"} : cache_' = [cache_ EXCEPT ![h] = result]
           /\ usedFreed' = (usedFreed \/ \E q \in waiters : query[q] = "freed")
           /\ posted' = posted \cup Answered(h)
           /\ query_map_' = query_map_ \ Answered(h)
           /\ query' = [q \in Clients |-> IF q \in waiters THEN "freed" ELSE query[q]]
           /\ waiting_queries_' = [waiting_queries_ EXCEPT ![h] = <<>>]
    /\ thread' = [thread EXCEPT ![c] = "done"]
    /\ UNCHANGED <<host, request, lateAnswers>>

\* The closure that Return added runs the handler.
Deliver(c) ==
    /\ c \in posted
    /\ posted' = posted \ {c}
    /\ request' = [request EXCEPT ![c] = IF @ = "pending" THEN "answered" ELSE @]
    /\ lateAnswers' = IF request[c] = "pending" THEN lateAnswers ELSE lateAnswers \cup {c}
    /\ UNCHANGED <<host, query, query_map_, waiting_queries_, cache_, thread, usedFreed>>

Solver(c) == RunLooks(c) \/ RunAbandons(c) \/ RunAnswers(c)

DnsNext ==
    \E c \in Clients :
        \/ \E h \in Hosts : ResolveFromCache(c, h) \/ ResolveByThread(c, h)
        \/ Cancel(c) \/ Solver(c) \/ Deliver(c)

AllQuiet ==
    /\ \A c \in Clients : request[c] # "idle" /\ thread[c] \notin {"start", "resolve", "abandon"}
    /\ posted = {}
    /\ UNCHANGED dnsVars

DnsSpec ==
    /\ DnsInit /\ [][DnsNext \/ AllQuiet]_dnsVars
    /\ \A c \in Clients : WF_dnsVars(Solver(c)) /\ WF_dnsVars(Deliver(c))

-----------------------------------------------------------------------------
(* No Query is read after its deletion, by a thread that walks the list of  *)
(* its host or by Cancel through query_map_ (dns_resolver.cc:158, 164, 187),*)
(* and every list with a query that somebody waits for has a thread, unless *)
(* the thread left because its own query was cancelled before it looked.    *)
QueriesAlive ==
    /\ ~usedFreed
    /\ \A h \in Hosts : waiting_queries_[h] # <<>> =>
        thread[Head(waiting_queries_[h])] # "none"

(* Every query ends with its answer or with its cancellation                *)
(* (dns_resolver.h:53), whatever the other clients of the same host do.     *)
AnsweredOrCancelled ==
    \A c \in Clients : request[c] = "pending" ~> request[c] # "pending"
=============================================================================
