-------------------------- MODULE DnsAndTcpProofs --------------------------
(***************************************************************************)
(* Proofs about the asynchronous resolver for any set of clients and any   *)
(* set of hosts, with and without cancellation; and about the connection   *)
(* that uses it, for any amount of input and output and any application.   *)
(***************************************************************************)
EXTENDS DnsResolver, TcpConnection, SequenceTheorems, TLAPS

-----------------------------------------------------------------------------
(* The resolver.                                                            *)

\* The thread of c has not finished Run.
Running(c) == thread[c] \in {"start", "resolve", "abandon"}

(* A client that has not asked yet has left no trace.                      *)
IdleUntouched ==
    \A c \in Clients : request[c] = "idle" =>
        query[c] = "none" /\ thread[c] = "none" /\ c \notin query_map_

(* The lists hold queries for their own host, of clients that have asked.  *)
ListsOK ==
    \A h \in Hosts : \A q \in Range(waiting_queries_[h]) :
        host[q] = h /\ request[q] # "idle" /\ query[q] # "none"

(* The first in a list made the thread, and a running thread belongs to    *)
(* the first in the list of its host: one running thread for each host.    *)
ThreadsOK ==
    /\ \A h \in Hosts : waiting_queries_[h] # <<>> =>
          thread[waiting_queries_[h][1]] # "none"
    /\ \A c \in Clients : Running(c) =>
          /\ host[c] \in Hosts
          /\ waiting_queries_[host[c]] # <<>>
          /\ waiting_queries_[host[c]][1] = c

(* A freed query stays in a list only when the thread of the list is gone, *)
(* and in query_map_ only when its client has cancelled.                   *)
FreedOK ==
    /\ \A h \in Hosts : \A q \in Range(waiting_queries_[h]) :
          query[q] = "freed" => ~Running(waiting_queries_[h][1])
    /\ \A c \in query_map_ : query[c] = "freed" => request[c] = "cancelled"
    /\ \A c \in Clients : query[c] = "nullHandler" => request[c] = "cancelled"
    /\ \A c \in Clients : thread[c] = "abandon" => query[c] = "nullHandler"

Inv ==
    /\ DnsTypeOK /\ IdleUntouched /\ ListsOK /\ ThreadsOK /\ FreedOK
    /\ usedFreed = FALSE

(* What a list holds: clients, the first among them.                       *)
LEMMA FirstInList ==
    ASSUME NEW S, NEW s \in Seq(S)
    PROVE  /\ Range(s) \subseteq S
           /\ s # <<>> => s[1] \in Range(s) /\ s[1] = Head(s)
<1>1. Range(s) \subseteq S
  BY RangeOfSeq
<1>2. s # <<>> => 1 \in 1 .. Len(s) /\ s[1] = Head(s)
  OBVIOUS
<1> QED BY <1>1, <1>2, RangeEquality

(* What a list holds after push_back (dns_resolver.cc, Resolve).           *)
LEMMA RangeOfAppend ==
    ASSUME NEW S, NEW s \in Seq(S), NEW x \in S
    PROVE  /\ Append(s, x) \in Seq(S) /\ Append(s, x) # <<>>
           /\ Range(Append(s, x)) = Range(s) \cup {x}
           /\ Append(s, x)[1] = IF s = <<>> THEN x ELSE s[1]
<1>1. /\ Append(s, x) \in Seq(S) /\ Append(s, x) # <<>>
      /\ Len(Append(s, x)) = Len(s) + 1
      /\ \A i \in 1 .. Len(s) : Append(s, x)[i] = s[i]
      /\ Append(s, x)[Len(s) + 1] = x
  BY AppendProperties
<1>2. Range(Append(s, x)) = {Append(s, x)[i] : i \in 1 .. Len(Append(s, x))}
  BY <1>1, RangeEquality
<1>3. Range(s) = {s[i] : i \in 1 .. Len(s)}
  BY RangeEquality
<1>4. Len(s) \in Nat /\ 1 .. Len(s) + 1 = (1 .. Len(s)) \cup {Len(s) + 1}
  OBVIOUS
<1>5. Range(Append(s, x)) = Range(s) \cup {x}
  BY <1>1, <1>2, <1>3, <1>4
<1>6. Append(s, x)[1] = IF s = <<>> THEN x ELSE s[1]
  <2>1. CASE s = <<>>
    BY <2>1, <1>1
  <2>2. CASE s # <<>>
    BY <2>2, <1>1, 1 \in 1 .. Len(s)
  <2> QED BY <2>1, <2>2
<1> QED BY <1>1, <1>5, <1>6

(* A list that was dropped holds nobody.                                   *)
LEMMA EmptyRange == Range(<<>>) = {}
  BY DEF Range

(* The resolver starts with no query, no list and no thread.               *)
LEMMA InitInv == DnsInit => Inv
  BY DEF DnsInit, Inv, DnsTypeOK, IdleUntouched, ListsOK, ThreadsOK, FreedOK, Running,
     Range, NoHost

(* An answer from the cache touches no query and no list. *)
LEMMA ResolveFromCacheInv ==
    ASSUME Inv, NEW c \in Clients, NEW h \in Hosts, ResolveFromCache(c, h)
    PROVE  Inv'
<1> USE FirstInList DEF Inv, DnsTypeOK, ResolveFromCache, Asks
<1>1. DnsTypeOK' /\ ~usedFreed' OBVIOUS
<1>2. IdleUntouched' BY DEF IdleUntouched
<1>3. ListsOK' BY DEF ListsOK, IdleUntouched
<1>4. ThreadsOK' BY DEF ThreadsOK, Running, IdleUntouched
<1>5. FreedOK' BY DEF FreedOK, Running, IdleUntouched
<1> QED BY <1>1, <1>2, <1>3, <1>4, <1>5

(* A new query joins the list of its host, and starts the thread when it is first. *)
LEMMA ResolveByThreadInv ==
    ASSUME Inv, NEW c \in Clients, NEW h \in Hosts, ResolveByThread(c, h)
    PROVE  Inv'
<1> USE FirstInList DEF Inv, DnsTypeOK, ResolveByThread, Asks
<1> USE RangeOfAppend
<1>1. DnsTypeOK' /\ ~usedFreed' OBVIOUS
<1>2. IdleUntouched' BY DEF IdleUntouched
<1>3. ListsOK' BY DEF ListsOK, IdleUntouched
<1>4. ThreadsOK' BY DEF ThreadsOK, Running, ListsOK, IdleUntouched
<1>5. FreedOK'
  <2>1. \A g \in Hosts : \A q \in Range(waiting_queries_'[g]) :
            query'[q] = "freed" => ~Running(waiting_queries_[g][1])'
    <3> SUFFICES ASSUME NEW g \in Hosts, NEW q \in Range(waiting_queries_'[g]), query'[q] = "freed"
                 PROVE  ~Running(waiting_queries_[g][1])'
      OBVIOUS
    <3>1. q # c /\ q \in Range(waiting_queries_[g]) /\ query[q] = "freed"
      BY DEF ListsOK
    <3>2. waiting_queries_[g] # <<>> /\ waiting_queries_[g][1] # c
      BY <3>1, EmptyRange DEF ListsOK
    <3>3. waiting_queries_'[g][1] = waiting_queries_[g][1]
      BY <3>2
    <3> QED BY <3>1, <3>2, <3>3 DEF FreedOK, Running
  <2> QED BY <2>1 DEF FreedOK, IdleUntouched
<1> QED BY <1>1, <1>2, <1>3, <1>4, <1>5

(* Cancel finds only queries that nobody has freed. *)
LEMMA CancelInv ==
    ASSUME Inv, NEW c \in Clients, Cancel(c)
    PROVE  Inv'
<1> USE FirstInList DEF Inv, DnsTypeOK, Cancel
<1>1. DnsTypeOK' /\ ~usedFreed' BY DEF FreedOK
<1>2. IdleUntouched' BY DEF IdleUntouched
<1>3. ListsOK' BY DEF ListsOK, IdleUntouched
<1>4. ThreadsOK' BY DEF ThreadsOK, Running, IdleUntouched
<1>5. FreedOK' BY DEF FreedOK, Running, ThreadsOK
<1> QED BY <1>1, <1>2, <1>3, <1>4, <1>5

(* The thread looks at the first query of its list, which nobody else frees. *)
LEMMA RunLooksInv ==
    ASSUME Inv, NEW c \in Clients, RunLooks(c)
    PROVE  Inv'
<1> USE FirstInList DEF Inv, DnsTypeOK, RunLooks
<1>0. Running(c) /\ query[c] # "freed"
  BY DEF FreedOK, ThreadsOK, Running
<1>1. DnsTypeOK' /\ ~usedFreed' BY <1>0
<1>2. IdleUntouched' BY DEF IdleUntouched
<1>3. ListsOK' BY DEF ListsOK
<1>4. ThreadsOK' BY DEF ThreadsOK, Running
<1>5. FreedOK' BY DEF FreedOK, Running
<1> QED BY <1>1, <1>2, <1>3, <1>4, <1>5

(* The abandoned list keeps the freed query and has no thread to read it. *)
LEMMA RunAbandonsInv ==
    ASSUME Inv, NEW c \in Clients, RunAbandons(c)
    PROVE  Inv'
<1> USE FirstInList DEF Inv, DnsTypeOK, RunAbandons
<1> DEFINE h == host[c]
<1>0. /\ h \in Hosts
      /\ waiting_queries_[h] # <<>> /\ waiting_queries_[h][1] = c
  BY DEF ThreadsOK, Running
<1>a. /\ waiting_queries_'[h] \in {<<>>, waiting_queries_[h]}
      /\ \A g \in Hosts \ {h} : waiting_queries_'[g] = waiting_queries_[g]
      /\ \A g \in Hosts : Range(waiting_queries_'[g]) \subseteq Range(waiting_queries_[g])
  BY <1>0, EmptyRange
<1>b. \A g \in Hosts \ {h} : c \notin Range(waiting_queries_[g])
  BY <1>0 DEF ListsOK
<1>1. DnsTypeOK' /\ ~usedFreed' BY <1>0
<1>2. IdleUntouched' BY DEF IdleUntouched
<1>3. ListsOK'
  <2> SUFFICES ASSUME NEW g \in Hosts, NEW q \in Range(waiting_queries_[g])
               PROVE  host'[q] = g /\ request'[q] # "idle" /\ query'[q] # "none"
    BY <1>a DEF ListsOK
  <2> QED BY DEF ListsOK
<1>4. ThreadsOK' BY <1>0, <1>a DEF ThreadsOK, Running
<1>5. FreedOK'
  <2>1. \A g \in Hosts : \A q \in Range(waiting_queries_'[g]) :
            query'[q] = "freed" => ~Running(waiting_queries_[g][1])'
    <3> SUFFICES ASSUME NEW g \in Hosts, NEW q \in Range(waiting_queries_'[g]), query'[q] = "freed"
                 PROVE  ~Running(waiting_queries_[g][1])'
      OBVIOUS
    <3>1. CASE g = h
      BY <3>1, <1>0, <1>a, EmptyRange DEF Running
    <3>2. CASE g # h
      <4>1. q \in Range(waiting_queries_[g]) /\ query[q] = "freed"
        BY <3>2, <1>a, <1>b
      <4> QED BY <4>1, <3>2, <1>a DEF FreedOK, Running
    <3> QED BY <3>1, <3>2
  <2>2. \A d \in query_map_' : query'[d] = "freed" => request'[d] = "cancelled"
    BY DEF FreedOK
  <2> QED BY <2>1, <2>2 DEF FreedOK
<1> QED BY <1>1, <1>2, <1>3, <1>4, <1>5

(* The answer frees the queries of one list, which is dropped with them. *)
LEMMA RunAnswersInv ==
    ASSUME Inv, NEW c \in Clients, RunAnswers(c)
    PROVE  Inv'
<1> USE FirstInList DEF Inv, DnsTypeOK
<1> DEFINE h == host[c]
           waiters == Range(waiting_queries_[h])
<1>0. /\ Running(c) /\ h \in Hosts
      /\ waiting_queries_[h] # <<>> /\ waiting_queries_[h][1] = c
      /\ waiters \subseteq Clients
  BY DEF ThreadsOK, Running, RunAnswers
<1>a. /\ waiting_queries_' = [waiting_queries_ EXCEPT ![h] = <<>>]
      /\ query' = [q \in Clients |-> IF q \in waiters THEN "freed" ELSE query[q]]
      /\ thread' = [thread EXCEPT ![c] = "done"]
      /\ query_map_' = query_map_ \ Answered(h)
      /\ UNCHANGED <<host, request>>
  BY DEF RunAnswers
<1>b. /\ Range(waiting_queries_'[h]) = {}
      /\ \A g \in Hosts \ {h} : waiting_queries_'[g] = waiting_queries_[g]
  BY <1>0, <1>a, EmptyRange
<1>c. \A g \in Hosts \ {h} : \A q \in Range(waiting_queries_[g]) :
          q \in Clients /\ q \notin waiters /\ query'[q] = query[q]
  BY <1>0, <1>a DEF ListsOK
<1>1. DnsTypeOK' /\ ~usedFreed'
  <2>1. \A q \in waiters : query[q] # "freed"
    BY <1>0 DEF FreedOK
  <2>2. usedFreed' = FALSE
    BY <2>1 DEF RunAnswers
  <2>3. Answered(h) \subseteq Clients
    BY <1>0 DEF Answered
  <2> QED BY <2>2, <2>3, <1>0 DEF RunAnswers
<1>2. IdleUntouched'
  BY <1>0, <1>a DEF IdleUntouched, ListsOK
<1>3. ListsOK'
  <2> SUFFICES ASSUME NEW g \in Hosts, NEW q \in Range(waiting_queries_'[g])
               PROVE  host'[q] = g /\ request'[q] # "idle" /\ query'[q] # "none"
    BY DEF ListsOK
  <2>1. g # h /\ q \in Range(waiting_queries_[g]) /\ query'[q] = query[q]
    BY <1>b, <1>c
  <2> QED BY <2>1, <1>a DEF ListsOK
<1>4. ThreadsOK'
  <2>1. \A g \in Hosts : waiting_queries_'[g] # <<>> => thread'[waiting_queries_'[g][1]] # "none"
    BY <1>0, <1>a, <1>b DEF ThreadsOK
  <2>2. \A d \in Clients : Running(d)' => Running(d) /\ d # c /\ host[d] # h
    BY <1>0, <1>a DEF ThreadsOK, Running
  <2> QED BY <2>1, <2>2, <1>a, <1>b DEF ThreadsOK
<1>5. FreedOK'
  <2>1. \A g \in Hosts : \A q \in Range(waiting_queries_'[g]) :
            query'[q] = "freed" => ~Running(waiting_queries_[g][1])'
    <3> SUFFICES ASSUME NEW g \in Hosts, NEW q \in Range(waiting_queries_'[g]), query'[q] = "freed"
                 PROVE  ~Running(waiting_queries_[g][1])'
      OBVIOUS
    <3>1. g # h /\ q \in Range(waiting_queries_[g]) /\ query[q] = "freed"
      BY <1>b, <1>c
    <3>2. ~Running(waiting_queries_[g][1])
      BY <3>1 DEF FreedOK
    <3>3. waiting_queries_'[g][1] \in Clients
          /\ waiting_queries_'[g][1] = waiting_queries_[g][1]
      BY <3>1, <1>b, EmptyRange
    <3> QED BY <3>2, <3>3, <1>a DEF Running
  <2>2. \A d \in query_map_' : query'[d] = "freed" => request'[d] = "cancelled"
    BY <1>a DEF FreedOK, Answered
  <2>3. \A d \in Clients : query'[d] = "nullHandler" => request'[d] = "cancelled"
    BY <1>a DEF FreedOK
  <2>4. \A d \in Clients : thread'[d] = "abandon" => query'[d] = "nullHandler"
    BY <1>0, <1>a DEF FreedOK, ThreadsOK, ListsOK, Running
  <2> QED BY <2>1, <2>2, <2>3, <2>4 DEF FreedOK
<1> QED BY <1>1, <1>2, <1>3, <1>4, <1>5

(* The handler of a client runs: nothing of the resolver changes. *)
LEMMA DeliverInv ==
    ASSUME Inv, NEW c \in Clients, Deliver(c)
    PROVE  Inv'
<1> USE FirstInList DEF Inv, DnsTypeOK, Deliver
<1>1. DnsTypeOK' /\ ~usedFreed' OBVIOUS
<1>2. IdleUntouched' BY DEF IdleUntouched
<1>3. ListsOK' BY DEF ListsOK, IdleUntouched
<1>4. ThreadsOK' BY DEF ThreadsOK, Running, IdleUntouched
<1>5. FreedOK' BY DEF FreedOK, Running
<1> QED BY <1>1, <1>2, <1>3, <1>4, <1>5

(* The invariant holds in every reachable state.                           *)
LEMMA InvHolds == DnsSpec => []Inv
<1>1. ASSUME Inv, [DnsNext \/ AllQuiet]_dnsVars PROVE Inv'
  <2>1. CASE UNCHANGED dnsVars
    BY <1>1, <2>1 DEF Inv, DnsTypeOK, IdleUntouched, ListsOK, ThreadsOK, FreedOK,
       Running, dnsVars
  <2>2. CASE DnsNext
    BY <1>1, <2>2, ResolveFromCacheInv, ResolveByThreadInv, CancelInv, RunLooksInv,
       RunAbandonsInv, RunAnswersInv, DeliverInv DEF DnsNext, Solver
  <2> QED BY <1>1, <2>1, <2>2 DEF AllQuiet
<1> QED BY <1>1, InitInv, PTL DEF DnsSpec

(* The lists, the maps and the threads of the resolver keep their types.   *)
THEOREM TypeCorrect == DnsSpec => []DnsTypeOK
<1>1. Inv => DnsTypeOK
  BY DEF Inv
<1> QED BY <1>1, InvHolds, PTL

(* No thread and no Cancel reads a Query that was deleted, and every list  *)
(* of waiting queries had a thread, however the clients of all the hosts   *)
(* ask, cancel and are answered (dns_resolver.cc:158, 164, 187).           *)
THEOREM NoFreedQueryRead == DnsSpec => []QueriesAlive
<1>1. Inv => QueriesAlive
  BY FirstInList DEF Inv, DnsTypeOK, ThreadsOK, QueriesAlive
<1> QED BY <1>1, InvHolds, PTL

-----------------------------------------------------------------------------
(* The connection.                                                           *)

OpenStates == {"CONNECTING", "CONNECTED", "FLUSHING"}

\* Output that may be lost: closed without a flush, or the write half is gone.
MayLose(x, q) == x.forced \/ q.conn = "dead" \/ q.shut

\* What every handler keeps of a connection x over a socket q, so that output is
\* lost only where MayLose says so.
Kept(x, q) ==
    /\ x.fd <=> x.state \in OpenStates
    /\ x.linger => q.shut
    /\ x.state # "DISCONNECTED" => x.begun /\ q.sent + x.out = x.written
    /\ x.state = "RESOLVING" => x.out = 0
    /\ ~x.begun => x.out = 0 /\ x.written = 0 /\ q.sent = 0
    /\ x.begun /\ x.state = "DISCONNECTED" /\ q.sent < x.written => MayLose(x, q)

Sound(x, q) == x \in Connections /\ Kept(x, q)

\* The snapshot of the events that is being dispatched is still true of the socket.
EventsTrue ==
    /\ step # "poll" => tcp.fd
    /\ "ERR" \in ev => socket.conn = "dead"
    /\ "HUP" \in ev => socket.conn = "dead" \/ socket.shut
    /\ "RDHUP" \in ev => "IN" \in ev
    /\ ~tcp.begun \/ tcp.state = "RESOLVING" => ev = {}

TcpInv == TcpTypeOK /\ Kept(tcp, socket) /\ EventsTrue

\* A closed connection has told so once, and after that calls nobody but, once and
\* only where it was closed by hand, the close handler with CLOSE_READ.
ToldOnce(x) ==
    /\ x.closes = IF x.begun /\ x.state = "DISCONNECTED" THEN 1 ELSE 0
    /\ ~x.after
    /\ x.late <= x.closes /\ (x.late > 0 => x.forced)

\* In the read event that x is in nobody has been called late yet, and if x is
\* closed it was closed by hand.
Fresh(x) == x.late = 0 /\ (x.closes > 0 => x.forced)

-----------------------------------------------------------------------------

LEMMA WantSound ==
    ASSUME NEW x, NEW q \in Sockets, NEW E \in SUBSET {"r", "w"}, Sound(x, q)
    PROVE  /\ Sound(Want(x, E), q)
           /\ Want(x, E).state = x.state /\ Want(x, E).begun = x.begun
           /\ Want(x, E).fd = x.fd /\ Want(x, E).out = x.out
           /\ Want(x, E).written = x.written /\ Want(x, E).linger = x.linger
           /\ Want(x, E).write_closed = x.write_closed
           /\ Want(x, E).want \in SUBSET {"r", "w"}
           /\ ToldOnce(x) => ToldOnce(Want(x, E))
           /\ Fresh(x) => Fresh(Want(x, E))
BY DEF Want, Sound, Kept, Connections, MayLose, ToldOnce, Fresh

LEMMA InternalCloseSound ==
    ASSUME NEW x, NEW q \in Sockets, Sound(x, q), x.begun,
           MayLose(x, q) \/ x.out = 0
    PROVE  /\ Sound(InternalClose(x, TRUE), q)
           /\ InternalClose(x, TRUE).begun
           /\ InternalClose(x, TRUE).state = "DISCONNECTED"
           /\ ToldOnce(x) => ToldOnce(InternalClose(x, TRUE))
           /\ InternalClose(x, TRUE).late = x.late
           /\ InternalClose(x, TRUE).forced = x.forced
<1>1. CASE x.state = "DISCONNECTED"
  BY <1>1 DEF InternalClose, Sound, Kept, Connections, MayLose, ToldOnce, OpenStates
<1>2. CASE x.state # "DISCONNECTED"
  <2> DEFINE z == [x EXCEPT !.dns = FALSE, !.fd = FALSE, !.state = "DISCONNECTED", !.want = {},
                            !.read_closed = TRUE, !.write_closed = TRUE, !.linger = FALSE,
                            !.out = 0, !.closes = @ + 1]
  <2>1. InternalClose(x, TRUE) = z
    BY <1>2 DEF InternalClose, Sound, Connections
  <2>2. z \in Connections
    <3>1. x.closes + 1 \in Nat /\ 0 \in 0..MaxOut /\ "DISCONNECTED" \in States
      BY TcpParameters DEF Sound, Connections, States
    <3>2. {} \in SUBSET {"r", "w"}
      OBVIOUS
    <3>3. QED
      BY <3>1, <3>2 DEF Sound, Connections
  <2>3. /\ ~z.fd /\ ~z.linger /\ z.state = "DISCONNECTED" /\ z.begun = x.begun
        /\ z.written = x.written /\ z.forced = x.forced
        /\ z.closes = x.closes + 1 /\ z.after = x.after /\ z.late = x.late
        /\ x.closes \in Nat /\ x.late \in Nat
    BY DEF Sound, Connections
  <2>4. q.sent < x.written => MayLose(x, q)
    BY <1>2, TcpParameters DEF Sound, Connections, Kept, Sockets
  <2> HIDE DEF z
  <2>5. Kept(z, q)
    BY <2>3, <2>4 DEF Kept, MayLose, OpenStates
  <2>6. ToldOnce(x) => ToldOnce(z)
    BY <1>2, <2>3 DEF ToldOnce
  <2>7. QED
    BY <2>1, <2>2, <2>3, <2>5, <2>6 DEF Sound
<1>3. QED
  BY <1>1, <1>2

LEMMA ForcedSound ==
    ASSUME NEW x, NEW q \in Sockets, Sound(x, q), x.begun
    PROVE  /\ Sound(ForceClose(x), q) /\ ForceClose(x).begun
           /\ ForceClose(x).state = "DISCONNECTED"
           /\ ToldOnce(x) => ToldOnce(ForceClose(x))
           /\ Fresh(x) => Fresh(ForceClose(x))
<1> DEFINE y == [x EXCEPT !.forced = TRUE]
<1>1. Sound(y, q) /\ y.begun /\ MayLose(y, q) /\ (ToldOnce(x) => ToldOnce(y))
      /\ y.forced /\ y.late = x.late
  BY DEF Sound, Kept, Connections, MayLose, ToldOnce
<1>2. ForceClose(x) = InternalClose(y, TRUE)
  BY DEF ForceClose
<1> HIDE DEF y
<1>3. QED
  BY <1>1, <1>2, InternalCloseSound DEF Fresh

LEMMA FlushSound ==
    ASSUME NEW x, NEW q \in Sockets, Sound(x, q), x.begun
    PROVE  /\ Sound(Close(x), q) /\ Close(x).begun
           /\ Close(x).fd = x.fd
           /\ Close(x).state = "RESOLVING" => x.state = "RESOLVING"
           /\ ToldOnce(x) => ToldOnce(Close(x))
           /\ Fresh(x) => Fresh(Close(x))
<1> DEFINE y == [x EXCEPT !.state = "FLUSHING"]
<1>1. CASE ~x.fd \/ x.write_closed
  BY <1>1 DEF Close, Sound, Kept, Connections, MayLose, ToldOnce, Fresh
<1>2. CASE x.fd /\ ~x.write_closed
  <2>1. Sound(y, q) /\ y.begun /\ y.fd /\ y.state = "FLUSHING"
        /\ (ToldOnce(x) => ToldOnce(y)) /\ (Fresh(x) => Fresh(y))
    BY <1>2 DEF Sound, Kept, Connections, MayLose, ToldOnce, Fresh, OpenStates, States
  <2>2. PICK E \in SUBSET {"r", "w"} : E = x.want \cup {"w"}
    BY DEF Sound, Connections
  <2>3. Close(x) = Want(y, E)
    BY <1>2, <2>2 DEF Close
  <2>4. y.fd = x.fd
    BY DEF Sound, Connections
  <2> HIDE DEF y
  <2>5. /\ Sound(Want(y, E), q) /\ Want(y, E).state = y.state /\ Want(y, E).begun = y.begun
        /\ Want(y, E).fd = y.fd /\ (ToldOnce(y) => ToldOnce(Want(y, E)))
        /\ (Fresh(y) => Fresh(Want(y, E)))
    BY <2>1, WantSound
  <2>6. QED
    BY <2>1, <2>3, <2>4, <2>5
<1>3. QED
  BY <1>1, <1>2

LEMMA WriteSound ==
    ASSUME NEW x, NEW q \in Sockets, Sound(x, q),
           x.written < MaxOut, x.state \in {"CONNECTED", "FLUSHING"}
    PROVE  /\ Sound(Write(x), q) /\ Write(x).begun /\ Write(x).state = x.state
           /\ ToldOnce(x) => ToldOnce(Write(x))
           /\ Fresh(x) => Fresh(Write(x))
<1> DEFINE y == [x EXCEPT !.out = @ + 1, !.written = @ + 1]
<1>1. Sound(y, q) /\ y.begun /\ y.state = x.state /\ (ToldOnce(x) => ToldOnce(y))
      /\ (Fresh(x) => Fresh(y))
  <2>1. x.out \in 0..MaxOut /\ x.written \in 0..MaxOut /\ x.out <= x.written
        /\ q.sent \in 0..MaxOut /\ q.sent + x.out = x.written
    BY TcpParameters DEF Sound, Connections, Kept, Sockets
  <2>2. y.out \in 0..MaxOut /\ y.written \in 0..MaxOut /\ q.sent + y.out = y.written
    BY <2>1, TcpParameters DEF Sound, Connections
  <2>3. y \in Connections
    BY <2>2 DEF Sound, Connections
  <2>4. QED
    BY <2>2, <2>3 DEF Sound, Kept, Connections, MayLose, ToldOnce, Fresh, OpenStates
<1>2. PICK E \in SUBSET {"r", "w"} : E = x.want \cup {"w"}
  BY DEF Sound, Connections
<1>3. Write(x) = Want(y, E)
  BY <1>2 DEF Write
<1> HIDE DEF y
<1>4. QED
  BY <1>1, <1>3, WantSound

LEMMA AppCallsSound ==
    ASSUME NEW x, NEW q \in Sockets, Sound(x, q), x.begun, NEW y \in AppCalls(x)
    PROVE  /\ Sound(y, q) /\ y.begun
           /\ y.state = "RESOLVING" => x.state = "RESOLVING"
           /\ ToldOnce(x) => ToldOnce(y)
           /\ Fresh(x) => Fresh(y)
<1>1. CASE y = x
  BY <1>1
<1>2. CASE y = Write(x) /\ x.written < MaxOut /\ x.state \in {"CONNECTED", "FLUSHING"}
  BY <1>2, WriteSound
<1>3. CASE y = Close(x)
  BY <1>3, FlushSound
<1>4. CASE y = ForceClose(x)
  BY <1>4, ForcedSound
<1>5. QED
  BY <1>1, <1>2, <1>3, <1>4 DEF AppCalls

\* A handler runs in an open connection: the observer of late callbacks stays as it is.
LEMMA InvokeSound ==
    ASSUME NEW x, NEW q \in Sockets, Sound(x, q), x.begun
    PROVE  /\ Sound(InvokeHandler(x), q) /\ InvokeHandler(x).begun
           /\ InvokeHandler(x).state = x.state
           /\ InvokeHandler(x).fd = x.fd
           /\ x.fd /\ ToldOnce(x) => ToldOnce(InvokeHandler(x)) /\ Fresh(InvokeHandler(x))
<1>1. InvokeHandler(x).after = (x.after \/ x.closes > 0)
  BY DEF InvokeHandler, Sound, Connections
<1>2. InvokeHandler(x) \in Connections /\ Kept(InvokeHandler(x), q)
  BY DEF InvokeHandler, Sound, Connections, Kept, MayLose
<1>3. x.fd /\ ToldOnce(x) => ToldOnce(InvokeHandler(x)) /\ Fresh(InvokeHandler(x))
  BY <1>1 DEF InvokeHandler, Sound, Connections, Kept, ToldOnce, Fresh, OpenStates
<1>4. QED
  BY <1>2, <1>3 DEF InvokeHandler, Sound, Connections

LEMMA InvokeHalfSound ==
    ASSUME NEW x, NEW q \in Sockets, Sound(x, q), x.begun
    PROVE  /\ Sound(InvokeHalfClose(x), q) /\ InvokeHalfClose(x).begun
           /\ InvokeHalfClose(x).state = x.state
           /\ ToldOnce(x) /\ Fresh(x) => ToldOnce(InvokeHalfClose(x))
<1>2. x.late \in Nat /\ x.closes \in Nat
  BY DEF Sound, Connections
<1>0. PICK n \in Nat : n = IF x.closes > 0 THEN x.late + 1 ELSE x.late
  BY <1>2
<1> DEFINE y == [x EXCEPT !.late = n]
<1>1. InvokeHalfClose(x) = y
  BY <1>0 DEF InvokeHalfClose
<1>3. /\ y \in Connections /\ y.late = n
      /\ y.closes = x.closes /\ y.after = x.after /\ y.forced = x.forced
      /\ y.begun = x.begun /\ y.state = x.state /\ y.fd = x.fd /\ y.linger = x.linger
      /\ y.out = x.out /\ y.written = x.written
  BY DEF Sound, Connections
<1> HIDE DEF y
<1>4. Kept(y, q)
  BY <1>3 DEF Sound, Kept, MayLose
<1>5. ToldOnce(x) /\ Fresh(x) => ToldOnce(y)
  BY <1>0, <1>2, <1>3 DEF ToldOnce, Fresh
<1>6. QED
  BY <1>1, <1>3, <1>4, <1>5 DEF Sound

LEMMA HandlerSound ==
    ASSUME NEW x, NEW q \in Sockets, Sound(x, q), x.begun,
           NEW res \in ReadHandlerResults(x) \cup WriteHandlerResults(x)
    PROVE  /\ Sound(res.conn, q) /\ res.conn.begun
           /\ res.conn.state = "RESOLVING" => x.state = "RESOLVING"
           /\ ToldOnce(x) => ToldOnce(res.conn)
           /\ Fresh(x) => Fresh(res.conn)
<1>1. res.conn \in AppCalls(x)
  BY DEF ReadHandlerResults, WriteHandlerResults
<1>2. QED
  BY <1>1, AppCallsSound

\* The close handler that is told of the read half runs late only where the read
\* handler before it closed the connection.
LEMMA HalfClosedSound ==
    ASSUME NEW x, NEW q \in Sockets, Sound(x, q), x.begun, x.state # "RESOLVING",
           NEW z \in HalfClosed(x)
    PROVE  /\ Sound(z, q) /\ z.begun
           /\ z.state # "RESOLVING"
           /\ ToldOnce(x) /\ Fresh(x) => ToldOnce(z)
<1>1. CASE ~x.read_closed
  BY <1>1 DEF HalfClosed
<1>2. CASE x.read_closed
  <2>1. PICK v : v = InvokeHalfClose(x)
    OBVIOUS
  <2>2. PICK y \in AppCalls(v) : z = IF y.fd THEN Close(Want(y, y.want \ {"r"})) ELSE y
    BY <1>2, <2>1 DEF HalfClosed
  <2>3. /\ Sound(v, q) /\ v.begun /\ v.state # "RESOLVING"
        /\ ToldOnce(x) /\ Fresh(x) => ToldOnce(v)
    BY <2>1, InvokeHalfSound
  <2>4. Sound(y, q) /\ y.begun /\ y.state # "RESOLVING" /\ (ToldOnce(v) => ToldOnce(y))
    BY <2>2, <2>3, AppCallsSound
  <2>5. PICK E \in SUBSET {"r", "w"} : E = y.want \ {"r"}
    BY <2>4 DEF Sound, Connections
  <2>6. PICK u : u = Want(y, E)
    OBVIOUS
  <2>7. Sound(u, q) /\ u.begun /\ u.state # "RESOLVING" /\ (ToldOnce(y) => ToldOnce(u))
    BY <2>4, <2>6, WantSound
  <2>8. Sound(Close(u), q) /\ Close(u).begun /\ Close(u).state # "RESOLVING"
        /\ (ToldOnce(u) => ToldOnce(Close(u)))
    BY <2>7, FlushSound
  <2>9. QED
    BY <2>2, <2>3, <2>4, <2>5, <2>6, <2>7, <2>8
<1>3. QED
  BY <1>1, <1>2

LEMMA EndOfInputSound ==
    ASSUME NEW x, NEW q \in Sockets, Sound(x, q), x.begun, x.fd, NEW z \in EndOfInput(x)
    PROVE  /\ Sound(z, q) /\ z.begun
           /\ z.state # "RESOLVING"
           /\ ToldOnce(x) => ToldOnce(z)
<1> DEFINE y == [x EXCEPT !.read_closed = @ \/ x.write_closed \/ x.state = "FLUSHING"]
<1>1. x.state \in OpenStates
  BY DEF Sound, Kept
<1>2. /\ Sound(y, q) /\ y.begun /\ y.state # "RESOLVING"
      /\ ToldOnce(x) => ToldOnce(y) /\ Fresh(y)
  BY <1>1 DEF Sound, Kept, Connections, MayLose, ToldOnce, Fresh, OpenStates
<1>3. z \in HalfClosed(y)
  BY DEF EndOfInput
<1> HIDE DEF y
<1>4. QED
  BY <1>2, <1>3, HalfClosedSound

\* The end of a flush: the linger timeout is set where the write half is shut.
LEMMA EmptiedSound ==
    ASSUME NEW x, NEW q \in Sockets, NEW p \in Sockets, Sound(x, q), x.begun,
           p = [q EXCEPT !.shut = @ \/ Shuts(x)]
    PROVE  /\ Sound(Emptied(x), p) /\ Emptied(x).begun
           /\ Emptied(x).state = x.state
           /\ ToldOnce(x) => ToldOnce(Emptied(x))
<1>0. /\ p.sent = q.sent /\ p.conn = q.conn /\ (q.shut \/ Shuts(x) => p.shut)
  BY DEF Sockets
<1>1. Sound(x, p)
  BY <1>0 DEF Sound, Kept, MayLose
<1>2. PICK E \in SUBSET {"r", "w"} : E = x.want \ {"w"}
  BY DEF Sound, Connections
<1>3. PICK y : y = Want(x, E)
  OBVIOUS
<1>4. /\ Sound(y, p) /\ y.begun /\ y.state = x.state /\ y.fd = x.fd /\ y.out = x.out
      /\ ToldOnce(x) => ToldOnce(y)
  BY <1>1, <1>3, WantSound
<1>5. CASE x.out > 0 \/ x.crashed
  BY <1>1, <1>5 DEF Emptied
<1>6. CASE ~(x.out > 0 \/ x.crashed) /\ x.state = "FLUSHING"
  <2>1. Emptied(x) = [y EXCEPT !.write_closed = TRUE, !.linger = TRUE]
    BY <1>2, <1>3, <1>6 DEF Emptied
  <2>2. x.out = 0 /\ x.fd
    BY <1>6 DEF Sound, Connections, Kept, OpenStates
  <2>3. p.shut
    BY <1>0, <1>6, <2>2 DEF Shuts
  <2> DEFINE v == [y EXCEPT !.write_closed = TRUE, !.linger = TRUE]
  <2>4. /\ v \in Connections /\ v.state = y.state /\ v.begun = y.begun /\ v.fd = y.fd
        /\ v.out = y.out /\ v.written = y.written /\ v.closes = y.closes
        /\ v.after = y.after /\ v.late = y.late /\ v.forced = y.forced
    BY <1>4 DEF Sound, Connections
  <2> HIDE DEF v
  <2>5. Kept(v, p)
    BY <1>4, <1>6, <2>3, <2>4 DEF Sound, Kept
  <2>6. ToldOnce(y) => ToldOnce(v)
    BY <2>4 DEF ToldOnce
  <2>7. QED
    BY <1>4, <2>1, <2>4, <2>5, <2>6 DEF Sound, v
<1>7. CASE ~(x.out > 0 \/ x.crashed) /\ x.state # "FLUSHING"
  <2>1. Emptied(x) = y
    BY <1>2, <1>3, <1>7 DEF Emptied
  <2>2. QED
    BY <1>4, <2>1
<1>8. QED
  BY <1>5, <1>6, <1>7

-----------------------------------------------------------------------------
(* The steps.                                                                *)

\* A handler that leaves the connection sound leaves the invariant true.
LEMMA AfterKeeps ==
    ASSUME TcpTypeOK, EventsTrue, tcp.begun, tcp.state # "RESOLVING",
           NEW y, NEW goOn, NEW next \in {"read", "write", "poll"},
           socket' \in Sockets, Sound(y, socket'),
           y.begun, y.state # "RESOLVING",
           socket'.conn = socket.conn, socket.shut => socket'.shut,
           After(y, goOn, next), ev' = ev
    PROVE  TcpInv'
<1>1. tcp' = y /\ (step' = "poll" \/ (step' = next /\ y.fd))
  BY DEF After
<1>2. TcpTypeOK'
  BY <1>1 DEF TcpTypeOK, Sound
<1>3. Kept(tcp, socket)'
  BY <1>1 DEF Sound, Kept, MayLose
<1>4. EventsTrue'
  BY <1>1 DEF EventsTrue
<1>5. QED
  BY <1>2, <1>3, <1>4 DEF TcpInv

\* What one step of the connection has to keep.
Keeps ==
    /\ TcpInv'
    /\ ~NoDescriptors /\ ToldOnce(tcp) => ToldOnce(tcp')

LEMMA ConnectingFields ==
    ASSUME NEW x \in Connections
    PROVE  /\ Connecting(x) \in Connections
           /\ Connecting(x).state = "CONNECTING" /\ Connecting(x).fd
           /\ Connecting(x).begun = x.begun /\ Connecting(x).linger = x.linger
           /\ Connecting(x).out = x.out /\ Connecting(x).written = x.written
           /\ Connecting(x).closes = x.closes /\ Connecting(x).after = x.after
           /\ Connecting(x).late = x.late /\ Connecting(x).forced = x.forced
<1>1. "CONNECTING" \in States /\ {"r", "w"} \in SUBSET {"r", "w"}
  BY DEF States
<1>2. QED
  BY <1>1 DEF Connecting, Connections

\* What HandleDnsResult makes of a connection that resolves a name.
LEMMA ResolvedFields ==
    ASSUME NEW x \in Connections, x.state = "RESOLVING", x.begun, ~x.fd, x.out = 0,
           NEW y,
           \/ y = [x EXCEPT !.dns = FALSE, !.state = "DISCONNECTED", !.closes = @ + 1]
           \/ y = [Connecting(x) EXCEPT !.dns = FALSE]
           \/ y = [InternalClose(Connecting(x), FALSE) EXCEPT !.closes = @ + 1]
           \/ NoDescriptors /\ y = [x EXCEPT !.dns = FALSE, !.closes = @ + 1]
    PROVE  /\ y \in Connections
           /\ y.begun /\ y.state \in {"CONNECTING", "DISCONNECTED", "RESOLVING"}
           /\ y.fd <=> y.state = "CONNECTING"
           /\ y.linger => x.linger
           /\ y.out = 0 /\ y.written = x.written /\ y.after = x.after
           /\ y.late = x.late /\ y.forced = x.forced
           /\ ~NoDescriptors =>
                 y.closes = IF y.state = "DISCONNECTED" THEN x.closes + 1 ELSE x.closes
<1>0. x.closes + 1 \in Nat /\ "DISCONNECTED" \in States /\ 0 \in 0..MaxOut
      /\ {} \in SUBSET {"r", "w"}
  BY TcpParameters DEF Connections, States
<1>1. CASE y = [x EXCEPT !.dns = FALSE, !.state = "DISCONNECTED", !.closes = @ + 1]
  BY <1>0, <1>1 DEF Connections
<1>2. CASE y = [Connecting(x) EXCEPT !.dns = FALSE]
  <2>1. PICK v : v = Connecting(x)
    OBVIOUS
  <2>2. /\ v \in Connections /\ v.state = "CONNECTING" /\ v.fd
        /\ v.begun = x.begun /\ v.linger = x.linger
        /\ v.out = x.out /\ v.written = x.written
        /\ v.closes = x.closes /\ v.after = x.after
        /\ v.late = x.late /\ v.forced = x.forced
    BY <2>1, ConnectingFields
  <2>3. y = [v EXCEPT !.dns = FALSE]
    BY <1>2, <2>1
  <2>4. QED
    BY <2>2, <2>3 DEF Connections
<1>3. CASE y = [InternalClose(Connecting(x), FALSE) EXCEPT !.closes = @ + 1]
  <2>1. PICK v : v = Connecting(x)
    OBVIOUS
  <2>2. /\ v \in Connections /\ v.state = "CONNECTING" /\ v.fd
        /\ v.begun = x.begun /\ v.linger = x.linger
        /\ v.out = x.out /\ v.written = x.written
        /\ v.closes = x.closes /\ v.after = x.after
        /\ v.late = x.late /\ v.forced = x.forced
    BY <2>1, ConnectingFields
  <2>3. PICK u : u = InternalClose(v, FALSE)
    OBVIOUS
  <2>4. /\ u \in Connections /\ u.state = "DISCONNECTED" /\ ~u.fd /\ u.begun = x.begun
        /\ ~u.linger /\ u.out = 0 /\ u.written = x.written /\ u.closes = x.closes
        /\ u.after = x.after /\ u.late = x.late /\ u.forced = x.forced
    <3>1. u = [v EXCEPT !.dns = FALSE, !.fd = FALSE, !.state = "DISCONNECTED", !.want = {},
                        !.read_closed = TRUE, !.write_closed = TRUE, !.linger = FALSE,
                        !.out = 0]
      BY <2>2, <2>3 DEF InternalClose, Connections
    <3>2. v \in Connections
      BY <2>2
    <3>3. u \in Connections
      BY <1>0, <3>1, <3>2, ZenonT(60) DEF Connections
    <3>4. /\ u.state = "DISCONNECTED" /\ ~u.fd /\ u.begun = v.begun
          /\ ~u.linger /\ u.out = 0 /\ u.written = v.written /\ u.closes = v.closes
          /\ u.after = v.after /\ u.late = v.late /\ u.forced = v.forced
      BY <3>1, <3>2 DEF Connections
    <3>5. QED
      BY <2>2, <3>3, <3>4
  <2>5. y = [u EXCEPT !.closes = @ + 1]
    BY <1>3, <2>1, <2>3
  <2>6. QED
    BY <1>0, <2>4, <2>5 DEF Connections
<1>4. CASE NoDescriptors /\ y = [x EXCEPT !.dns = FALSE, !.closes = @ + 1]
  BY <1>0, <1>4 DEF Connections
<1>5. QED
  BY <1>1, <1>2, <1>3, <1>4

LEMMA ConnectKeeps == TcpInv /\ Connect => Keeps
<1> SUFFICES ASSUME TcpInv, Connect PROVE Keeps
  OBVIOUS
<1>1. tcp' \in Connections
  <2>1. PICK x : x = tcp /\ x \in Connections
    BY DEF TcpInv, TcpTypeOK
  <2>2. "RESOLVING" \in States
    BY DEF States
  <2>3. PICK v : v = Connecting(x) /\ v \in Connections
    BY <2>1, ConnectingFields
  <2>4. [v EXCEPT !.begun = TRUE] \in Connections
    BY <2>3 DEF Connections
  <2>5. [x EXCEPT !.begun = TRUE, !.state = "RESOLVING", !.dns = TRUE] \in Connections
    BY <2>1, <2>2 DEF Connections
  <2>6. QED
    BY <2>1, <2>3, <2>4, <2>5 DEF Connect
<1>2. socket' \in Sockets
  BY DEF TcpInv, TcpTypeOK, Connect, Sockets
<1>3. ev = {} /\ step = "poll" /\ tcp.state = "DISCONNECTED" /\ tcp.out = 0
      /\ tcp.written = 0 /\ socket.sent = 0
  BY DEF TcpInv, TcpTypeOK, Connect, EventsTrue, Kept, Connections
<1>4. ev' = ev /\ step' = step /\ socket'.sent = socket.sent /\ socket'.shut = socket.shut
  BY DEF TcpInv, TcpTypeOK, Connect, Sockets
<1>5. /\ tcp'.begun /\ tcp'.state \in {"CONNECTING", "RESOLVING"}
      /\ tcp'.fd <=> tcp'.state = "CONNECTING"
      /\ tcp'.linger = tcp.linger /\ tcp'.out = tcp.out /\ tcp'.written = tcp.written
      /\ tcp'.closes = tcp.closes /\ tcp'.after = tcp.after
      /\ tcp'.late = tcp.late /\ tcp'.forced = tcp.forced
  BY <1>3 DEF TcpInv, TcpTypeOK, Connect, Connecting, Connections, Kept, OpenStates
<1>6. Kept(tcp, socket)'
  BY <1>3, <1>4, <1>5 DEF TcpInv, Kept, OpenStates
<1>7. EventsTrue'
  BY <1>3, <1>4 DEF EventsTrue
<1>8. ToldOnce(tcp) => ToldOnce(tcp')
  BY <1>3, <1>5 DEF ToldOnce, Connect
<1>9. QED
  BY <1>1, <1>2, <1>3, <1>4, <1>6, <1>7, <1>8 DEF Keeps, TcpInv, TcpTypeOK

LEMMA WrapKeeps == TcpInv /\ Wrap => Keeps
<1> SUFFICES ASSUME TcpInv, Wrap PROVE Keeps
  OBVIOUS
<1>1. tcp' \in Connections
  BY DEF TcpInv, TcpTypeOK, Wrap, Connections, States
<1>2. socket' \in Sockets
  BY DEF TcpInv, TcpTypeOK, Wrap, Sockets
<1>3. ev = {} /\ step = "poll" /\ tcp.state = "DISCONNECTED" /\ tcp.out = 0
      /\ tcp.written = 0 /\ socket.sent = 0
  BY DEF TcpInv, TcpTypeOK, Wrap, EventsTrue, Kept, Connections
<1>4. ev' = ev /\ step' = step /\ socket'.sent = socket.sent /\ socket'.shut = socket.shut
  BY DEF TcpInv, TcpTypeOK, Wrap, Sockets
<1>5. /\ tcp'.begun /\ tcp'.state = "CONNECTED" /\ tcp'.fd
      /\ tcp'.linger = tcp.linger /\ tcp'.out = tcp.out /\ tcp'.written = tcp.written
      /\ tcp'.closes = tcp.closes /\ tcp'.after = tcp.after
      /\ tcp'.late = tcp.late /\ tcp'.forced = tcp.forced
  BY DEF TcpInv, TcpTypeOK, Wrap, Connections
<1>6. Kept(tcp, socket)'
  BY <1>3, <1>4, <1>5 DEF TcpInv, Kept, OpenStates
<1>7. EventsTrue'
  BY <1>3, <1>4 DEF EventsTrue
<1>8. ToldOnce(tcp) => ToldOnce(tcp')
  BY <1>3, <1>5 DEF ToldOnce, Wrap
<1>9. QED
  BY <1>1, <1>2, <1>3, <1>4, <1>6, <1>7, <1>8 DEF Keeps, TcpInv, TcpTypeOK

LEMMA DnsResultKeeps == TcpInv /\ HandleDnsResult => Keeps
<1> SUFFICES ASSUME TcpInv, HandleDnsResult PROVE Keeps
  OBVIOUS
<1>1. PICK x, y : x = tcp /\ y = tcp'
  OBVIOUS
<1>2. socket' \in Sockets /\ socket'.sent = socket.sent /\ socket'.shut = socket.shut
  BY DEF TcpInv, TcpTypeOK, HandleDnsResult, Sockets
<1>3. /\ ev = {} /\ step = "poll" /\ tcp.state = "RESOLVING" /\ tcp.begun /\ tcp.out = 0
      /\ ~tcp.fd /\ tcp.written = socket.sent /\ socket.sent \in Nat
      /\ ev' = ev /\ step' = step
  <2>1. ev' = ev /\ step' = step /\ step = "poll" /\ tcp.state = "RESOLVING"
    BY DEF HandleDnsResult
  <2>2. socket.sent \in Nat
    BY TcpParameters DEF TcpInv, TcpTypeOK, Sockets
  <2>3. QED
    BY <2>1, <2>2 DEF TcpInv, EventsTrue, Kept, OpenStates
<1>4. x \in Connections
  BY <1>1 DEF TcpInv, TcpTypeOK
<1>5. /\ y \in Connections
      /\ y.begun /\ y.state \in {"CONNECTING", "DISCONNECTED", "RESOLVING"}
      /\ y.fd <=> y.state = "CONNECTING"
      /\ y.linger => x.linger
      /\ y.out = 0 /\ y.written = x.written /\ y.after = x.after
      /\ y.late = x.late /\ y.forced = x.forced
      /\ ~NoDescriptors =>
            y.closes = IF y.state = "DISCONNECTED" THEN x.closes + 1 ELSE x.closes
  <2>1. \/ y = [x EXCEPT !.dns = FALSE, !.state = "DISCONNECTED", !.closes = @ + 1]
        \/ y = [Connecting(x) EXCEPT !.dns = FALSE]
        \/ y = [InternalClose(Connecting(x), FALSE) EXCEPT !.closes = @ + 1]
        \/ NoDescriptors /\ y = [x EXCEPT !.dns = FALSE, !.closes = @ + 1]
    BY <1>1 DEF HandleDnsResult
  <2>2. x.state = "RESOLVING" /\ x.begun /\ ~x.fd /\ x.out = 0
    BY <1>1, <1>3
  <2>3. QED
    BY <1>4, <2>1, <2>2, ResolvedFields
<1>6. Kept(tcp, socket)'
  BY <1>1, <1>2, <1>3, <1>5 DEF TcpInv, Kept, OpenStates
<1>7. EventsTrue'
  BY <1>3 DEF EventsTrue
<1>8. ~NoDescriptors /\ ToldOnce(tcp) => ToldOnce(tcp')
  <2>1. x.late \in Nat /\ x.closes \in Nat
    BY <1>4 DEF Connections
  <2>2. QED
    BY <1>1, <1>3, <1>5, <2>1 DEF ToldOnce
<1>9. QED
  BY <1>1, <1>2, <1>3, <1>5, <1>6, <1>7, <1>8 DEF Keeps, TcpInv, TcpTypeOK

LEMMA ApplicationKeeps == TcpInv /\ Application => Keeps
<1> SUFFICES ASSUME TcpInv, Application PROVE Keeps
  OBVIOUS
<1>1. PICK x, q, y : x = tcp /\ q = socket /\ y = tcp'
  OBVIOUS
<1>2. q \in Sockets /\ Sound(x, q) /\ x.begun /\ y \in AppCalls(x)
  BY <1>1 DEF TcpInv, TcpTypeOK, Sound, Application
<1>3. /\ Sound(y, q) /\ y.begun /\ (y.state = "RESOLVING" => x.state = "RESOLVING")
      /\ ToldOnce(x) => ToldOnce(y)
  BY <1>2, AppCallsSound
<1>4. ev' = ev /\ step' = "poll" /\ socket' = q
  BY <1>1 DEF Application
<1>5. TcpTypeOK' /\ Kept(tcp, socket)'
  BY <1>1, <1>2, <1>3, <1>4 DEF TcpInv, TcpTypeOK, Sound, Kept, MayLose
<1>6. EventsTrue'
  BY <1>1, <1>3, <1>4 DEF TcpInv, EventsTrue
<1>7. QED
  BY <1>1, <1>3, <1>5, <1>6 DEF Keeps, TcpInv

LEMMA KernelKeeps == TcpInv /\ Kernel => Keeps
<1> SUFFICES ASSUME TcpInv, Kernel PROVE Keeps
  OBVIOUS
<1>1. /\ tcp' = tcp /\ ev' = ev /\ step' = step /\ socket'.sent = socket.sent
      /\ socket'.shut = socket.shut /\ (socket.conn = "dead" => socket'.conn = "dead")
  BY DEF TcpInv, TcpTypeOK, Kernel, Established, Reset, PeerSends, PeerShuts, PeerReads,
     Sockets
<1>2. socket' \in Sockets
  <2>1. socket \in Sockets
    BY DEF TcpInv, TcpTypeOK
  <2>2. CASE Established \/ Reset \/ PeerShuts
    BY <2>1, <2>2 DEF Established, Reset, PeerShuts, Sockets
  <2>3. CASE PeerSends
    <3>1. socket.rx + 1 \in 0..MaxIn
      BY <2>1, <2>3, TcpParameters DEF PeerSends, Sockets
    <3>2. QED
      BY <2>1, <2>3, <3>1 DEF PeerSends, Sockets
  <2>4. CASE PeerReads
    <3>1. socket.tx - 1 \in 0..1
      BY <2>1, <2>4 DEF PeerReads, Sockets
    <3>2. QED
      BY <2>1, <2>4, <3>1 DEF PeerReads, Sockets
  <2>5. QED
    BY <2>2, <2>3, <2>4 DEF Kernel
<1>3. Kept(tcp, socket)' /\ EventsTrue'
  BY <1>1 DEF TcpInv, Kept, MayLose, EventsTrue
<1>4. QED
  BY <1>1, <1>2, <1>3 DEF Keeps, TcpInv, TcpTypeOK

LEMMA PollKeeps == TcpInv /\ Poll => Keeps
<1> SUFFICES ASSUME TcpInv, Poll PROVE Keeps
  OBVIOUS
<1>1. tcp' = tcp /\ socket' = socket /\ ev' = Ready /\ step' = "error" /\ tcp.fd
  BY DEF Poll
<1>2. /\ Ready \subseteq Flags
      /\ "ERR" \in Ready => socket.conn = "dead"
      /\ "HUP" \in Ready => socket.conn = "dead" \/ socket.shut
      /\ "RDHUP" \in Ready => "IN" \in Ready
  BY DEF Ready, Flags
<1>3. tcp.begun /\ tcp.state # "RESOLVING"
  BY <1>1 DEF TcpInv, Kept, OpenStates
<1>4. EventsTrue'
  BY <1>1, <1>2, <1>3 DEF EventsTrue
<1>5. QED
  BY <1>1, <1>2, <1>4 DEF Keeps, TcpInv, TcpTypeOK, Kept, MayLose, ToldOnce

LEMMA TimeoutKeeps == TcpInv /\ HandleTimeoutEvent => Keeps
<1> SUFFICES ASSUME TcpInv, HandleTimeoutEvent PROVE Keeps
  OBVIOUS
<1>1. PICK x, q : x = tcp /\ q = socket
  OBVIOUS
<1>2. q \in Sockets /\ Sound(x, q) /\ q.shut
  BY <1>1 DEF TcpInv, TcpTypeOK, Sound, HandleTimeoutEvent, Kept
<1>3. ev' = ev /\ step' = "poll" /\ socket' = q /\ tcp' = InternalClose(x, TRUE)
  BY <1>1 DEF HandleTimeoutEvent
<1>4. CASE x.begun
  <2>1. PICK y : y = InternalClose(x, TRUE)
    OBVIOUS
  <2>2. /\ Sound(y, q) /\ y.begun /\ y.state = "DISCONNECTED"
        /\ ToldOnce(x) => ToldOnce(y)
    BY <1>2, <1>4, <2>1, InternalCloseSound DEF MayLose
  <2>3. TcpTypeOK' /\ Kept(tcp, socket)'
    BY <1>1, <1>2, <1>3, <2>1, <2>2 DEF TcpInv, TcpTypeOK, Sound, Kept, MayLose
  <2>4. EventsTrue'
    BY <1>1, <1>3, <2>1, <2>2 DEF TcpInv, EventsTrue
  <2>5. QED
    BY <1>1, <1>3, <2>1, <2>2, <2>3, <2>4 DEF Keeps, TcpInv
<1>5. CASE ~x.begun
  <2>1. tcp' = [x EXCEPT !.dns = FALSE]
    BY <1>2, <1>3, <1>5 DEF InternalClose, Sound, Kept, Connections
  <2>2. tcp' \in Connections
    BY <1>2, <2>1 DEF Sound, Connections
  <2>3. Kept(tcp, socket)' /\ EventsTrue' /\ (ToldOnce(x) => ToldOnce(tcp'))
    BY <1>1, <1>2, <1>3, <2>1, ZenonT(60) DEF TcpInv, Sound, Connections, Kept, MayLose, EventsTrue,
       ToldOnce
  <2>4. QED
    BY <1>1, <1>2, <1>3, <2>2, <2>3 DEF Keeps, TcpInv, TcpTypeOK
<1>6. QED
  BY <1>4, <1>5

\* What is known when a handler of the selector's round begins.
LEMMA InHandler ==
    ASSUME TcpInv, step # "poll"
    PROVE  /\ socket \in Sockets /\ Sound(tcp, socket) /\ tcp.fd /\ tcp.begun
           /\ tcp.state \in OpenStates /\ TcpTypeOK /\ EventsTrue
BY DEF TcpInv, TcpTypeOK, EventsTrue, Kept, Sound, OpenStates

LEMMA HandlerKeeps ==
    ASSUME TcpInv, step # "poll",
           NEW y, NEW goOn, NEW next \in {"read", "write", "poll"},
           socket' \in Sockets, Sound(y, socket'),
           y.begun, y.state # "RESOLVING", ToldOnce(tcp) => ToldOnce(y),
           socket'.conn = socket.conn, socket.shut => socket'.shut,
           After(y, goOn, next), ev' = ev
    PROVE  Keeps
<1>1. TcpTypeOK /\ EventsTrue /\ tcp.begun /\ tcp.state # "RESOLVING"
  BY InHandler DEF OpenStates
<1>2. TcpInv'
  BY <1>1, AfterKeeps
<1>3. tcp' = y
  BY DEF After
<1>4. QED
  BY <1>2, <1>3 DEF Keeps

LEMMA ErrorEventKeeps == TcpInv /\ HandleErrorEvent => Keeps
<1> SUFFICES ASSUME TcpInv, HandleErrorEvent PROVE Keeps
  OBVIOUS
<1>0. step # "poll" /\ socket' = socket /\ ev' = ev
  BY DEF HandleErrorEvent
<1>1. PICK x, q : x = tcp /\ q = socket
  OBVIOUS
<1>2. /\ q \in Sockets /\ Sound(x, q) /\ x.fd /\ x.begun /\ x.state \in OpenStates
      /\ TcpTypeOK /\ EventsTrue
  BY <1>0, <1>1, InHandler
<1> DEFINE wc == [x EXCEPT !.write_closed = TRUE]
           fl == [x EXCEPT !.state = "FLUSHING"]
<1>3. Sound(wc, q) /\ wc.begun /\ wc.state = x.state /\ (ToldOnce(x) => ToldOnce(wc))
  BY <1>2 DEF Sound, Kept, Connections, MayLose, ToldOnce
<1>4. Sound(fl, q) /\ fl.begun /\ fl.state = "FLUSHING" /\ (ToldOnce(x) => ToldOnce(fl))
  BY <1>2 DEF Sound, Kept, Connections, MayLose, ToldOnce, OpenStates, States
<1>5. \/ After(x, TRUE, "read")
      \/ "ERR" \in ev /\ After(InternalClose(x, TRUE), FALSE, "poll")
      \/ After(wc, TRUE, "read")
      \/ "HUP" \in ev /\ After(InternalClose(wc, TRUE), FALSE, "poll")
      \/ After(fl, TRUE, "read")
  <2>1. "RDHUP" \in ev => "IN" \in ev
    BY <1>2 DEF EventsTrue
  <2>2. QED
    BY <1>1, <2>1, Zenon DEF HandleErrorEvent
<1>6. x.state # "RESOLVING" /\ wc.state # "RESOLVING" /\ fl.state # "RESOLVING"
  BY <1>2, <1>3, <1>4 DEF OpenStates
<1> HIDE DEF wc, fl
<1>7. /\ "ERR" \in ev => MayLose(x, q)
      /\ "HUP" \in ev => MayLose(wc, q)
  BY <1>1, <1>2 DEF EventsTrue, MayLose
<1>8. /\ socket' = q /\ socket'.conn = socket.conn /\ (socket.shut => socket'.shut)
      /\ ToldOnce(tcp) = ToldOnce(x)
  BY <1>0, <1>1
<1>9. CASE After(x, TRUE, "read")
  BY <1>0, <1>2, <1>6, <1>8, <1>9, HandlerKeeps
<1>10. CASE "ERR" \in ev /\ After(InternalClose(x, TRUE), FALSE, "poll")
  <2>1. PICK y : y = InternalClose(x, TRUE)
    OBVIOUS
  <2>2. Sound(y, q) /\ y.begun /\ y.state # "RESOLVING" /\ (ToldOnce(x) => ToldOnce(y))
    BY <1>2, <1>7, <1>10, <2>1, InternalCloseSound
  <2>3. QED
    BY <1>0, <1>2, <1>8, <1>10, <2>1, <2>2, HandlerKeeps
<1>11. CASE After(wc, TRUE, "read")
  BY <1>0, <1>2, <1>3, <1>6, <1>8, <1>11, HandlerKeeps
<1>12. CASE "HUP" \in ev /\ After(InternalClose(wc, TRUE), FALSE, "poll")
  <2>1. PICK y : y = InternalClose(wc, TRUE)
    OBVIOUS
  <2>2. Sound(y, q) /\ y.begun /\ y.state # "RESOLVING" /\ (ToldOnce(x) => ToldOnce(y))
    BY <1>2, <1>3, <1>7, <1>12, <2>1, InternalCloseSound
  <2>3. QED
    BY <1>0, <1>2, <1>8, <1>12, <2>1, <2>2, HandlerKeeps
<1>13. CASE After(fl, TRUE, "read")
  BY <1>0, <1>2, <1>4, <1>6, <1>8, <1>13, HandlerKeeps
<1>14. QED
  BY <1>5, <1>9, <1>10, <1>11, <1>12, <1>13

LEMMA ConnectedKeeps ==
    ASSUME TcpInv, step # "poll", tcp.state = "CONNECTING", HandleConnected PROVE Keeps
<1>1. PICK x, q : x = tcp /\ q = socket
  OBVIOUS
<1>2. q \in Sockets /\ Sound(x, q) /\ x.fd /\ x.begun
  BY <1>1, InHandler
<1> DEFINE w == [x EXCEPT !.state = "CONNECTED"]
<1>3. Sound(w, q) /\ w.begun /\ w.fd /\ w.state = "CONNECTED"
      /\ (ToldOnce(x) => ToldOnce(w))
  BY <1>2 DEF Sound, Kept, Connections, MayLose, ToldOnce, OpenStates, States
<1>4. PICK v : v = InvokeHandler(w)
  OBVIOUS
<1>5. PICK y \in AppCalls(v) :
        After(y, y.state = "CONNECTED", IF step = "read" THEN "write" ELSE "poll")
  BY <1>1, <1>4 DEF HandleConnected
<1> HIDE DEF w
<1>6. Sound(v, q) /\ v.begun /\ v.state = "CONNECTED" /\ (ToldOnce(x) => ToldOnce(v))
  BY <1>2, <1>3, <1>4, InvokeSound
<1>7. Sound(y, q) /\ y.begun /\ y.state # "RESOLVING" /\ (ToldOnce(x) => ToldOnce(y))
  BY <1>2, <1>5, <1>6, AppCallsSound
<1>8. socket' = socket /\ ev' = ev
  BY DEF HandleConnected
<1>9. PICK n \in {"read", "write", "poll"} : n = IF step = "read" THEN "write" ELSE "poll"
  OBVIOUS
<1>10. PICK g : g = (y.state = "CONNECTED")
  OBVIOUS
<1>11. After(y, g, n)
  BY <1>5, <1>9, <1>10
<1>12. socket' \in Sockets /\ Sound(y, socket') /\ (ToldOnce(tcp) => ToldOnce(y))
  BY <1>1, <1>2, <1>7, <1>8
<1>13. socket'.conn = socket.conn /\ (socket.shut => socket'.shut)
  BY <1>8
<1>14. QED
  BY <1>7, <1>8, <1>11, <1>12, <1>13, HandlerKeeps

LEMMA ReadEventKeeps == TcpInv /\ HandleReadEvent => Keeps
<1> SUFFICES ASSUME TcpInv, HandleReadEvent PROVE Keeps
  OBVIOUS
<1>0. step # "poll" /\ ev' = ev
  BY DEF HandleReadEvent, HandleConnected
<1>1. PICK x, q, p : x = tcp /\ q = socket /\ p = socket'
  OBVIOUS
<1>2. /\ q \in Sockets /\ Sound(x, q) /\ x.fd /\ x.begun /\ x.state # "RESOLVING"
      /\ ToldOnce(tcp) = ToldOnce(x)
  BY <1>0, <1>1, InHandler DEF OpenStates
<1>3. CASE "IN" \in ev /\ tcp.state = "CONNECTING" /\ HandleConnected
  BY <1>0, <1>3, ConnectedKeeps
<1>4. CASE "IN" \notin ev /\ After(tcp, TRUE, "write") /\ socket' = socket
  <2>1. After(x, TRUE, "write") /\ socket'.conn = socket.conn
        /\ (socket.shut => socket'.shut) /\ socket' = q
    BY <1>1, <1>4
  <2>2. QED
    BY <1>0, <1>2, <2>1, HandlerKeeps
<1>5. CASE socket.conn = "dead" /\ After(InternalClose(tcp, TRUE), FALSE, "poll")
      /\ socket' = socket
  <2>1. PICK y : y = InternalClose(x, TRUE)
    OBVIOUS
  <2>2. Sound(y, q) /\ y.begun /\ y.state # "RESOLVING" /\ (ToldOnce(x) => ToldOnce(y))
    BY <1>1, <1>2, <1>5, <2>1, InternalCloseSound DEF MayLose
  <2>3. After(y, FALSE, "poll") /\ socket'.conn = socket.conn
        /\ (socket.shut => socket'.shut) /\ socket' = q
    BY <1>1, <1>5, <2>1
  <2>4. QED
    BY <1>0, <1>2, <2>2, <2>3, HandlerKeeps
<1>6. CASE /\ socket.rx > 0 /\ socket' = [socket EXCEPT !.rx = @ - 1]
           /\ \E res \in ReadHandlerResults(InvokeHandler(tcp)) :
                IF res.ok THEN \E y \in HalfClosed(res.conn) : After(y, TRUE, "write")
                ELSE After(InternalClose([res.conn EXCEPT !.forced = TRUE], TRUE), FALSE, "poll")
  <2>1. PICK v : v = InvokeHandler(x)
    OBVIOUS
  <2>2. PICK res \in ReadHandlerResults(v) :
          \/ \E y \in HalfClosed(res.conn) : After(y, TRUE, "write")
          \/ After(InternalClose([res.conn EXCEPT !.forced = TRUE], TRUE), FALSE, "poll")
    BY <1>1, <1>6, <2>1
  <2>3. p \in Sockets /\ p.conn = q.conn /\ p.shut = q.shut /\ p.sent = q.sent
    <3>1. q.rx - 1 \in 0..MaxIn
      BY <1>1, <1>2, <1>6, TcpParameters DEF Sockets
    <3>2. QED
      BY <1>1, <1>2, <1>6, <3>1 DEF Sockets
  <2>4. Sound(x, p)
    BY <1>2, <2>3 DEF Sound, Kept, MayLose
  <2>5. /\ Sound(v, p) /\ v.begun /\ v.state # "RESOLVING"
        /\ ToldOnce(x) => ToldOnce(v) /\ Fresh(v)
    BY <1>2, <2>1, <2>3, <2>4, InvokeSound
  <2>6. PICK y : y = res.conn
    OBVIOUS
  <2>7. /\ Sound(y, p) /\ y.begun /\ y.state # "RESOLVING"
        /\ ToldOnce(x) => ToldOnce(y) /\ Fresh(y)
    BY <2>2, <2>3, <2>5, <2>6, HandlerSound
  <2>8. socket'.conn = socket.conn /\ (socket.shut => socket'.shut) /\ socket' = p
    BY <1>1, <2>3
  <2>9. CASE \E z \in HalfClosed(res.conn) : After(z, TRUE, "write")
    <3>1. PICK z \in HalfClosed(y) : After(z, TRUE, "write")
      BY <2>6, <2>9
    <3>2. Sound(z, p) /\ z.begun /\ z.state # "RESOLVING" /\ (ToldOnce(x) => ToldOnce(z))
      BY <2>3, <2>7, <3>1, HalfClosedSound
    <3>3. QED
      BY <1>0, <1>2, <2>3, <2>8, <3>1, <3>2, HandlerKeeps
  <2>10. CASE After(InternalClose([res.conn EXCEPT !.forced = TRUE], TRUE), FALSE, "poll")
    <3>1. PICK z : z = ForceClose(y)
      OBVIOUS
    <3>2. Sound(z, p) /\ z.begun /\ z.state # "RESOLVING" /\ (ToldOnce(x) => ToldOnce(z))
      BY <2>3, <2>7, <3>1, ForcedSound
    <3>3. After(z, FALSE, "poll")
      BY <2>6, <2>10, <3>1 DEF ForceClose
    <3>4. QED
      BY <1>0, <1>2, <2>3, <2>8, <3>2, <3>3, HandlerKeeps
  <2>11. QED
    BY <2>2, <2>9, <2>10
<1>7. CASE (\E y \in EndOfInput(tcp) : After(y, TRUE, "write")) /\ socket' = socket
  <2>1. PICK y \in EndOfInput(x) : After(y, TRUE, "write")
    BY <1>1, <1>7
  <2>2. Sound(y, q) /\ y.begun /\ y.state # "RESOLVING" /\ (ToldOnce(x) => ToldOnce(y))
    BY <1>2, <2>1, EndOfInputSound
  <2>3. socket'.conn = socket.conn /\ (socket.shut => socket'.shut) /\ socket' = q
    BY <1>1, <1>7
  <2>4. QED
    BY <1>0, <1>2, <2>1, <2>2, <2>3, HandlerKeeps
<1>8. QED
  BY <1>3, <1>4, <1>5, <1>6, <1>7 DEF HandleReadEvent

\* The unit that the kernel takes moves from the buffer to what was sent.
LEMMA TakenSound ==
    ASSUME NEW x, NEW q \in Sockets, Sound(x, q), x.fd,
           NEW cb, cb = IF x.out > 0 /\ q.tx = 0 THEN 1 ELSE 0
    PROVE  /\ [q EXCEPT !.tx = @ + cb, !.sent = @ + cb] \in Sockets
           /\ Sound([x EXCEPT !.out = @ - cb], [q EXCEPT !.tx = @ + cb, !.sent = @ + cb])
           /\ ToldOnce(x) => ToldOnce([x EXCEPT !.out = @ - cb])
<1> DEFINE y == [x EXCEPT !.out = @ - cb]
           r == [q EXCEPT !.tx = @ + cb, !.sent = @ + cb]
<1>1. /\ x.out \in 0..MaxOut /\ x.written \in 0..MaxOut /\ q.sent \in 0..MaxOut
      /\ q.tx \in 0..1 /\ q.sent + x.out = x.written /\ x.begun
      /\ x.state # "DISCONNECTED"
  BY DEF Sound, Connections, Kept, Sockets, OpenStates
<1>2. /\ cb \in {0, 1} /\ x.out - cb \in 0..MaxOut /\ q.sent + cb \in 0..MaxOut
      /\ q.tx + cb \in 0..1 /\ (q.sent + cb) + (x.out - cb) = x.written
      /\ (x.out = 0 => x.out - cb = 0)
  BY <1>1, TcpParameters
<1>3. r \in Sockets /\ r.sent = q.sent + cb /\ r.conn = q.conn /\ r.shut = q.shut
  BY <1>2 DEF Sockets
<1>4. /\ y \in Connections /\ y.out = x.out - cb /\ y.written = x.written
      /\ y.state = x.state
      /\ y.begun = x.begun /\ y.fd = x.fd /\ y.linger = x.linger
      /\ y.closes = x.closes /\ y.after = x.after /\ y.late = x.late /\ y.forced = x.forced
  BY <1>2 DEF Sound, Connections
<1> HIDE DEF y, r
<1>5. Kept(y, r)
  BY <1>1, <1>2, <1>3, <1>4 DEF Sound, Kept
<1>6. ToldOnce(x) => ToldOnce(y)
  BY <1>4 DEF ToldOnce
<1>7. QED
  BY <1>3, <1>4, <1>5, <1>6 DEF Sound, y, r

\* The last case of HandleWriteEvent, with names for its parts.
Taken(x, q) == IF x.out > 0 /\ q.tx = 0 THEN 1 ELSE 0

WriteAnswers(x, q) ==
    LET z == [x EXCEPT !.out = @ - Taken(x, q)]
    IN  IF z.state = "FLUSHING" THEN {[conn |-> z, ok |-> TRUE]}
        ELSE WriteHandlerResults(InvokeHandler(z))

WriteResult(res) ==
    IF res.ok THEN Emptied(res.conn)
    ELSE InternalClose([res.conn EXCEPT !.forced = TRUE], TRUE)

SocketAfter(q, cb, res) ==
    [q EXCEPT !.tx = @ + cb, !.sent = @ + cb, !.shut = @ \/ (res.ok /\ Shuts(res.conn))]

LEMMA WriteEventKeeps == TcpInv /\ HandleWriteEvent => Keeps
<1> SUFFICES ASSUME TcpInv, HandleWriteEvent PROVE Keeps
  OBVIOUS
<1>0. step # "poll" /\ ev' = ev
  BY DEF HandleWriteEvent, HandleConnected
<1>1. PICK x, q, p : x = tcp /\ q = socket /\ p = socket'
  OBVIOUS
<1>2. /\ q \in Sockets /\ Sound(x, q) /\ x.fd /\ x.begun /\ x.state # "RESOLVING"
      /\ ToldOnce(tcp) = ToldOnce(x)
  BY <1>0, <1>1, InHandler DEF OpenStates
<1>3. CASE "OUT" \in ev /\ tcp.state = "CONNECTING" /\ HandleConnected
  BY <1>0, <1>3, ConnectedKeeps
<1>4. CASE After(tcp, FALSE, "poll") /\ socket' = socket
  <2>1. After(x, FALSE, "poll") /\ socket'.conn = socket.conn
        /\ (socket.shut => socket'.shut) /\ socket' = q
    BY <1>1, <1>4
  <2>2. QED
    BY <1>0, <1>2, <2>1, HandlerKeeps
<1>5. CASE /\ socket.conn = "dead" \/ (socket.shut /\ tcp.out > 0)
           /\ After(InternalClose(tcp, TRUE), FALSE, "poll") /\ socket' = socket
  <2>1. PICK y : y = InternalClose(x, TRUE)
    OBVIOUS
  <2>2. Sound(y, q) /\ y.begun /\ y.state # "RESOLVING" /\ (ToldOnce(x) => ToldOnce(y))
    BY <1>1, <1>2, <1>5, <2>1, InternalCloseSound DEF MayLose
  <2>3. After(y, FALSE, "poll") /\ socket'.conn = socket.conn
        /\ (socket.shut => socket'.shut) /\ socket' = q
    BY <1>1, <1>5, <2>1
  <2>4. QED
    BY <1>0, <1>2, <2>2, <2>3, HandlerKeeps
<1>6. CASE \E res \in WriteAnswers(tcp, socket) :
              /\ After(WriteResult(res), FALSE, "poll")
              /\ socket' = SocketAfter(socket, Taken(tcp, socket), res)
  <2>1. PICK cb : cb = Taken(x, q)
    OBVIOUS
  <2>2. PICK z, r : z = [x EXCEPT !.out = @ - cb]
        /\ r = [q EXCEPT !.tx = @ + cb, !.sent = @ + cb]
    OBVIOUS
  <2>0. PICK res \in WriteAnswers(x, q) :
          After(WriteResult(res), FALSE, "poll") /\ p = SocketAfter(q, cb, res)
    BY <1>1, <1>6, <2>1
  <2>3. /\ res \in IF z.state = "FLUSHING" THEN {[conn |-> z, ok |-> TRUE]}
                   ELSE WriteHandlerResults(InvokeHandler(z))
        /\ After(IF res.ok THEN Emptied(res.conn)
                 ELSE InternalClose([res.conn EXCEPT !.forced = TRUE], TRUE), FALSE, "poll")
        /\ p = [q EXCEPT !.tx = @ + cb, !.sent = @ + cb,
                         !.shut = @ \/ (res.ok /\ Shuts(res.conn))]
    BY <2>0, <2>1, <2>2 DEF WriteAnswers, WriteResult, SocketAfter
  <2>4. r \in Sockets /\ Sound(z, r) /\ (ToldOnce(x) => ToldOnce(z))
    BY <1>2, <2>1, <2>2, TakenSound DEF Taken
  <2>5. z.begun /\ z.fd /\ z.state # "RESOLVING"
    BY <1>2, <2>2 DEF Sound, Connections
  <2>6. PICK y : y = res.conn
    OBVIOUS
  <2>7. Sound(y, r) /\ y.begun /\ y.state # "RESOLVING" /\ (ToldOnce(x) => ToldOnce(y))
    <3>1. CASE z.state = "FLUSHING"
      BY <2>3, <2>4, <2>5, <2>6, <3>1
    <3>2. CASE z.state # "FLUSHING"
      <4>1. PICK v : v = InvokeHandler(z)
        OBVIOUS
      <4>2. Sound(v, r) /\ v.begun /\ v.state # "RESOLVING" /\ (ToldOnce(x) => ToldOnce(v))
        BY <2>4, <2>5, <4>1, InvokeSound
      <4>3. res \in WriteHandlerResults(v)
        BY <2>3, <3>2, <4>1
      <4>4. QED
        BY <2>4, <2>6, <4>2, <4>3, HandlerSound
    <3>3. QED
      BY <3>1, <3>2
  <2>8. /\ p = [r EXCEPT !.shut = @ \/ (res.ok /\ Shuts(y))]
        /\ p \in Sockets /\ p.conn = q.conn /\ (q.shut => p.shut)
    <3>1. p = [r EXCEPT !.shut = @ \/ (res.ok /\ Shuts(y))]
      BY <1>2, <2>2, <2>3, <2>6 DEF Sockets
    <3>2. p \in Sockets
      BY <2>4, <3>1 DEF Sockets
    <3>3. QED
      BY <1>2, <2>2, <2>4, <3>1, <3>2 DEF Sockets
  <2>9. socket'.conn = socket.conn /\ (socket.shut => socket'.shut) /\ socket' = p
    BY <1>1, <2>8
  <2>10. CASE res.ok
    <3>1. PICK w : w = Emptied(y)
      OBVIOUS
    <3>2. p = [r EXCEPT !.shut = @ \/ Shuts(y)]
      BY <2>8, <2>10
    <3>3. Sound(w, p) /\ w.begun /\ w.state # "RESOLVING" /\ (ToldOnce(x) => ToldOnce(w))
      BY <2>4, <2>7, <2>8, <3>1, <3>2, EmptiedSound
    <3>4. After(w, FALSE, "poll")
      BY <2>3, <2>6, <2>10, <3>1
    <3>5. QED
      BY <1>0, <1>2, <2>8, <2>9, <3>3, <3>4, HandlerKeeps
  <2>11. CASE ~res.ok
    <3>1. PICK w : w = ForceClose(y)
      OBVIOUS
    <3>2. p = r
      BY <2>4, <2>8, <2>11 DEF Sockets
    <3>3. Sound(w, p) /\ w.begun /\ w.state # "RESOLVING" /\ (ToldOnce(x) => ToldOnce(w))
      BY <2>4, <2>7, <3>1, <3>2, ForcedSound
    <3>4. After(w, FALSE, "poll")
      BY <2>3, <2>6, <2>11, <3>1 DEF ForceClose
    <3>5. QED
      BY <1>0, <1>2, <2>8, <2>9, <3>3, <3>4, HandlerKeeps
  <2>12. QED
    BY <2>10, <2>11
<1>7. QED
  BY <1>3, <1>4, <1>5, <1>6
     DEF HandleWriteEvent, WriteAnswers, WriteResult, SocketAfter, Taken

LEMMA TcpStep == TcpInv /\ [TcpNext \/ Finished]_tcpVars => Keeps
<1>1. TcpInv /\ UNCHANGED tcpVars => Keeps
  BY DEF Keeps, TcpInv, TcpTypeOK, Kept, MayLose, EventsTrue, ToldOnce, tcpVars
<1>2. QED
  BY <1>1, ConnectKeeps, WrapKeeps, DnsResultKeeps, ApplicationKeeps, KernelKeeps,
     PollKeeps,
     ErrorEventKeeps, ReadEventKeeps, WriteEventKeeps, TimeoutKeeps
     DEF TcpNext, Loop, Finished

LEMMA TcpInitially == TcpInit => TcpInv /\ ToldOnce(tcp)
<1> SUFFICES ASSUME TcpInit PROVE TcpInv /\ ToldOnce(tcp)
  OBVIOUS
<1>1. /\ 0 \in 0..MaxOut /\ 0 \in 0..MaxIn /\ "DISCONNECTED" \in States
      /\ {} \in SUBSET {"r", "w"}
  BY TcpParameters DEF States
<1>2. tcp \in Connections
  BY <1>1 DEF TcpInit, NewConnection, Connections
<1>3. socket \in Sockets
  BY <1>1 DEF TcpInit, NewSocket, Sockets
<1>4. Kept(tcp, socket)
  BY DEF TcpInit, NewConnection, NewSocket, Kept, OpenStates
<1>5. QED
  BY <1>2, <1>3, <1>4 DEF TcpInit, NewConnection, TcpInv, TcpTypeOK, EventsTrue, ToldOnce

(* The connection and its socket keep their types: outbuf_ and what was     *)
(* sent stay within what was written, in every handler.                     *)
THEOREM TcpTypeCorrect == TcpSpec => []TcpTypeOK
<1>1. TcpInit => TcpInv
  BY TcpInitially
<1>2. TcpInv /\ [TcpNext \/ Finished]_tcpVars => TcpInv'
  BY TcpStep DEF Keeps
<1>3. TcpInv => TcpTypeOK
  BY DEF TcpInv
<1>4. QED
  BY <1>1, <1>2, <1>3, PTL DEF TcpSpec

(* Output is lost only where the application or a handler closes without a  *)
(* flush, or with the connection itself: through every sequence of events,  *)
(* calls and half closes, also where sockets cannot be made and where the   *)
(* application calls what the code cannot take (connection.cc:841-868,      *)
(* 949-972).                                                                *)
THEOREM FlushLosesNothing == TcpSpec => []NoOutputLost
<1>1. TcpInit => TcpInv
  BY TcpInitially
<1>2. TcpInv /\ [TcpNext \/ Finished]_tcpVars => TcpInv'
  BY TcpStep DEF Keeps
<1>3. TcpInv => NoOutputLost
  BY DEF TcpInv, Kept, MayLose, NoOutputLost
<1>4. QED
  BY <1>1, <1>2, <1>3, PTL DEF TcpSpec

(* Where sockets can be made the close handler runs with CLOSE_READ_WRITE   *)
(* exactly once, whichever of the handlers, the application, the resolver,  *)
(* the peer and the linger timeout ends the connection and however often    *)
(* they close it; no connect, read or write handler runs after it, and at   *)
(* most one CLOSE_READ, where the connection was closed by hand in its read *)
(* handler (connection.cc:784-785, 1071-1107).  Without descriptors it is   *)
(* false: HandleDnsResult runs the handler and leaves the state at          *)
(* RESOLVING (connection.cc:1130).                                          *)
THEOREM CloseHandlerRunsOnce ==
    ASSUME ~NoDescriptors PROVE TcpSpec => []ClosedOnce
<1>1. TcpInit => TcpInv /\ ToldOnce(tcp)
  BY TcpInitially
<1>2. TcpInv /\ ToldOnce(tcp) /\ [TcpNext \/ Finished]_tcpVars => TcpInv' /\ ToldOnce(tcp)'
  BY TcpStep DEF Keeps
<1>3. TcpInv /\ ToldOnce(tcp) => ClosedOnce
  BY DEF TcpInv, Kept, ToldOnce, ClosedOnce, OpenStates
<1>4. QED
  BY <1>1, <1>2, <1>3, PTL DEF TcpSpec
=============================================================================
