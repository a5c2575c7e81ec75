--------------------------- MODULE TcpConnection ---------------------------
(***************************************************************************)
(* One TcpConnection of whisperlib/net/connection.cc between its selector, *)
(* its application and the kernel.  All of it runs in the selector's       *)
(* thread: a poll takes the events of the socket, and the error, read and  *)
(* write handlers run on that snapshot one after the other                 *)
(* (selector.cc:173-199).  The kernel and the peer move at any time.       *)
(*                                                                         *)
(* The object is a record tcp; what the code does to it is a function from *)
(* records to records, so that InternalClose and Close can be called from  *)
(* every handler.  The kernel's side of the socket is the record socket.   *)
(***************************************************************************)
EXTENDS Integers, FiniteSets

CONSTANTS
    MaxOut,         \* bound: units the application writes
    MaxIn,          \* bound: units the peer sends
    NoDescriptors,  \* ::socket may fail
    Careless        \* the application calls where the code cannot take it

ASSUME TcpParameters ==
    /\ MaxOut \in Nat /\ MaxIn \in Nat
    /\ NoDescriptors \in BOOLEAN /\ Careless \in BOOLEAN

VARIABLES
    tcp,    \* the TcpConnection
    socket, \* the socket in the kernel, and the peer
    ev,     \* the events of the poll that is being dispatched
    step    \* the handler that runs next: "poll", "error", "read" or "write"

tcpVars == <<tcp, socket, ev, step>>

States == {"DISCONNECTED", "RESOLVING", "CONNECTING", "CONNECTED", "FLUSHING"}
Flags == {"IN", "OUT", "RDHUP", "HUP", "ERR"}

\* Fields that observe: begun, closes (CLOSE_READ_WRITE callbacks), after (a connect,
\* read or write handler ran after that one), late (CLOSE_READ callbacks after it),
\* written (units given to Write), forced (closed by the application without a
\* flush), crashed (a CHECK failed).
NewConnection ==
    [state |-> "DISCONNECTED", fd |-> FALSE, dns |-> FALSE, want |-> {},
     read_closed |-> TRUE, write_closed |-> TRUE, out |-> 0, linger |-> FALSE,
     begun |-> FALSE, closes |-> 0, after |-> FALSE, late |-> 0, written |-> 0,
     forced |-> FALSE, crashed |-> FALSE]

\* conn: "none", "syn", "est" or "dead" (refused or reset); rx: units to read;
\* fin: the peer has shut its side; shut: this side is shut; sent: units taken.
NewSocket == [conn |-> "none", rx |-> 0, tx |-> 0, fin |-> FALSE, shut |-> FALSE, sent |-> 0]

TcpInit == tcp = NewConnection /\ socket = NewSocket /\ ev = {} /\ step = "poll"

-----------------------------------------------------------------------------
(* The parts of the class that everything else calls.                       *)

InvokeHandler(x) == [x EXCEPT !.after = @ \/ x.closes > 0]
\* InvokeCloseHandler with CLOSE_READ.
InvokeHalfClose(x) == [x EXCEPT !.late = IF x.closes > 0 THEN @ + 1 ELSE @]

\* Every call of selector_ is behind CHECK_NOT_NULL; Unregister clears it.
Want(x, events) == IF x.fd THEN [x EXCEPT !.want = events] ELSE [x EXCEPT !.crashed = TRUE]

\* Variant: a connection that is closed already is closed again.
InternalCloseAgain(x, callCloseHandler) ==
    LET z == [x EXCEPT !.dns = FALSE, !.fd = FALSE, !.state = "DISCONNECTED", !.want = {},
                       !.read_closed = TRUE, !.write_closed = TRUE,
                       !.linger = FALSE, !.out = 0]
    IN  IF callCloseHandler THEN [z EXCEPT !.closes = @ + 1] ELSE z

InternalClose(x, callCloseHandler) ==
    LET y == [x EXCEPT !.dns = FALSE] IN
      IF x.state = "DISCONNECTED" THEN y
      ELSE LET z == [y EXCEPT !.fd = FALSE, !.state = "DISCONNECTED", !.want = {},
                              !.read_closed = TRUE, !.write_closed = TRUE,
                              !.linger = FALSE, !.out = 0]
           IN  IF callCloseHandler THEN [z EXCEPT !.closes = @ + 1] ELSE z

\* Close(CLOSE_WRITE), which is FlushAndClose.
Close(x) ==
    IF ~x.fd THEN [x EXCEPT !.crashed = @ \/ x.state # "DISCONNECTED"]
    ELSE IF x.write_closed THEN x
    ELSE Want([x EXCEPT !.state = "FLUSHING"], x.want \cup {"w"})

Write(x) == Want([x EXCEPT !.out = @ + 1, !.written = @ + 1], x.want \cup {"w"})
ForceClose(x) == InternalClose([x EXCEPT !.forced = TRUE], TRUE)

\* What the application may do inside a handler, or between events.
AppCalls(x) ==
    {x}
    \cup (IF x.written < MaxOut /\ x.state \in {"CONNECTED", "FLUSHING"} /\ ~x.write_closed
          THEN {Write(x)} ELSE {})
    \cup (IF x.fd \/ Careless THEN {Close(x)} ELSE {})
    \cup {ForceClose(x)}

\* The outcomes of a read handler: one that returns false has the connection
\* closed, one that closed it itself returns false (the HTTP server's) or true (the
\* HTTP client's, http_client_protocol.cc:227-232).
ReadHandlerResults(x) == [conn : AppCalls(x), ok : BOOLEAN]

\* No write handler of the repository closes and returns true: the code cannot take
\* it, RequestWriteEvents runs after it on a connection without a selector.
WriteHandlerResults(x) ==
    {res \in [conn : AppCalls(x), ok : BOOLEAN] : res.ok => res.conn.fd \/ Careless}

-----------------------------------------------------------------------------
(* Connect and its variants.                                                *)

Alive == ~tcp.crashed

\* The socket is created, registered and connecting; or ::connect fails at once.
Connecting(x) ==
    [x EXCEPT !.fd = TRUE, !.state = "CONNECTING", !.read_closed = FALSE,
              !.write_closed = FALSE, !.want = {"r", "w"}]

Connect ==
    /\ Alive /\ ~tcp.begun /\ step = "poll"
    /\ \/ /\ tcp' = [Connecting(tcp) EXCEPT !.begun = TRUE]
          /\ socket' = [socket EXCEPT !.conn = "syn"]
       \/ /\ tcp' = [tcp EXCEPT !.begun = TRUE, !.state = "RESOLVING", !.dns = TRUE]
          /\ UNCHANGED socket
    /\ UNCHANGED <<ev, step>>

\* The acceptor wraps a socket that is connected.
Wrap ==
    /\ Alive /\ ~tcp.begun /\ step = "poll"
    /\ tcp' = [tcp EXCEPT !.begun = TRUE, !.fd = TRUE, !.state = "CONNECTED",
                      !.read_closed = FALSE, !.write_closed = FALSE, !.want = {"r"}]
    /\ socket' = [socket EXCEPT !.conn = "est"]
    /\ UNCHANGED <<ev, step>>

\* The handle_dns_result_ that was given to the resolver is run, unless cancelled.
HandleDnsResult ==
    /\ Alive /\ tcp.dns /\ tcp.state = "RESOLVING" /\ step = "poll"
    /\ \/ /\ tcp' = [tcp EXCEPT !.dns = FALSE, !.state = "DISCONNECTED", !.closes = @ + 1]
          /\ UNCHANGED socket
       \/ /\ tcp' = [Connecting(tcp) EXCEPT !.dns = FALSE]
          /\ socket' = [socket EXCEPT !.conn = "syn"]
       \/ /\ tcp' = [InternalClose(Connecting(tcp), FALSE) EXCEPT !.closes = @ + 1]
          /\ UNCHANGED socket
       \/ /\ NoDescriptors
          /\ tcp' = [tcp EXCEPT !.dns = FALSE, !.closes = @ + 1]
          /\ UNCHANGED socket
    /\ UNCHANGED <<ev, step>>

\* The application calls from a callback of its own in the same selector, the
\* destructor included.
Application ==
    /\ Alive /\ tcp.begun /\ step = "poll" /\ tcp.state # "DISCONNECTED"
    /\ tcp' \in AppCalls(tcp) \ {tcp}
    /\ UNCHANGED <<socket, ev, step>>

-----------------------------------------------------------------------------
(* The kernel and the peer.                                                 *)

Ready ==
    IF socket.conn = "none" \/ socket.conn = "syn" THEN {}
    ELSE (IF "r" \in tcp.want /\ (socket.rx > 0 \/ socket.fin \/ socket.conn = "dead")
          THEN {"IN"} ELSE {})
         \cup (IF "r" \in tcp.want /\ (socket.fin \/ socket.conn = "dead") THEN {"RDHUP"} ELSE {})
         \cup (IF "w" \in tcp.want /\ (socket.tx < 1 \/ socket.conn = "dead") THEN {"OUT"} ELSE {})
         \cup (IF socket.conn = "dead" \/ (socket.fin /\ socket.shut) THEN {"HUP"} ELSE {})
         \cup (IF socket.conn = "dead" THEN {"ERR"} ELSE {})

Established == socket.conn = "syn" /\ socket' = [socket EXCEPT !.conn = "est"]
Reset == socket.conn \in {"syn", "est"} /\ socket' = [socket EXCEPT !.conn = "dead"]
PeerSends ==
    /\ socket.conn = "est" /\ ~socket.fin /\ socket.rx < MaxIn
    /\ socket' = [socket EXCEPT !.rx = @ + 1]
PeerShuts == socket.conn = "est" /\ ~socket.fin /\ socket' = [socket EXCEPT !.fin = TRUE]
PeerReads == socket.conn = "est" /\ socket.tx > 0 /\ socket' = [socket EXCEPT !.tx = @ - 1]

PeerTakes == tcp.fd /\ PeerReads /\ UNCHANGED <<tcp, ev, step>>
PeerAccepts == tcp.fd /\ Established /\ UNCHANGED <<tcp, ev, step>>

Kernel ==
    /\ tcp.fd
    /\ Established \/ Reset \/ PeerSends \/ PeerShuts \/ PeerReads
    /\ UNCHANGED <<tcp, ev, step>>

-----------------------------------------------------------------------------
(* One round of the selector.                                               *)

After(x, goOn, next) ==
    /\ tcp' = x
    /\ step' = IF x.crashed \/ ~goOn \/ ~x.fd THEN "poll" ELSE next

Poll ==
    /\ Alive /\ step = "poll" /\ tcp.fd /\ Ready # {}
    /\ ev' = Ready
    /\ step' = "error"
    /\ UNCHANGED <<tcp, socket>>

\* Variant: a peer that shuts its side ends the connection at once.
HandleErrorEventHangsUp ==
    /\ step = "error"
    /\ IF ev \cap {"ERR", "HUP", "RDHUP"} = {} THEN After(tcp, TRUE, "read")
       ELSE After(InternalClose(tcp, TRUE), FALSE, "poll")
    /\ UNCHANGED <<socket, ev>>

HandleErrorEvent ==
    /\ step = "error"
    /\ LET wc == [tcp EXCEPT !.write_closed = TRUE]
           fl == [tcp EXCEPT !.state = "FLUSHING"]
       IN  IF ev \cap {"ERR", "HUP", "RDHUP"} = {} THEN After(tcp, TRUE, "read")
           ELSE IF "ERR" \in ev THEN After(InternalClose(tcp, TRUE), FALSE, "poll")
           ELSE IF "HUP" \in ev
           THEN IF "IN" \in ev /\ tcp.state # "CONNECTING" THEN After(wc, TRUE, "read")
                ELSE After(InternalClose(wc, TRUE), FALSE, "poll")
           ELSE IF "IN" \in ev THEN After(fl, TRUE, "read")
           ELSE After(InternalClose(fl, TRUE), FALSE, "poll")
    /\ UNCHANGED <<socket, ev>>

\* The first event of a connection that connects: the connect handler runs.
HandleConnected ==
    /\ \E y \in AppCalls(InvokeHandler([tcp EXCEPT !.state = "CONNECTED"])) :
          After(y, y.state = "CONNECTED", IF step = "read" THEN "write" ELSE "poll")
    /\ UNCHANGED <<socket, ev>>

\* The end of HandleReadEvent: where the read half is closed, also by the read
\* handler itself, the close handler runs with CLOSE_READ.
HalfClosed(x) ==
    IF ~x.read_closed THEN {x}
    ELSE {IF y.fd THEN Close(Want(y, y.want \ {"r"})) ELSE y : y \in AppCalls(InvokeHalfClose(x))}

\* cb = 0: the half is closed when FLUSHING or write_closed_.
EndOfInput(x) ==
    HalfClosed([x EXCEPT !.read_closed = @ \/ x.write_closed \/ x.state = "FLUSHING"])

HandleReadEvent ==
    /\ step = "read"
    /\ \/ /\ "IN" \notin ev
          /\ After(tcp, TRUE, "write") /\ UNCHANGED <<socket, ev>>
       \/ "IN" \in ev /\ tcp.state = "CONNECTING" /\ HandleConnected
       \/ /\ "IN" \in ev /\ tcp.state # "CONNECTING" /\ socket.conn = "dead"
          /\ After(InternalClose(tcp, TRUE), FALSE, "poll") /\ UNCHANGED <<socket, ev>>
       \/ /\ "IN" \in ev /\ tcp.state # "CONNECTING" /\ socket.conn # "dead" /\ socket.rx > 0
          /\ socket' = [socket EXCEPT !.rx = @ - 1]
          /\ \E res \in ReadHandlerResults(InvokeHandler(tcp)) :
                IF res.ok THEN \E y \in HalfClosed(res.conn) : After(y, TRUE, "write")
                ELSE After(InternalClose([res.conn EXCEPT !.forced = TRUE], TRUE), FALSE, "poll")
          /\ UNCHANGED ev
       \/ /\ "IN" \in ev /\ tcp.state # "CONNECTING" /\ socket.conn # "dead" /\ socket.rx = 0
          /\ \E y \in EndOfInput(tcp) : After(y, TRUE, "write")
          /\ UNCHANGED <<socket, ev>>

\* Variant: no linger timeout after the flush.
EmptiedNoLinger(x) ==
    LET y == Want(x, x.want \ {"w"}) IN
      IF x.out > 0 \/ x.crashed THEN x
      ELSE IF x.state = "FLUSHING" THEN [y EXCEPT !.write_closed = TRUE]
      ELSE y

\* outbuf_ is empty: no more write events, and a flush that is over shuts the
\* write half and waits for the peer with the linger timeout.
Emptied(x) ==
    LET y == Want(x, x.want \ {"w"}) IN
      IF x.out > 0 \/ x.crashed THEN x
      ELSE IF x.state = "FLUSHING" THEN [y EXCEPT !.write_closed = TRUE, !.linger = TRUE]
      ELSE y

Shuts(x) == x.out = 0 /\ x.state = "FLUSHING" /\ x.fd

HandleWriteEvent ==
    /\ step = "write"
    /\ \/ /\ "OUT" \notin ev
          /\ After(tcp, FALSE, "poll") /\ UNCHANGED <<socket, ev>>
       \/ "OUT" \in ev /\ tcp.state = "CONNECTING" /\ HandleConnected
       \/ /\ "OUT" \in ev /\ tcp.state # "CONNECTING"
          /\ socket.conn = "dead" \/ (socket.shut /\ tcp.out > 0)
          /\ After(InternalClose(tcp, TRUE), FALSE, "poll") /\ UNCHANGED <<socket, ev>>
       \/ /\ "OUT" \in ev /\ tcp.state # "CONNECTING" /\ socket.conn # "dead"
          /\ tcp.out > 0 => ~socket.shut
          /\ LET cb == IF tcp.out > 0 /\ socket.tx = 0 THEN 1 ELSE 0
                 x == [tcp EXCEPT !.out = @ - cb]
             IN  \E res \in IF x.state = "FLUSHING" THEN {[conn |-> x, ok |-> TRUE]}
                            ELSE WriteHandlerResults(InvokeHandler(x)) :
                   LET y == IF res.ok THEN Emptied(res.conn)
                            ELSE InternalClose([res.conn EXCEPT !.forced = TRUE], TRUE)
                   IN  /\ After(y, FALSE, "poll")
                       /\ socket' = [socket EXCEPT !.tx = @ + cb, !.sent = @ + cb,
                                         !.shut = @ \/ (res.ok /\ Shuts(res.conn))]
          /\ UNCHANGED ev

\* The linger timeout.
HandleTimeoutEvent ==
    /\ Alive /\ step = "poll" /\ tcp.linger
    /\ tcp' = InternalClose(tcp, TRUE)
    /\ UNCHANGED <<socket, ev, step>>

Loop == Poll \/ HandleErrorEvent \/ HandleReadEvent \/ HandleWriteEvent

TcpNext ==
    \/ Connect \/ Wrap \/ HandleDnsResult \/ Application \/ Kernel \/ Loop \/ HandleTimeoutEvent

\* Nothing is left to do, or the process is gone.
Finished == (tcp.crashed \/ (tcp.begun /\ tcp.state = "DISCONNECTED")) /\ UNCHANGED tcpVars

TcpSpec == TcpInit /\ [][TcpNext \/ Finished]_tcpVars

\* The selector goes on, the resolver answers, and a peer that is there completes
\* the handshake and reads.  The linger alarm fires between two rounds of events,
\* however many rounds there are: strong fairness.
TcpFairness ==
    /\ WF_tcpVars(Loop) /\ SF_tcpVars(HandleTimeoutEvent) /\ WF_tcpVars(HandleDnsResult)
    /\ WF_tcpVars(PeerTakes) /\ WF_tcpVars(PeerAccepts)

FairTcpSpec == TcpSpec /\ TcpFairness

-----------------------------------------------------------------------------
(* The type invariant.                                                      *)
Connections ==
    [state : States, fd : BOOLEAN, dns : BOOLEAN, want : SUBSET {"r", "w"},
     read_closed : BOOLEAN, write_closed : BOOLEAN, out : 0..MaxOut, linger : BOOLEAN,
     begun : BOOLEAN, closes : Nat, after : BOOLEAN, late : Nat, written : 0..MaxOut,
     forced : BOOLEAN, crashed : BOOLEAN]

Sockets ==
    [conn : {"none", "syn", "est", "dead"}, rx : 0..MaxIn, tx : 0..1, fin : BOOLEAN,
     shut : BOOLEAN, sent : 0..MaxOut]

TcpTypeOK ==
    /\ tcp \in Connections /\ socket \in Sockets
    /\ ev \subseteq Flags /\ step \in {"poll", "error", "read", "write"}

(* A connection that was begun and is over has run the close handler with   *)
(* CLOSE_READ_WRITE exactly once; while it is open it has not.  After it no *)
(* connect, read or write handler runs, whose owner has let go of its       *)
(* protocol and waits to be deleted; only a read handler that closed the    *)
(* connection itself and returned true has CLOSE_READ follow, once          *)
(* (connection.cc:784-785, 1071-1107, 1119-1134).                           *)
ClosedOnce ==
    /\ tcp.closes = IF tcp.begun /\ tcp.state = "DISCONNECTED" THEN 1 ELSE 0
    /\ ~tcp.after
    /\ tcp.late <= tcp.closes /\ (tcp.late > 0 => tcp.forced)
    /\ tcp.fd <=> tcp.state \in {"CONNECTING", "CONNECTED", "FLUSHING"}

(* Output is only lost when the application or a handler closes without a   *)
(* flush or the connection is reset; a peer that has shut its own side      *)
(* still gets everything (connection.cc:949-972, 841-868).                  *)
NoOutputLost ==
    tcp.begun /\ tcp.state = "DISCONNECTED" /\ socket.sent < tcp.written =>
        tcp.forced \/ socket.conn = "dead" \/ socket.shut

(* A flush that has begun ends with the connection closed: data goes out,   *)
(* the half is shut, and the peer or the linger timeout ends the rest.      *)
FlushEnds == tcp.state = "FLUSHING" ~> (tcp.state = "DISCONNECTED" \/ tcp.crashed)
=============================================================================
