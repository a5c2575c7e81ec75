-------------------------- MODULE RaftServerProofs --------------------------
(***************************************************************************)
(* Proofs about RaftServer.                                                *)
(***************************************************************************)
EXTENDS RaftServer, FiniteSetTheorems, TLAPS

-----------------------------------------------------------------------------
(* The types of the members of a Server and of the RPCs.                   *)

Nobody == Servers \cup {NoOne}

ServerRecords ==
    [up : BOOLEAN, aborted : BOOLEAN, term : Terms, votedFor : Nobody,
     lastPos : Positions, lastTerm : Terms, commit : Positions, log : Seq(Entries),
     role : {"follower", "candidate", "leader"}, leaderId : Nobody,
     votes : SUBSET Servers, votesOut : Int, waiters : SUBSET (Positions \X Values),
     node : [Servers -> Nodes]]

\* A leader has a position to send from for every node.
ServerOK(s) ==
    s \in ServerRecords /\ (s.role = "leader" => \A j \in Servers : s.node[j].next \in Nat)

VoteReqs == [term : Terms, lastPos : Positions]
VoteResps == [answered : {TRUE}, granted : BOOLEAN, term : Terms]
AppendReqs ==
    [term : Terms, leader : Servers, lastTerm : Terms, lastPos : Positions,
     commit : Positions, entries : Seq(Entries)]
AppendResps ==
    [answered : {TRUE}, term : Terms, commit : Positions, current : BOOLEAN,
     success : BOOLEAN]

VoteCalls ==
    [kind : {"vote"}, from : Servers, to : Servers, req : VoteReqs,
     resp : VoteResps \cup {NoResp}, live : BOOLEAN]
AppendCalls ==
    [kind : {"append"}, from : Servers, to : Servers, req : AppendReqs,
     resp : AppendResps \cup {NoResp}, live : BOOLEAN]
Calls == {c \in VoteCalls \cup AppendCalls : c.from # c.to}

\* The AppendEntries from i to j whose answer is awaited.
Live(C, i, j) ==
    {c \in C : c.kind = "append" /\ c.live /\ c.from = i /\ c.to = j}

\* in_transfer_ of each node is that one of them is under way; a server that
\* is down awaits nothing.
TransferOK(C, i, s) ==
    \A j \in Servers :
        IF s.up /\ s.node[j].inTransfer
        THEN \E c : Live(C, i, j) = {c}
        ELSE Live(C, i, j) = {}

TransferInv ==
    /\ srv \in [Servers -> ServerRecords] /\ \A i \in Servers : ServerOK(srv[i])
    /\ calls \subseteq Calls
    /\ \A i \in Servers : TransferOK(calls, i, srv[i])

\* One request c went to the node j, which is n now.
Sent(s, i, j, n, c, r) ==
    /\ r.s = [s EXCEPT !.node[j] = n] /\ n.next \in Nat /\ n.inTransfer
    /\ r.sent = {c} /\ c.kind = "append" /\ c.live /\ c.from = i /\ c.to = j

\* The result of a handler that may send: what it leaves is well typed, the
\* commit position has not gone back, and in_transfer_ was set exactly for
\* the nodes something was sent to.
SendsOK(s, i, r) ==
    /\ ServerOK(r.s) /\ r.s.commit >= s.commit
    /\ r.sent \subseteq Calls /\ \A c \in r.sent : c.from = i /\ c.live
    /\ \A j \in Servers :
          IF r.s.node[j].inTransfer /\ ~s.node[j].inTransfer
          THEN \E c : Live(r.sent, i, j) = {c}
          ELSE /\ Live(r.sent, i, j) = {}
               /\ r.s.node[j].inTransfer = s.node[j].inTransfer

-----------------------------------------------------------------------------
(* Numbers: least elements, bounds of finite sets, and the median that     *)
(* MaybeAdvanceCommitLocked reads out of the sorted positions.             *)

(* A set of naturals that is not empty has a least element.                *)
LEMMA LeastNat ==
    ASSUME NEW T \in SUBSET Nat, T # {}
    PROVE  \E x \in T : \A y \in T : x <= y
  <1>1. PICK x \in T : \A y \in T : ~(<<y, x>> \in OpToRel(<, Nat))
    BY NatLessThanWellFounded, WFMin, Zenon
  <1>2. \A y \in T : <<y, x>> \in Nat \X Nat
    OBVIOUS
  <1>3. \A y \in T : ~(y < x)
    BY <1>1, <1>2 DEF OpToRel
  <1> QED BY <1>3

(* A finite set of integers has an upper bound.                            *)
LEMMA FiniteBounded ==
    ASSUME NEW S \in SUBSET Int, IsFiniteSet(S)
    PROVE  \E b \in Int : \A x \in S : x <= b
  <1> DEFINE Bounded(T) == \E b \in Int : \A x \in T : x <= b
             Bad == {n \in Nat : \E T \in SUBSET S : Cardinality(T) = n /\ ~Bounded(T)}
  <1>1. Bad = {}
    <2> SUFFICES ASSUME Bad # {} PROVE FALSE
      OBVIOUS
    <2>1. PICK n \in Bad : \A m \in Bad : n <= m
      BY LeastNat
    <2>2. PICK T \in SUBSET S : Cardinality(T) = n /\ ~Bounded(T)
      OBVIOUS
    <2>3. T # {}
      BY <2>2
    <2>4. PICK t \in T : TRUE
      BY <2>3
    <2>5. IsFiniteSet(T) /\ IsFiniteSet(T \ {t}) /\ Cardinality(T \ {t}) = Cardinality(T) - 1
          /\ Cardinality(T \ {t}) \in Nat
      BY FS_Subset, FS_RemoveElement, FS_CardinalityType
    <2>6. Cardinality(T \ {t}) \notin Bad
      <3>1. n \in Nat /\ Cardinality(T \ {t}) < n
        BY <2>2, <2>5
      <3> HIDE DEF Bad
      <3> QED BY <2>1, <2>5, <3>1
    <2>7. Bounded(T \ {t})
      BY <2>5, <2>6
    <2>8. PICK b \in Int : \A x \in T \ {t} : x <= b
      BY <2>7
    <2>9. CASE t <= b
      BY <2>2, <2>8, <2>9
    <2>10. CASE ~(t <= b)
      <3>1. t \in Int /\ \A x \in T : x <= t
        BY <2>8, <2>10
      <3> QED BY <2>2, <3>1
    <2> QED BY <2>9, <2>10
  <1>2. Cardinality(S) \in Nat
    BY FS_CardinalityType
  <1> QED BY <1>1, <1>2

(* Of finitely many positions there is one with at most mid below it and   *)
(* more than mid not above it.                                             *)
LEMMA MedianExists ==
    ASSUME NEW pos \in [Servers -> Positions], NEW mid \in Nat,
           IsFiniteSet(Servers), mid < Cardinality(Servers)
    PROVE  \E p \in Range(pos) :
               /\ Cardinality({j \in Servers : pos[j] < p}) <= mid
               /\ mid < Cardinality({j \in Servers : pos[j] <= p})
  <1> DEFINE Below(k) == {j \in Servers : pos[j] < k}
             K == {k \in Nat : mid < Cardinality(Below(k))}
  <1>1. \A k \in Int : IsFiniteSet(Below(k)) /\ Cardinality(Below(k)) \in Nat
    <2> SUFFICES ASSUME NEW k \in Int PROVE IsFiniteSet(Below(k)) /\ Cardinality(Below(k)) \in Nat
      OBVIOUS
    <2>1. Below(k) \subseteq Servers
      OBVIOUS
    <2> HIDE DEF Below
    <2> QED BY <2>1, FS_Subset, FS_CardinalityType
  <1>2. K # {}
    <2>1. IsFiniteSet(Range(pos)) /\ Range(pos) \subseteq Int
      <3>1. pos \in Surjection(Servers, Range(pos)) /\ Range(pos) \subseteq Int
        BY DEF Surjection, Range, Positions, Null
      <3> QED BY <3>1, FS_Surjection
    <2>2. PICK b \in Int : \A x \in Range(pos) : x <= b
      BY <2>1, FiniteBounded
    <2>3. PICK k \in Nat : k > b
      <3>1. CASE b < 0
        BY <3>1, 0 > b
      <3>2. CASE ~(b < 0)
        BY <3>2, b + 1 \in Nat, b + 1 > b
      <3> QED BY <3>1, <3>2
    <2>4. \A j \in Servers : pos[j] \in Range(pos) /\ pos[j] \in Int
      BY DEF Range, Positions, Null
    <2>5. Below(k) = Servers
      BY <2>2, <2>3, <2>4
    <2> QED BY <2>5
  <1>3. PICK k \in K : \A m \in K : k <= m
    BY <1>2, LeastNat
  <1> DEFINE p == k - 1
  <1>4. k \in Nat /\ p \in Int /\ mid < Cardinality(Below(k))
    BY <1>3
  <1>5. Cardinality(Below(p)) <= mid
    <2>1. CASE k = 0
      <3>1. Below(p) = {}
        BY <2>1 DEF Positions, Null
      <3> QED BY <3>1, FS_EmptySet
    <2>2. CASE k # 0
      <3>1. p \in Nat /\ p \notin K
        BY <1>3, <1>4, <2>2
      <3> QED BY <3>1, <1>1
    <2> QED BY <2>1, <2>2
  <1>6. {j \in Servers : pos[j] <= p} = Below(k)
    BY <1>4 DEF Positions, Null
  <1>7. p \in Range(pos)
    <2> SUFFICES ASSUME p \notin Range(pos) PROVE FALSE
      OBVIOUS
    <2>1. \A j \in Servers : pos[j] \in Int /\ pos[j] # p
      BY DEF Range, Positions, Null
    <2>2. Below(k) = Below(p)
      BY <2>1, <1>4
    <2> QED BY <2>2, <1>4, <1>5, <1>1
  <1> QED BY <1>4, <1>5, <1>6, <1>7

-----------------------------------------------------------------------------
(* What the handlers do to the members of one server.                      *)

(* A position is an integer, not below the null one.                       *)
LEMMA PositionFacts ==
    /\ Positions \subseteq Int /\ Null \in Positions /\ Nat \subseteq Positions
    /\ \A p \in Positions : p # Null => p \in Nat
    /\ \A p \in Positions : PullPos(p) \in Nat
  BY DEF Positions, Null, PullPos

LEMMA LastOf ==
    ASSUME NEW S, NEW q \in Seq(S), q # << >>
    PROVE  Last(q) \in S
  BY DEF Last

(* SendAppendEntriesToNodeLocked without fill: nothing while an answer is  *)
(* awaited, else one request, whose entries are records of the log.        *)
LEMMA SendAppendEntriesOne ==
    ASSUME NEW s, ServerOK(s), NEW i \in Servers, NEW j \in Servers, i # j,
           s.node[j].next \in Nat, RaftAssumption
    PROVE  /\ s.node[j].inTransfer => SendAppendEntries(s, i, j) = Just(s)
           /\ ~s.node[j].inTransfer =>
                \E n \in Nodes, c \in Calls : Sent(s, i, j, n, c, SendAppendEntries(s, i, j))
  <1> DEFINE n == s.node[j]
             upTo == SendsUpTo(s, n.next)
             entries == SubSeq(s.log, n.next + 1, upTo)
             req == [term |-> s.term, leader |-> i, lastTerm |-> n.lastTerm,
                     lastPos |-> n.last, commit |-> s.commit, entries |-> entries]
             moved == IF entries = << >> THEN n
                      ELSE [n EXCEPT !.next = upTo, !.last = Last(entries).pos,
                                     !.lastTerm = Last(entries).term]
             m == [moved EXCEPT !.inTransfer = TRUE]
             c == Call("append", i, j, req)
  <1>1. /\ n \in Nodes /\ s.log \in Seq(Entries) /\ Len(s.log) \in Nat /\ n.next \in Nat
        /\ s.term \in Terms /\ s.commit \in Positions
    BY DEF ServerOK, ServerRecords
  <1>11. upTo \in Nat /\ upTo <= Len(s.log)
    BY <1>1 DEF SendsUpTo, Tell, RaftAssumption
  <1>2. entries \in Seq(Entries)
    <2> HIDE DEF upTo
    <2> QED BY <1>1, <1>11, SMTT(30)
  <1>3. req \in AppendReqs
    BY <1>1, <1>2 DEF AppendReqs, Nodes
  <1>4. c \in Calls
    BY <1>3 DEF Calls, Call, AppendCalls, NoResp
  <1>5. m \in Nodes /\ m.next \in Nat /\ m.inTransfer
    <2>1. CASE entries = << >>
      BY <2>1, <1>1 DEF Nodes
    <2>2. CASE entries # << >>
      <3>1. Last(entries) \in Entries
        BY <2>2, <1>2, LastOf
      <3>2. Last(entries).pos \in Positions /\ Last(entries).term \in Terms
        BY <3>1 DEF Entries
      <3>3. upTo \in Nat /\ upTo \in Positions
        BY <1>11, PositionFacts
      <3> HIDE DEF entries, upTo
      <3> QED BY <3>2, <3>3, <2>2, <1>1 DEF Nodes
    <2> QED BY <2>1, <2>2
  <1>6. ~s.node[j].inTransfer =>
            SendAppendEntries(s, i, j) = [s |-> [s EXCEPT !.node[j] = m], sent |-> {c}]
    BY DEF SendAppendEntries
  <1>7. c.kind = "append" /\ c.live /\ c.from = i /\ c.to = j
    BY DEF Call
  <1>8. s.node[j].inTransfer => SendAppendEntries(s, i, j) = Just(s)
    BY DEF SendAppendEntries
  <1> HIDE DEF m, c
  <1>9. ASSUME ~s.node[j].inTransfer
        PROVE  /\ SendAppendEntries(s, i, j).s = [s EXCEPT !.node[j] = m]
               /\ SendAppendEntries(s, i, j).sent = {c}
    BY <1>6, <1>9
  <1>10. ~s.node[j].inTransfer => Sent(s, i, j, m, c, SendAppendEntries(s, i, j))
    BY <1>5, <1>7, <1>9 DEF Sent
  <1> QED BY <1>4, <1>5, <1>8, <1>10

(* A new value for one node.                                               *)
LEMMA SetNode ==
    ASSUME NEW s, ServerOK(s), NEW j \in Servers, NEW n \in Nodes,
           s.role = "leader" => n.next \in Nat
    PROVE  /\ ServerOK([s EXCEPT !.node[j] = n])
           /\ [s EXCEPT !.node[j] = n].node = [s.node EXCEPT ![j] = n]
           /\ [s EXCEPT !.node[j] = n].commit = s.commit
  <1> DEFINE t == [s EXCEPT !.node[j] = n]
  <1>1. t \in ServerRecords /\ t.role = s.role /\ t.commit = s.commit
        /\ t.node = [s.node EXCEPT ![j] = n]
    BY DEF ServerOK, ServerRecords
  <1>2. \A k \in Servers : t.node[k] = IF k = j THEN n ELSE s.node[k]
    BY DEF ServerOK, ServerRecords
  <1> HIDE DEF t
  <1>3. ServerOK(t)
    BY <1>1, <1>2 DEF ServerOK
  <1> QED BY <1>1, <1>3 DEF t

LEMMA CommitNumber ==
    ASSUME NEW s, ServerOK(s)
    PROVE  s.commit \in Int /\ s.commit >= s.commit
  <1>1. s.commit \in Positions
    BY DEF ServerOK, ServerRecords
  <1> QED BY <1>1 DEF Positions, Null

(* A handler that sends nothing and leaves in_transfer_ alone ...          *)
LEMMA NothingSent ==
    ASSUME NEW s, NEW t, NEW i, ServerOK(t), t.commit >= s.commit,
           \A j \in Servers : t.node[j].inTransfer = s.node[j].inTransfer
    PROVE  SendsOK(s, i, Just(t))
  <1>1. Just(t).s = t /\ Just(t).sent = {}
    BY DEF Just
  <1>2. \A j \in Servers : Live({}, i, j) = {}
    BY DEF Live
  <1> QED BY <1>1, <1>2 DEF SendsOK

(* ... and one that sends one request to a node that awaits nothing.       *)
LEMMA OneSent ==
    ASSUME NEW s, ServerOK(s), NEW i, NEW j \in Servers, NEW n \in Nodes, NEW c \in Calls,
           NEW r, Sent(s, i, j, n, c, r), ~s.node[j].inTransfer
    PROVE  SendsOK(s, i, r)
  <1> USE DEF Sent
  <1>1. ServerOK(r.s) /\ r.s.commit = s.commit /\ r.s.node = [s.node EXCEPT ![j] = n]
    BY SetNode
  <1>2. r.s.node[j] = n /\ \A k \in Servers \ {j} : r.s.node[k] = s.node[k]
    BY <1>1 DEF ServerOK, ServerRecords
  <1>3. Live(r.sent, i, j) = {c} /\ \A k \in Servers \ {j} : Live(r.sent, i, k) = {}
    BY DEF Live
  <1>4. \A k \in Servers :
          IF r.s.node[k].inTransfer /\ ~s.node[k].inTransfer
          THEN \E d : Live(r.sent, i, k) = {d}
          ELSE /\ Live(r.sent, i, k) = {}
               /\ r.s.node[k].inTransfer = s.node[k].inTransfer
    BY <1>2, <1>3
  <1> QED BY <1>1, <1>4, CommitNumber DEF SendsOK

(* The same as the result of a handler.                                    *)
LEMMA SendAppendEntriesOK ==
    ASSUME NEW s, ServerOK(s), NEW i \in Servers, NEW j \in Servers, i # j,
           s.node[j].next \in Nat, RaftAssumption
    PROVE  SendsOK(s, i, SendAppendEntries(s, i, j))
  <1> DEFINE r == SendAppendEntries(s, i, j)
  <1>1. CASE s.node[j].inTransfer
    <2>1. r = Just(s)
      BY <1>1, SendAppendEntriesOne
    <2> QED BY <2>1, NothingSent, CommitNumber
  <1>2. CASE ~s.node[j].inTransfer
    <2>1. PICK n \in Nodes, c \in Calls : Sent(s, i, j, n, c, r)
      BY <1>2, SendAppendEntriesOne
    <2> QED BY <1>2, <2>1, OneSent
  <1> QED BY <1>1, <1>2

(* DegradeNodeLocked's request with fill: one record, to a node that awaits*)
(* nothing.                                                                *)
LEMMA SendFilledEntryOK ==
    ASSUME NEW s, ServerOK(s), NEW i \in Servers, NEW j \in Servers, i # j,
           NEW p \in Nat, p < Tell(s), ~s.node[j].inTransfer, RaftAssumption
    PROVE  SendsOK(s, i, SendFilledEntry(s, i, j, p))
  <1> DEFINE r == SendFilledEntry(s, i, j, p)
             e == Record(s, p)
             req == [term |-> s.term, leader |-> i, lastTerm |-> e.prevTerm,
                     lastPos |-> e.prevPos, commit |-> s.commit, entries |-> <<e>>]
             n == [s.node[j] EXCEPT !.next = p + 1, !.last = e.pos,
                                    !.lastTerm = e.term, !.inTransfer = TRUE]
             c == Call("append", i, j, req)
  <1>1. s.log \in Seq(Entries) /\ s.term \in Terms /\ s.commit \in Positions /\ s.node[j] \in Nodes
    BY DEF ServerOK, ServerRecords
  <1>2. e \in Entries
    BY <1>1 DEF Record, Tell
  <1>3. req \in AppendReqs
    <2> HIDE DEF e
    <2> QED BY <1>1, <1>2 DEF AppendReqs, Entries
  <1>4. c \in Calls
    BY <1>3 DEF Calls, Call, AppendCalls, NoResp
  <1>5. n \in Nodes /\ n.next \in Nat /\ n.inTransfer
    <2>1. e.pos \in Positions /\ e.term \in Terms /\ p + 1 \in Positions /\ p + 1 \in Nat
      BY <1>2, PositionFacts DEF Entries
    <2> HIDE DEF e
    <2> QED BY <1>1, <2>1 DEF Nodes
  <1>6. r.s = [s EXCEPT !.node[j] = n] /\ r.sent = {c}
    BY DEF SendFilledEntry
  <1>7. c.kind = "append" /\ c.live /\ c.from = i /\ c.to = j
    BY DEF Call
  <1> HIDE DEF n, c
  <1>8. Sent(s, i, j, n, c, r)
    BY <1>5, <1>6, <1>7 DEF Sent
  <1> QED BY <1>4, <1>5, <1>8, OneSent

(* SendsOK looks at the commit position and in_transfer_ only.             *)
LEMMA SendsFrom ==
    ASSUME NEW s, NEW t, ServerOK(s), ServerOK(t), NEW i, NEW r, SendsOK(t, i, r),
           t.commit >= s.commit,
           \A j \in Servers : t.node[j].inTransfer = s.node[j].inTransfer
    PROVE  SendsOK(s, i, r)
  <1>1. r.s.commit >= s.commit
    BY CommitNumber DEF SendsOK
  <1> QED BY <1>1 DEF SendsOK

(* The loops that send to several nodes.                                   *)
LEMMA SendToAllOK ==
    ASSUME NEW s, ServerOK(s), s.role = "leader", NEW i \in Servers,
           NEW Js \in SUBSET Servers, RaftAssumption
    PROVE  SendsOK(s, i, SendToAll(s, i, Js))
  <1> DEFINE one(j) == SendAppendEntries(s, i, j)
             f == [j \in Servers |-> IF j \in Js \ {i} THEN one(j).s.node[j] ELSE s.node[j]]
             r == SendToAll(s, i, Js)
  <1>1. r.s = [s EXCEPT !.node = f] /\ r.sent = UNION {one(j).sent : j \in Js \ {i}}
    BY DEF SendToAll
  <1>2. ASSUME NEW j \in Servers \ {i}
        PROVE  /\ SendsOK(s, i, one(j)) /\ \A c \in one(j).sent : c.to = j
               /\ one(j).s.node[j] \in Nodes /\ one(j).s.node[j].next \in Nat
    <2>1. s.node[j].next \in Nat /\ s.node[j] \in Nodes
      BY DEF ServerOK, ServerRecords
    <2>2. SendsOK(s, i, one(j))
      BY <2>1, SendAppendEntriesOK
    <2>3. CASE s.node[j].inTransfer
      <3>1. one(j) = Just(s)
        BY <2>1, <2>3, SendAppendEntriesOne
      <3> QED BY <3>1, <2>1, <2>2 DEF Just
    <2>4. CASE ~s.node[j].inTransfer
      <3>1. PICK n \in Nodes, c \in Calls : Sent(s, i, j, n, c, one(j))
        BY <2>1, <2>4, SendAppendEntriesOne
      <3>2. one(j).s.node = [s.node EXCEPT ![j] = n] /\ n.next \in Nat
        BY <3>1, SetNode DEF Sent
      <3>3. one(j).s.node[j] = n
        BY <3>2 DEF ServerOK, ServerRecords
      <3> QED BY <3>1, <3>2, <3>3, <2>2 DEF Sent
    <2> QED BY <2>3, <2>4
  <1> HIDE DEF one
  <1>3. f \in [Servers -> Nodes] /\ \A j \in Servers : f[j].next \in Nat
    BY <1>2 DEF ServerOK, ServerRecords
  <1>4. ASSUME NEW j \in Servers
        PROVE  IF r.s.node[j].inTransfer /\ ~s.node[j].inTransfer
               THEN \E c : Live(r.sent, i, j) = {c}
               ELSE /\ Live(r.sent, i, j) = {}
                    /\ r.s.node[j].inTransfer = s.node[j].inTransfer
    <2>1. r.s.node = f
      BY <1>1 DEF ServerOK, ServerRecords
    <2>2. CASE j \in Js \ {i}
      <3>1. Live(r.sent, i, j) = Live(one(j).sent, i, j)
        <4>1. \A c \in r.sent : c.to = j => c \in one(j).sent
          BY <1>1, <1>2
        <4>2. one(j).sent \subseteq r.sent
          BY <1>1, <2>2
        <4> QED BY <4>1, <4>2 DEF Live
      <3>2. r.s.node[j] = one(j).s.node[j]
        BY <2>1, <2>2
      <3>3. SendsOK(s, i, one(j))
        BY <1>2, <2>2
      <3> QED BY <3>1, <3>2, <3>3 DEF SendsOK
    <2>3. CASE j \notin Js \ {i}
      <3>1. Live(r.sent, i, j) = {}
        <4>1. \A c \in r.sent : c.to # j
          BY <1>1, <1>2, <2>3
        <4> QED BY <4>1 DEF Live
      <3>2. r.s.node[j] = s.node[j]
        BY <2>1, <2>3
      <3> QED BY <3>1, <3>2
    <2> QED BY <2>2, <2>3
  <1>5. r.sent \subseteq Calls /\ \A c \in r.sent : c.from = i /\ c.live
    <2>1. \A j \in Js \ {i} : SendsOK(s, i, one(j))
      BY <1>2
    <2> QED BY <1>1, <2>1 DEF SendsOK
  <1>6. ServerOK(r.s) /\ r.s.commit = s.commit
    <2> HIDE DEF f
    <2>1. r.s \in ServerRecords /\ r.s.node = f /\ r.s.commit = s.commit
      BY <1>1, <1>3 DEF ServerOK, ServerRecords
    <2> QED BY <2>1, <1>3 DEF ServerOK
  <1> QED BY <1>4, <1>5, <1>6, CommitNumber DEF SendsOK

(* A failed CHECK: the members stay, the process ends.                     *)
LEMMA AbortOK ==
    ASSUME NEW s, ServerOK(s), NEW i
    PROVE  SendsOK(s, i, Abort(s))
  <1> DEFINE t == [s EXCEPT !.up = FALSE, !.aborted = TRUE]
  <1>1. t \in ServerRecords /\ t.role = s.role /\ t.node = s.node /\ t.commit = s.commit
    BY DEF ServerOK, ServerRecords
  <1> HIDE DEF t
  <1>2. ServerOK(t)
    BY <1>1 DEF ServerOK
  <1>3. SendsOK(s, i, Just(t))
    BY <1>1, <1>2, NothingSent, CommitNumber
  <1> QED BY <1>3 DEF Abort, t

(* BecomeLeaderLocked: every node starts behind the last record.           *)
LEMMA BecomeLeaderOK ==
    ASSUME NEW s, ServerOK(s), NEW i \in Servers, RaftAssumption
    PROVE  SendsOK(s, i, BecomeLeader(s, i))
  <1> DEFINE next == IF s.lastPos = Null THEN 0 ELSE s.lastPos + 1
             start(j) == [s.node[j] EXCEPT
                             !.next = next, !.last = s.lastPos, !.lastTerm = s.lastTerm,
                             !.match = IF j = i THEN s.lastPos ELSE Null]
             f == [j \in Servers |-> start(j)]
             l == [s EXCEPT !.role = "leader", !.votedFor = i, !.leaderId = i, !.node = f]
  <1>1. s.lastPos \in Positions /\ s.lastTerm \in Terms /\ s.node \in [Servers -> Nodes]
    BY DEF ServerOK, ServerRecords
  <1>2. next \in Nat /\ next \in Positions /\ Null \in Positions
    BY <1>1 DEF Positions, Null
  <1>3. \A j \in Servers : /\ start(j) \in Nodes /\ start(j).next \in Nat
                           /\ start(j).inTransfer = s.node[j].inTransfer
    <2> HIDE DEF next
    <2> QED BY <1>1, <1>2 DEF Nodes
  <1> HIDE DEF start
  <1>4. f \in [Servers -> Nodes] /\ \A j \in Servers : f[j] = start(j)
    BY <1>3
  <1> HIDE DEF f
  <1>5. l \in ServerRecords /\ l.node = f /\ l.role = "leader" /\ l.commit = s.commit
    BY <1>4 DEF ServerOK, ServerRecords, Nobody
  <1>6. BecomeLeader(s, i) = IF s.lastPos # Null /\ ~CanPull(s, s.lastPos) THEN Abort(s)
                             ELSE SendToAll(l, i, Servers)
    BY DEF BecomeLeader, SendHeartbeatToFollowers, f, start, next
  <1> HIDE DEF l
  <1>7. ServerOK(l)
    BY <1>3, <1>4, <1>5 DEF ServerOK
  <1>8. SendsOK(l, i, SendToAll(l, i, Servers))
    BY <1>5, <1>7, SendToAllOK
  <1>9. SendsOK(s, i, SendToAll(l, i, Servers))
    <2>1. \A j \in Servers : l.node[j].inTransfer = s.node[j].inTransfer
      BY <1>3, <1>4, <1>5
    <2>2. l.commit >= s.commit
      BY <1>5, CommitNumber
    <2> QED BY <1>7, <1>8, <2>1, <2>2, SendsFrom
  <1> QED BY <1>6, <1>9, AbortOK

(* ProcessRequestVoteResponse.                                             *)
LEMMA ProcessVoteResponseOK ==
    ASSUME NEW s, ServerOK(s), NEW i \in Servers, NEW c, NEW failed, RaftAssumption
    PROVE  SendsOK(s, i, ProcessVoteResponse(s, i, c, failed))
  <1> DEFINE v == [s EXCEPT !.votes = Servers]
             elected == ~failed /\ s.role = "candidate" /\ c.resp.granted
             r == IF elected /\ Cardinality(Servers) >= (Cardinality(Servers) \div 2) + 1
                  THEN BecomeLeader(v, i) ELSE Just(s)
             out == [r.s EXCEPT !.votesOut = @ - 1]
             t == IF out.up /\ out.votesOut = 0 /\ out.role = "candidate"
                  THEN BecomeFollower(out, NoOne) ELSE out
  <1>1. ProcessVoteResponse(s, i, c, failed) = [s |-> t, sent |-> r.sent]
    BY DEF ProcessVoteResponse
  <1>2. SendsOK(s, i, r)
    <2>1. v \in ServerRecords /\ v.node = s.node /\ v.commit = s.commit /\ v.role = s.role
      BY DEF ServerOK, ServerRecords
    <2> HIDE DEF v
    <2>2. ServerOK(v)
      BY <2>1 DEF ServerOK
    <2>3. SendsOK(v, i, BecomeLeader(v, i))
      BY <2>2, BecomeLeaderOK
    <2>4. SendsOK(s, i, BecomeLeader(v, i))
      BY <2>1, <2>2, <2>3, SendsFrom, CommitNumber
    <2>5. SendsOK(s, i, Just(s))
      BY NothingSent, CommitNumber
    <2> HIDE DEF elected
    <2> QED BY <2>4, <2>5
  <1> HIDE DEF r
  <1>3. r.s \in ServerRecords
    BY <1>2 DEF SendsOK, ServerOK
  <1>4. out \in ServerRecords /\ out.node = r.s.node /\ out.commit = r.s.commit /\ out.role = r.s.role
    <2> DEFINE n == r.s.votesOut - 1
    <2>1. n \in Int
      BY <1>3 DEF ServerRecords
    <2>2. out = [r.s EXCEPT !.votesOut = n]
      OBVIOUS
    <2> HIDE DEF n, out
    <2> QED BY <1>3, <2>1, <2>2 DEF ServerRecords
  <1> HIDE DEF out
  <1>5. t \in ServerRecords /\ t.node = r.s.node /\ t.commit = r.s.commit
        /\ (t.role = "leader" => r.s.role = "leader")
    BY <1>4 DEF BecomeFollower, ServerRecords, Nobody
  <1> HIDE DEF t
  <1>6. ServerOK(t)
    BY <1>2, <1>5 DEF SendsOK, ServerOK
  <1>7. /\ ProcessVoteResponse(s, i, c, failed).s = t
        /\ ProcessVoteResponse(s, i, c, failed).sent = r.sent
    BY <1>1
  <1> QED BY <1>2, <1>5, <1>6, <1>7 DEF SendsOK

(* MaybeAdvanceCommitLocked: the median exists and is a position, so the   *)
(* commit position only grows.                                             *)
LEMMA MaybeAdvanceCommitOK ==
    ASSUME NEW s, ServerOK(s), NEW i \in Servers, RaftAssumption
    PROVE  /\ ServerOK(MaybeAdvanceCommit(s, i))
           /\ MaybeAdvanceCommit(s, i).commit >= s.commit
           /\ MaybeAdvanceCommit(s, i).node = s.node
           /\ MaybeAdvanceCommit(s, i).role = s.role
  <1> DEFINE pos == MatchPos(s, i)
             mid == (Cardinality(Servers) - 1) \div 2
             p == CanCommit(s, i)
  <1>1. pos \in [Servers -> Positions]
    BY DEF MatchPos, ServerOK, ServerRecords, Nodes
  <1>2. Cardinality(Servers) \in Nat /\ Cardinality(Servers) # 0
    BY FS_CardinalityType, FS_EmptySet DEF RaftAssumption
  <1>3. mid \in Nat /\ mid < Cardinality(Servers)
    BY <1>2
  <1>4. p = CHOOSE q \in Range(pos) : /\ Cardinality({j \in Servers : pos[j] < q}) <= mid
                                      /\ mid < Cardinality({j \in Servers : pos[j] <= q})
    BY DEF CanCommit
  <1> HIDE DEF pos, mid
  <1>5. \E q \in Range(pos) : /\ Cardinality({j \in Servers : pos[j] < q}) <= mid
                              /\ mid < Cardinality({j \in Servers : pos[j] <= q})
    BY <1>1, <1>3, MedianExists DEF RaftAssumption
  <1>6. p \in Range(pos)
    BY <1>4, <1>5
  <1>7. p \in Positions
    BY <1>1, <1>6 DEF Range
  <1>8. CASE p <= s.commit
    BY <1>8, CommitNumber DEF MaybeAdvanceCommit
  <1>9. CASE ~(p <= s.commit)
    <2> DEFINE W == {w \in s.waiters : w[1] > p}
               t == [s EXCEPT !.commit = p, !.waiters = W]
    <2>1. MaybeAdvanceCommit(s, i) = t
      BY <1>9 DEF MaybeAdvanceCommit
    <2>2. W \subseteq s.waiters
      OBVIOUS
    <2> HIDE DEF W, p
    <2>3. t \in ServerRecords /\ t.node = s.node /\ t.role = s.role /\ t.commit = p
      BY <1>7, <2>2 DEF ServerOK, ServerRecords
    <2> HIDE DEF t
    <2>4. ServerOK(t)
      BY <2>3 DEF ServerOK
    <2>5. p >= s.commit
      BY <1>7, <1>9, CommitNumber DEF Positions, Null
    <2> QED BY <2>1, <2>3, <2>4, <2>5
  <1> QED BY <1>8, <1>9

(* UpdateCurrentTermLocked.                                                *)
LEMMA UpdateCurrentTermOK ==
    ASSUME NEW s, ServerOK(s), NEW term \in Terms, NEW leader \in Nobody
    PROVE  /\ ServerOK(UpdateCurrentTerm(s, term, leader))
           /\ UpdateCurrentTerm(s, term, leader).commit = s.commit
           /\ UpdateCurrentTerm(s, term, leader).node = s.node
           /\ UpdateCurrentTerm(s, term, leader).role = "follower"
  <1> DEFINE t == UpdateCurrentTerm(s, term, leader)
  <1>1. t \in ServerRecords /\ t.commit = s.commit /\ t.node = s.node /\ t.role = "follower"
    BY DEF UpdateCurrentTerm, BecomeFollower, ServerOK, ServerRecords
  <1> HIDE DEF t
  <1>2. ServerOK(t)
    BY <1>1 DEF ServerOK
  <1> QED BY <1>1, <1>2 DEF t

(* DegradeNodeLocked, of a node whose answer has arrived.                  *)
LEMMA DegradeNodeOK ==
    ASSUME NEW s, ServerOK(s), s.role = "leader", NEW i \in Servers, NEW j \in Servers, i # j,
           ~s.node[j].inTransfer, NEW c \in AppendCalls, c.resp \in AppendResps, RaftAssumption
    PROVE  SendsOK(s, i, DegradeNode(s, i, j, c))
  <1> DEFINE p == c.req.lastPos
             back == c.resp.commit
             at(q) == [s.node[j] EXCEPT !.next = PullPos(q) + 1,
                                        !.last = Record(s, PullPos(q)).pos,
                                        !.lastTerm = Record(s, PullPos(q)).term]
             first == [s.node[j] EXCEPT !.next = 0, !.last = Null, !.lastTerm = 0]
  <1>1. /\ p \in Positions /\ back \in Positions
        /\ s.node[j] \in Nodes /\ s.log \in Seq(Entries) /\ 0 \in Terms
    BY DEF AppendCalls, AppendReqs, AppendResps, ServerOK, ServerRecords, RaftAssumption, Terms
  <1>2. s.node[j].inTransfer = FALSE
    BY <1>1 DEF Nodes
  <1>3. ASSUME NEW n \in Nodes, n.next \in Nat, ~n.inTransfer
        PROVE  SendsOK(s, i, SendAppendEntries([s EXCEPT !.node[j] = n], i, j))
    <2> DEFINE t == [s EXCEPT !.node[j] = n]
    <2>1. ServerOK(t) /\ t.commit = s.commit /\ t.node = [s.node EXCEPT ![j] = n]
      BY <1>3, SetNode
    <2>2. t.node[j] = n /\ \A k \in Servers : t.node[k].inTransfer = s.node[k].inTransfer
      <3>1. t.node[j] = n /\ \A k \in Servers \ {j} : t.node[k] = s.node[k]
        BY <2>1 DEF ServerOK, ServerRecords
      <3>2. n.inTransfer = FALSE
        BY <1>3 DEF Nodes
      <3> QED BY <3>1, <3>2, <1>2
    <2> HIDE DEF t
    <2>3. SendsOK(t, i, SendAppendEntries(t, i, j))
      BY <1>3, <2>1, <2>2, SendAppendEntriesOK
    <2>4. SendsOK(s, i, SendAppendEntries(t, i, j))
      BY <2>1, <2>2, <2>3, SendsFrom, CommitNumber
    <2> QED BY <2>4 DEF t
  <1>4. CASE p = Null
    <2>1. first \in Nodes /\ first.next \in Nat /\ ~first.inTransfer
      BY <1>1, PositionFacts DEF Nodes
    <2>2. DegradeNode(s, i, j, c) = SendAppendEntries([s EXCEPT !.node[j] = first], i, j)
      BY <1>4 DEF DegradeNode
    <2> HIDE DEF first
    <2> QED BY <2>1, <2>2, <1>3
  <1>5. CASE p # Null /\ c.resp.current /\ back < p
    <2>1. CASE CanPull(s, back)
      <3>1. PullPos(back) \in Nat /\ PullPos(back) < Len(s.log)
        BY <1>1, <2>1, PositionFacts DEF CanPull, Tell
      <3>2. Record(s, PullPos(back)) \in Entries
        BY <1>1, <3>1 DEF Record
      <3>3. /\ PullPos(back) + 1 \in Nat /\ PullPos(back) + 1 \in Positions
            /\ Record(s, PullPos(back)).pos \in Positions /\ Record(s, PullPos(back)).term \in Terms
        BY <3>1, <3>2 DEF Positions, Entries
      <3>4. at(back) \in Nodes /\ at(back).next \in Nat /\ ~at(back).inTransfer
        BY <1>1, <3>3 DEF Nodes
      <3>5. DegradeNode(s, i, j, c) = SendAppendEntries([s EXCEPT !.node[j] = at(back)], i, j)
        BY <1>5, <2>1 DEF DegradeNode
      <3> HIDE DEF at
      <3> QED BY <3>4, <3>5, <1>3
    <2>2. CASE ~CanPull(s, back)
      <3>1. DegradeNode(s, i, j, c) = Abort(s)
        BY <1>5, <2>2 DEF DegradeNode
      <3> QED BY <3>1, AbortOK
    <2> QED BY <2>1, <2>2
  <1>6. CASE p # Null /\ ~(c.resp.current /\ back < p)
    <2>1. CASE CanPull(s, p)
      <3>1. DegradeNode(s, i, j, c) = SendFilledEntry(s, i, j, p)
        BY <1>6, <2>1 DEF DegradeNode
      <3>2. p \in Nat /\ p < Tell(s)
        BY <1>1, <1>6, <2>1 DEF CanPull, PullPos, Positions
      <3> QED BY <3>1, <3>2, SendFilledEntryOK
    <2>2. CASE ~CanPull(s, p)
      <3>1. DegradeNode(s, i, j, c) = Abort(s)
        BY <1>6, <2>2 DEF DegradeNode
      <3> QED BY <3>1, AbortOK
    <2> QED BY <2>1, <2>2
  <1> QED BY <1>4, <1>5, <1>6

(* ProcessAppendEntriesResponse: what it sends comes after in_transfer_    *)
(* of the node was reset.                                                  *)
Answered(s, j) == [s EXCEPT !.node[j].inTransfer = FALSE]

AnsweredOK(s0, i, j, r) ==
    /\ ServerOK(Answered(s0, j)) /\ Answered(s0, j).commit = s0.commit
    /\ Answered(s0, j).up = s0.up
    /\ \A k \in Servers : Answered(s0, j).node[k].inTransfer
                            = (s0.node[k].inTransfer /\ k # j)
    /\ SendsOK(Answered(s0, j), i, r)

LEMMA ProcessAppendResponseOK ==
    ASSUME NEW s0, ServerOK(s0), NEW i \in Servers, NEW c \in AppendCalls, i # c.to,
           NEW failed \in BOOLEAN, failed \/ c.resp \in AppendResps, RaftAssumption
    PROVE  AnsweredOK(s0, i, c.to, ProcessAppendResponse(s0, i, c, failed))
  <1> DEFINE j == c.to
             s == Answered(s0, j)
             n == [s0.node[j] EXCEPT !.inTransfer = FALSE]
             r == ProcessAppendResponse(s0, i, c, failed)
  <1>1. j \in Servers /\ c.req.entries \in Seq(Entries)
    BY DEF AppendCalls, AppendReqs
  <1>2. s0.node[j] \in Nodes /\ s0.node \in [Servers -> Nodes]
    BY <1>1 DEF ServerOK, ServerRecords
  <1>3. s = [s0 EXCEPT !.node[j] = n]
    BY DEF Answered
  <1>4. n \in Nodes /\ n.next = s0.node[j].next /\ ~n.inTransfer
    BY <1>2 DEF Nodes
  <1>5. s0.role = "leader" => n.next \in Nat
    BY <1>1, <1>4 DEF ServerOK
  <1> HIDE DEF n, j
  <1>6. ServerOK(s) /\ s.commit = s0.commit /\ s.node = [s0.node EXCEPT ![j] = n]
    BY <1>1, <1>3, <1>4, <1>5, SetNode
  <1>13. s.up = s0.up
    BY <1>3 DEF ServerOK, ServerRecords
  <1>7. /\ \A k \in Servers : s.node[k].inTransfer = (s0.node[k].inTransfer /\ k # j)
        /\ ~s.node[j].inTransfer
    BY <1>1, <1>2, <1>4, <1>6 DEF Nodes
  <1> DEFINE e == Last(c.req.entries)
             m == [s.node[j] EXCEPT !.match = e.pos, !.last = e.pos, !.lastTerm = e.term]
             matched == [s EXCEPT !.node[j] = m]
             advanced == MaybeAdvanceCommit(matched, i)
  <1>8. r = IF failed \/ s.role # "leader" THEN Just(s)
            ELSE IF c.resp.term > s.term THEN Just(UpdateCurrentTerm(s, c.resp.term, NoOne))
            ELSE IF ~c.resp.success THEN DegradeNode(s, i, j, c)
            ELSE IF c.req.entries = << >> THEN Just(s)
            ELSE IF s.node[j].match > s.node[j].next THEN Abort(s)
            ELSE IF Tell(s) > s.node[j].next THEN SendAppendEntries(advanced, i, j)
            ELSE Just(advanced)
    BY DEF ProcessAppendResponse, Answered, j
  <1> HIDE DEF s
  <1>9. SendsOK(s, i, Just(s)) /\ SendsOK(s, i, Abort(s))
    BY <1>6, NothingSent, AbortOK, CommitNumber
  <1>10. ASSUME failed \/ s.role # "leader" PROVE SendsOK(s, i, r)
    BY <1>8, <1>9, <1>10
  <1>11. ASSUME ~failed /\ s.role = "leader" PROVE SendsOK(s, i, r)
    <2>1. c.resp.term \in Terms /\ NoOne \in Nobody /\ c.resp \in AppendResps
      BY <1>11 DEF AppendResps, Nobody
    <2>2. SendsOK(s, i, Just(UpdateCurrentTerm(s, c.resp.term, NoOne)))
      BY <2>1, <1>6, UpdateCurrentTermOK, NothingSent, CommitNumber
    <2>3. SendsOK(s, i, DegradeNode(s, i, j, c))
      BY <2>1, <1>1, <1>6, <1>7, <1>11, DegradeNodeOK DEF j
    <2>4. ASSUME c.req.entries # << >>
          PROVE  SendsOK(s, i, Just(advanced)) /\ SendsOK(s, i, SendAppendEntries(advanced, i, j))
      <3>1. s.node[j] \in Nodes /\ s.node[j].next \in Nat
        BY <1>1, <1>6, <1>11 DEF ServerOK, ServerRecords
      <3>2. e.pos \in Positions /\ e.term \in Terms
        BY <1>1, <2>4, LastOf DEF Entries
      <3> HIDE DEF e
      <3>3. m \in Nodes /\ m.next \in Nat /\ ~m.inTransfer
        BY <3>1, <3>2, <1>7 DEF Nodes
      <3>4. matched = [s EXCEPT !.node[j] = m]
        OBVIOUS
      <3> HIDE DEF m, matched
      <3>5. ServerOK(matched) /\ matched.commit = s.commit /\ matched.node = [s.node EXCEPT ![j] = m]
        BY <1>1, <1>6, <3>3, <3>4, SetNode
      <3>6. ServerOK(advanced) /\ advanced.commit >= matched.commit /\ advanced.node = matched.node
        BY <3>5, MaybeAdvanceCommitOK
      <3> HIDE DEF advanced
      <3>7. /\ advanced.node[j].next \in Nat
            /\ \A k \in Servers : advanced.node[k].inTransfer = s.node[k].inTransfer
        BY <1>1, <1>6, <1>7, <3>3, <3>5, <3>6 DEF ServerOK, ServerRecords
      <3>8. advanced.commit >= s.commit
        BY <3>5, <3>6
      <3>9. SendsOK(s, i, Just(advanced))
        BY <3>6, <3>7, <3>8, NothingSent
      <3>10. SendsOK(advanced, i, SendAppendEntries(advanced, i, j))
        BY <1>1, <3>6, <3>7, SendAppendEntriesOK DEF j
      <3>11. SendsOK(s, i, SendAppendEntries(advanced, i, j))
        BY <1>6, <3>6, <3>7, <3>8, <3>10, SendsFrom
      <3> QED BY <3>9, <3>11
    <2> HIDE DEF advanced
    <2> QED BY <1>8, <1>9, <1>11, <2>2, <2>3, <2>4
  <1>12. SendsOK(s, i, r)
    BY <1>10, <1>11
  <1> QED BY <1>6, <1>7, <1>12, <1>13 DEF s, j, AnsweredOK

-----------------------------------------------------------------------------
(* The handlers of requests: they send nothing.                            *)

\* What Vote and Append leave alone, and that the commit position only grows.
ServesOK(s, t) ==
    ServerOK(t) /\ t.commit >= s.commit /\ t.node = s.node /\ t.up = s.up

LEMMA FollowTermOK ==
    ASSUME NEW s, ServerOK(s), NEW req \in AppendReqs
    PROVE  /\ ServesOK(s, FollowTerm(s, req)) /\ FollowTerm(s, req).log = s.log
           /\ FollowTerm(s, req).commit = s.commit
  <1> DEFINE t == FollowTerm(s, req)
  <1>1. req.term \in Terms /\ req.leader \in Nobody
    BY DEF AppendReqs, Nobody
  <1>2. /\ t \in ServerRecords /\ t.log = s.log /\ t.commit = s.commit /\ t.node = s.node
        /\ t.up = s.up /\ (t.role = "leader" => s.role = "leader")
    BY <1>1 DEF FollowTerm, UpdateCurrentTerm, BecomeFollower, ServerOK, ServerRecords
  <1> HIDE DEF t
  <1>3. ServerOK(t) /\ t.commit >= s.commit
    BY <1>2, CommitNumber DEF ServerOK
  <1> QED BY <1>2, <1>3 DEF ServesOK, t

(* MaybeTrucateLogAfterLocked leaves a prefix of the log.                  *)
LEMMA ReaderPosInLog ==
    ASSUME NEW s, ServerOK(s), NEW prev \in Positions, NEW prevTerm, MayTruncate(s, prevTerm, prev)
    PROVE  /\ ReaderPos(s, prev) \in 0 .. Len(s.log)
           /\ SubSeq(s.log, 1, ReaderPos(s, prev)) \in Seq(Entries)
  <1>1. s.log \in Seq(Entries) /\ Len(s.log) \in Nat
    BY DEF ServerOK, ServerRecords
  <1>2. ReaderPos(s, prev) \in 0 .. Len(s.log)
    BY <1>1 DEF MayTruncate, ReaderPos, IsFirstPos, Tell, Positions, Null
  <1> QED BY <1>1, <1>2

LEMMA VoteOK ==
    ASSUME NEW s, ServerOK(s), NEW i, NEW c \in VoteCalls
    PROVE  ServesOK(s, Vote(s, i, c)) /\ VoteResponse(s, c.req) \in VoteResps
  <1> DEFINE t == Vote(s, i, c)
  <1>1. c.from \in Nobody /\ c.req.term \in Terms /\ s.term \in Terms
    BY DEF VoteCalls, VoteReqs, Nobody, ServerOK, ServerRecords
  <1>2. t \in ServerRecords /\ t.commit = s.commit /\ t.node = s.node /\ t.up = s.up /\ t.role = s.role
    BY <1>1 DEF Vote, ServerOK, ServerRecords
  <1> HIDE DEF t
  <1>3. ServesOK(s, t)
    BY <1>2, CommitNumber DEF ServesOK, ServerOK
  <1>4. Grants(s, c.req) \in BOOLEAN
    BY DEF Grants
  <1>5. VoteResponse(s, c.req) \in VoteResps
    BY <1>1, <1>4 DEF VoteResponse, VoteResps
  <1> QED BY <1>3, <1>5 DEF t

LEMMA AppendOK ==
    ASSUME NEW s, ServerOK(s), NEW i, NEW c \in AppendCalls
    PROVE  ServesOK(s, Append_(s, i, c)) /\ AppendResponse(s, i, c) \in AppendResps
  <1> DEFINE req == c.req
             f == FollowTerm(s, req)
             w == IF req.entries = << >> THEN f
                  ELSE WithEntries(Truncated(f, req.lastPos), req.entries)
             t == Append_(s, i, c)
  <1>1. req \in AppendReqs
    BY DEF AppendCalls
  <1>2. req.entries \in Seq(Entries) /\ req.lastPos \in Positions /\ req.commit \in Positions
    BY <1>1 DEF AppendReqs
  <1>3. ServesOK(s, f) /\ f.commit = s.commit
    BY <1>1, FollowTermOK
  <1>4. t = IF req.term < s.term THEN s
            ELSE IF AppendSucceeds(f, req) THEN Committed(w, req) ELSE f
    BY DEF Append_
  <1> HIDE DEF f, req
  <1>5. ASSUME AppendSucceeds(f, req) PROVE ServesOK(s, w) /\ w.commit = s.commit
    <2>1. CASE req.entries = << >>
      BY <1>3, <2>1
    <2>2. CASE req.entries # << >>
      <3> DEFINE u == Truncated(f, req.lastPos)
                 z == WithEntries(u, req.entries)
      <3>1. SubSeq(f.log, 1, ReaderPos(f, req.lastPos)) \in Seq(Entries)
        BY <1>2, <1>3, <1>5, <2>2, ReaderPosInLog DEF AppendSucceeds, ServesOK
      <3>2. u \in ServerRecords /\ u.commit = f.commit /\ u.node = f.node /\ u.up = f.up
            /\ u.role = f.role
        BY <1>2, <1>3, <3>1 DEF Truncated, ServesOK, ServerOK, ServerRecords
      <3> HIDE DEF u
      <3>3. /\ u.log \in Seq(Entries) /\ Len(u.log) \in Nat /\ Len(req.entries) \in Nat
            /\ Len(req.entries) # 0
        BY <1>2, <2>2, <3>2 DEF ServerRecords
      <3>4. /\ u.log \o req.entries \in Seq(Entries)
            /\ Tell(u) + Len(req.entries) - 1 \in Positions
            /\ Last(req.entries).term \in Terms
        <4>1. Last(req.entries) \in Entries
          BY <1>2, <2>2, LastOf
        <4>2. Last(req.entries).term \in Terms
          BY <4>1 DEF Entries
        <4>3. Tell(u) + Len(req.entries) - 1 \in Nat
          <5>1. \A a, b \in Nat : b # 0 => a + b - 1 \in Nat
            OBVIOUS
          <5>2. Tell(u) \in Nat
            BY <3>3 DEF Tell
          <5> QED BY <5>1, <5>2, <3>3
        <4>4. u.log \o req.entries \in Seq(Entries)
          BY <1>2, <3>3
        <4> QED BY <4>2, <4>3, <4>4, PositionFacts
      <3>5. z \in ServerRecords /\ z.commit = u.commit /\ z.node = u.node /\ z.up = u.up
            /\ z.role = u.role
        BY <3>2, <3>4 DEF WithEntries, ServerRecords
      <3> HIDE DEF z
      <3>6. ServesOK(s, z) /\ z.commit = s.commit
        BY <1>3, <3>2, <3>5 DEF ServesOK, ServerOK
      <3>7. w = z
        BY <2>2 DEF z, u
      <3> QED BY <3>6, <3>7
    <2> QED BY <2>1, <2>2
  <1> HIDE DEF w
  <1>6. ASSUME AppendSucceeds(f, req) PROVE ServesOK(s, Committed(w, req))
    <2> DEFINE k == IF req.commit > w.commit /\ req.commit <= w.lastPos THEN req.commit ELSE w.commit
               z == [w EXCEPT !.commit = k]
    <2>1. ServerOK(w) /\ w.commit \in Positions /\ w.commit = s.commit
      BY <1>5, <1>6 DEF ServesOK, ServerOK, ServerRecords
    <2>2. k \in Positions /\ k >= w.commit
      BY <1>2, <2>1 DEF Positions, Null
    <2> HIDE DEF k
    <2>3. z \in ServerRecords /\ z.commit = k /\ z.node = w.node /\ z.up = w.up /\ z.role = w.role
      BY <2>1, <2>2 DEF ServerOK, ServerRecords
    <2>4. Committed(w, req) = z
      BY DEF Committed, k
    <2> HIDE DEF z
    <2>5. ServerOK(z) /\ z.commit >= s.commit
      BY <2>1, <2>2, <2>3 DEF ServerOK
    <2> QED BY <1>5, <1>6, <2>3, <2>4, <2>5 DEF ServesOK
  <1>7. ServesOK(s, s)
    BY CommitNumber DEF ServesOK
  <1>8. ServesOK(s, t)
    BY <1>3, <1>4, <1>6, <1>7
  <1>9. AppendResponse(s, i, c) \in AppendResps
    <2>1. t.term \in Terms /\ t.commit \in Positions
      BY <1>8 DEF ServesOK, ServerOK, ServerRecords
    <2> QED BY <2>1 DEF AppendResponse, AppendResps
  <1> QED BY <1>8, <1>9

-----------------------------------------------------------------------------
(* The RPCs under way.                                                     *)

(* What was sent is awaited, beside what was awaited before.               *)
LEMMA SentIsAwaited ==
    ASSUME NEW C, NEW s, s.up, NEW i, NEW r, r.s.up, TransferOK(C, i, s), SendsOK(s, i, r)
    PROVE  TransferOK(C \cup r.sent, i, r.s)
  <1> SUFFICES ASSUME NEW j \in Servers
               PROVE  IF r.s.up /\ r.s.node[j].inTransfer
                      THEN \E c : Live(C \cup r.sent, i, j) = {c}
                      ELSE Live(C \cup r.sent, i, j) = {}
    BY DEF TransferOK
  <1>1. Live(C \cup r.sent, i, j) = Live(C, i, j) \cup Live(r.sent, i, j)
    BY DEF Live
  <1>2. IF s.node[j].inTransfer THEN \E c : Live(C, i, j) = {c} ELSE Live(C, i, j) = {}
    BY DEF TransferOK
  <1>3. IF r.s.node[j].inTransfer /\ ~s.node[j].inTransfer
        THEN \E c : Live(r.sent, i, j) = {c}
        ELSE Live(r.sent, i, j) = {} /\ r.s.node[j].inTransfer = s.node[j].inTransfer
    BY DEF SendsOK
  <1>4. CASE r.s.node[j].inTransfer /\ ~s.node[j].inTransfer
    <2>1. Live(C, i, j) = {} /\ \E c : Live(r.sent, i, j) = {c}
      BY <1>2, <1>3, <1>4
    <2>2. \E c : Live(C \cup r.sent, i, j) = {c}
      BY <1>1, <2>1
    <2> QED BY <1>4, <2>2
  <1>5. CASE ~(r.s.node[j].inTransfer /\ ~s.node[j].inTransfer)
    <2>1. Live(C \cup r.sent, i, j) = Live(C, i, j)
          /\ r.s.node[j].inTransfer = s.node[j].inTransfer
      BY <1>1, <1>3, <1>5
    <2> QED BY <1>2, <2>1
  <1> QED BY <1>4, <1>5

(* What i sends is nothing to the others.                                  *)
LEMMA SentByOther ==
    ASSUME NEW C, NEW D, NEW i, NEW k, k # i, NEW s, TransferOK(C, k, s),
           \A c \in D : c.from = i
    PROVE  TransferOK(C \cup D, k, s)
  <1>1. \A j \in Servers : Live(C \cup D, k, j) = Live(C, k, j)
    BY DEF Live
  <1> QED BY <1>1 DEF TransferOK

(* The end of a process: nobody awaits its RPCs, the others are as before. *)
LEMMA OrphanedCalls ==
    ASSUME NEW C \in SUBSET Calls, NEW i
    PROVE  /\ Orphaned(C, i) \subseteq Calls
           /\ \A j : Live(Orphaned(C, i), i, j) = {}
           /\ \A k, j : k # i => Live(Orphaned(C, i), k, j) = Live(C, k, j)
  <1> DEFINE o(c) == [c EXCEPT !.live = c.live /\ c.from # i]
  <1>1. ASSUME NEW c \in Calls
        PROVE  /\ o(c) \in Calls /\ o(c).from = c.from /\ o(c).to = c.to /\ o(c).kind = c.kind
               /\ o(c).live = (c.live /\ c.from # i) /\ (c.from # i => o(c) = c)
    BY DEF Calls, VoteCalls, AppendCalls
  <1>2. Orphaned(C, i) = {o(c) : c \in {d \in C : d.from # i \/ ~d.resp.answered}}
    BY DEF Orphaned
  <1> HIDE DEF o
  <1>3. Orphaned(C, i) \subseteq Calls
    BY <1>1, <1>2
  <1>4. \A j : Live(Orphaned(C, i), i, j) = {}
    BY <1>1, <1>2 DEF Live
  <1>5. ASSUME NEW k, NEW j, k # i PROVE Live(Orphaned(C, i), k, j) = Live(C, k, j)
    <2>1. ASSUME NEW d \in Live(Orphaned(C, i), k, j) PROVE d \in Live(C, k, j)
      <3>1. PICK c \in C : d = o(c)
        BY <1>2 DEF Live
      <3>2. d.from = k /\ d.kind = "append" /\ d.live /\ d.to = j
        BY DEF Live
      <3>3. d = c
        BY <1>1, <1>5, <3>1, <3>2
      <3> QED BY <3>2, <3>3 DEF Live
    <2>2. ASSUME NEW c \in Live(C, k, j) PROVE c \in Live(Orphaned(C, i), k, j)
      <3>1. c \in C /\ c.from # i /\ c.kind = "append" /\ c.live /\ c.from = k /\ c.to = j
        BY <1>5 DEF Live
      <3>2. o(c) = c
        BY <1>1, <3>1
      <3>3. c \in Orphaned(C, i)
        BY <1>2, <3>1, <3>2
      <3> QED BY <3>1, <3>3 DEF Live
    <2> QED BY <2>1, <2>2
  <1> QED BY <1>3, <1>4, <1>5

LEMMA OrphanedOK ==
    ASSUME NEW C \in SUBSET Calls, NEW i, NEW k, NEW s,
           IF k = i THEN ~s.up ELSE TransferOK(C, k, s)
    PROVE  TransferOK(Orphaned(C, i), k, s)
  <1>1. CASE k = i
    BY <1>1, OrphanedCalls DEF TransferOK
  <1>2. CASE k # i
    <2>1. \A j : Live(Orphaned(C, i), k, j) = Live(C, k, j)
      BY <1>2, OrphanedCalls
    <2> QED BY <1>2, <2>1 DEF TransferOK
  <1> QED BY <1>1, <1>2

-----------------------------------------------------------------------------
(* The steps.                                                              *)

CommitKept == \A k \in Servers : srv'[k].commit >= srv[k].commit

\* A handler of i found the members s (of which in_transfer_ may have been
\* reset) and ended with the result r, beside the RPCs C.
HandlerStep(i, s, r, C) ==
    /\ s.up /\ s.commit = srv[i].commit /\ SendsOK(s, i, r)
    /\ C \subseteq Calls
    /\ \A k \in Servers : TransferOK(C, k, IF k = i THEN s ELSE srv[k])
    /\ srv' = [srv EXCEPT ![i] = r.s]
    /\ calls' = IF r.s.up THEN C \cup r.sent ELSE Orphaned(C \cup r.sent, i)

(* Such a step keeps the invariant, and the commit position.               *)
LEMMA DoneKeeps ==
    ASSUME TransferInv, NEW i \in Servers, NEW s, NEW r, NEW C, HandlerStep(i, s, r, C)
    PROVE  TransferInv' /\ CommitKept
  <1> USE DEF HandlerStep
  <1>1. ServerOK(r.s) /\ r.sent \subseteq Calls /\ \A c \in r.sent : c.from = i
    BY DEF SendsOK
  <1>2. srv' \in [Servers -> ServerRecords] /\ \A k \in Servers : ServerOK(srv'[k])
    BY <1>1 DEF TransferInv, ServerOK
  <1>3. \A k \in Servers : srv'[k] = IF k = i THEN r.s ELSE srv[k]
    BY DEF TransferInv
  <1>4. \A k \in Servers \ {i} : TransferOK(C \cup r.sent, k, srv[k])
    BY <1>1, SentByOther
  <1>7. CommitKept
    <2>1. r.s.commit >= srv[i].commit
      BY DEF SendsOK
    <2>2. \A k \in Servers : srv[k].commit >= srv[k].commit
      BY CommitNumber DEF TransferInv
    <2> QED BY <1>3, <2>1, <2>2 DEF CommitKept
  <1>5. CASE r.s.up
    <2>1. TransferOK(C \cup r.sent, i, r.s)
      BY <1>5, SentIsAwaited
    <2>2. calls' = C \cup r.sent
      BY <1>5
    <2>3. \A k \in Servers : TransferOK(calls', k, srv'[k])
      BY <1>3, <1>4, <2>1, <2>2
    <2> QED BY <1>1, <1>2, <1>7, <2>2, <2>3 DEF TransferInv, TransferOK
  <1>6. CASE ~r.s.up
    <2>1. C \cup r.sent \in SUBSET Calls
      BY <1>1
    <2>2. calls' = Orphaned(C \cup r.sent, i)
      BY <1>6
    <2>3. ASSUME NEW k \in Servers PROVE TransferOK(calls', k, srv'[k])
      BY <1>3, <1>4, <1>6, <2>1, <2>2, OrphanedOK
    <2>4. calls' \subseteq Calls
      BY <2>1, <2>2, OrphanedCalls
    <2> QED BY <1>2, <1>7, <2>3, <2>4 DEF TransferInv, TransferOK
  <1> QED BY <1>5, <1>6

(* PeriodicCheck of a leader.                                              *)
LEMMA HeartbeatStep ==
    ASSUME TransferInv, NEW i \in Servers, Heartbeat(i)
    PROVE  TransferInv' /\ CommitKept
  <1>1. PICK s : s = srv[i]
    OBVIOUS
  <1>2. PICK r : r = SendToAll(s, i, Servers)
    OBVIOUS
  <1>3. PICK C : C = calls
    OBVIOUS
  <1>4. s.up /\ s.role = "leader" /\ ServerOK(s)
    BY <1>1 DEF Heartbeat, TransferInv
  <1>5. SendsOK(s, i, r)
    BY <1>2, <1>4, RaftAssumption, SendToAllOK
  <1>6. /\ srv' = [srv EXCEPT ![i] = r.s]
        /\ calls' = IF r.s.up THEN C \cup r.sent ELSE Orphaned(C \cup r.sent, i)
    <2>1. (calls \ {}) \cup r.sent \cup {} = C \cup r.sent
      BY <1>3
    <2> QED BY <1>1, <1>2, <2>1 DEF Heartbeat, Done, SendHeartbeatToFollowers
  <1>7. C \in SUBSET Calls /\ \A k \in Servers : TransferOK(C, k, IF k = i THEN s ELSE srv[k])
    BY <1>1, <1>3 DEF TransferInv
  <1>8. HandlerStep(i, s, r, C)
    BY <1>1, <1>4, <1>5, <1>6, <1>7 DEF HandlerStep
  <1> QED BY <1>8, DoneKeeps

(* BecomeCandidateLocked.                                                  *)
LEMMA BecomeCandidateOK ==
    ASSUME NEW s, ServerOK(s), s.term < MaxTerm, NEW i \in Servers, RaftAssumption
    PROVE  SendsOK(s, i, BecomeCandidate(s, i))
  <1> DEFINE n == s.votesOut + Cardinality(Servers) - 1
             d == [s EXCEPT !.role = "candidate", !.votedFor = i, !.leaderId = NoOne,
                            !.votes = {i}, !.term = @ + 1, !.votesOut = n]
             r == BecomeCandidate(s, i)
  <1>1. n \in Int /\ s.term + 1 \in Terms
    <2>1. Cardinality(Servers) \in Nat /\ s.votesOut \in Int /\ s.term \in 0 .. MaxTerm
      BY FS_CardinalityType DEF RaftAssumption, ServerOK, ServerRecords, Terms
    <2> QED BY <2>1 DEF Terms, RaftAssumption
  <1>2. r.s = d /\ r.sent = SendRequestVote(d, i)
    BY DEF BecomeCandidate
  <1> HIDE DEF n, r
  <1>3. d \in ServerRecords /\ d.role = "candidate" /\ d.node = s.node /\ d.commit = s.commit
    BY <1>1 DEF ServerOK, ServerRecords, Nobody
  <1> HIDE DEF d
  <1>4. [term |-> d.term, lastPos |-> d.lastPos] \in VoteReqs
    BY <1>3 DEF ServerRecords, VoteReqs
  <1>5. \A c \in r.sent : c \in Calls /\ c.kind = "vote" /\ c.from = i /\ c.live
    <2> SUFFICES ASSUME NEW c \in r.sent PROVE c \in Calls /\ c.kind = "vote" /\ c.from = i /\ c.live
      OBVIOUS
    <2> DEFINE q == [term |-> d.term, lastPos |-> d.lastPos]
    <2>1. PICK j \in Servers \ {i} : c = Call("vote", i, j, q)
      BY <1>2 DEF SendRequestVote
    <2> HIDE DEF q
    <2>2. c = [kind |-> "vote", from |-> i, to |-> j, req |-> q, resp |-> NoResp, live |-> TRUE]
      BY <2>1 DEF Call
    <2>3. q \in VoteReqs
      BY <1>4 DEF q
    <2>4. c \in VoteCalls /\ c.kind = "vote" /\ c.from = i /\ c.live /\ c.to = j
      BY <2>2, <2>3 DEF VoteCalls
    <2> QED BY <2>4 DEF Calls
  <1>6. \A j \in Servers : Live(r.sent, i, j) = {}
    BY <1>5 DEF Live
  <1>7. ServerOK(d) /\ d.commit >= s.commit
    BY <1>3, CommitNumber DEF ServerOK
  <1>8. SendsOK(s, i, r)
    BY <1>2, <1>3, <1>5, <1>6, <1>7 DEF SendsOK
  <1> QED BY <1>8 DEF r

(* PeriodicCheck of the others.                                            *)
LEMMA ElectionTimeoutStep ==
    ASSUME TransferInv, NEW i \in Servers, ElectionTimeout(i)
    PROVE  TransferInv' /\ CommitKept
  <1>1. PICK s : s = srv[i]
    OBVIOUS
  <1>2. PICK r : r = BecomeCandidate(s, i)
    OBVIOUS
  <1>3. PICK C : C = calls
    OBVIOUS
  <1>4. s.up /\ s.term < MaxTerm /\ ServerOK(s)
    BY <1>1 DEF ElectionTimeout, TransferInv
  <1>5. SendsOK(s, i, r)
    BY <1>2, <1>4, RaftAssumption, BecomeCandidateOK
  <1>6. /\ srv' = [srv EXCEPT ![i] = r.s]
        /\ calls' = IF r.s.up THEN C \cup r.sent ELSE Orphaned(C \cup r.sent, i)
    <2>1. (calls \ {}) \cup r.sent \cup {} = C \cup r.sent
      BY <1>3
    <2> QED BY <1>1, <1>2, <2>1 DEF ElectionTimeout, Done
  <1>7. C \in SUBSET Calls /\ \A k \in Servers : TransferOK(C, k, IF k = i THEN s ELSE srv[k])
    BY <1>1, <1>3 DEF TransferInv
  <1>8. HandlerStep(i, s, r, C)
    BY <1>1, <1>4, <1>5, <1>6, <1>7 DEF HandlerStep
  <1> QED BY <1>8, DoneKeeps

(* Save at a leader: the record is written, then sent.                     *)
SavedEntry(s, v) ==
    [pos |-> Tell(s), prevPos |-> s.lastPos, term |-> s.term, prevTerm |-> s.lastTerm,
     val |-> v]

LEMMA SavedLog ==
    ASSUME NEW s, ServerOK(s), NEW v \in Values
    PROVE  Tell(s) \in Nat /\ Append(s.log, SavedEntry(s, v)) \in Seq(Entries)
  <1>1. /\ s.log \in Seq(Entries) /\ s.lastPos \in Positions /\ s.term \in Terms
        /\ s.lastTerm \in Terms
    BY DEF ServerOK, ServerRecords
  <1>2. Tell(s) \in Nat /\ Tell(s) \in Positions
    BY <1>1 DEF Tell, Positions
  <1>3. SavedEntry(s, v) \in Entries
    BY <1>1, <1>2 DEF SavedEntry, Entries
  <1> QED BY <1>1, <1>2, <1>3

LEMMA SaveStep ==
    ASSUME TransferInv, NEW i \in Servers, NEW v \in Values, NEW wait \in BOOLEAN, Save(i, v, wait)
    PROVE  TransferInv' /\ CommitKept
  <1>1. PICK s : s = srv[i]
    OBVIOUS
  <1> DEFINE w == [s EXCEPT !.log = Append(s.log, SavedEntry(s, v)), !.lastPos = Tell(s),
                            !.lastTerm = s.term]
             ready == {j \in Servers : ~w.node[j].inTransfer /\ w.node[j].next = w.lastPos}
             q == SendToAll(w, i, ready)
             waiters == IF wait /\ \A x \in s.waiters : x[1] # Tell(s)
                        THEN s.waiters \cup {<<Tell(s), v>>} ELSE s.waiters
  <1>2. PICK r : r = [q EXCEPT !.s.waiters = waiters]
    OBVIOUS
  <1>3. PICK C : C = calls
    OBVIOUS
  <1>4. s.up /\ s.role = "leader" /\ ServerOK(s)
    BY <1>1 DEF Save, TransferInv
  <1>5. /\ srv' = [srv EXCEPT ![i] = r.s]
        /\ calls' = IF r.s.up THEN C \cup r.sent ELSE Orphaned(C \cup r.sent, i)
    <2>1. (calls \ {}) \cup r.sent \cup {} = C \cup r.sent
      BY <1>3
    <2>2. Done(i, r, {}, {})
      BY <1>1, <1>2, ZenonT(60) DEF Save, SavedEntry
    <2> QED BY <2>1, <2>2 DEF Done
  <1>6. w \in ServerRecords /\ w.role = s.role /\ w.node = s.node /\ w.commit = s.commit
        /\ w.up = s.up
    <2> DEFINE l == Append(s.log, SavedEntry(s, v))
               p == Tell(s)
               m == s.term
    <2>1. l \in Seq(Entries) /\ p \in Positions /\ m \in Terms
      BY <1>4, SavedLog DEF ServerOK, ServerRecords, Positions
    <2>2. w = [s EXCEPT !.log = l, !.lastPos = p, !.lastTerm = m]
      OBVIOUS
    <2> HIDE DEF l, p, m, w
    <2>3. s \in ServerRecords
      BY <1>4 DEF ServerOK
    <2> QED BY <2>1, <2>2, <2>3 DEF ServerRecords
  <1>7. waiters \subseteq Positions \X Values
    <2>1. s.waiters \subseteq Positions \X Values /\ Tell(s) \in Positions
      BY <1>4, SavedLog DEF ServerOK, ServerRecords, Positions
    <2>2. <<Tell(s), v>> \in Positions \X Values
      BY <2>1
    <2> QED BY <2>1, <2>2
  <1> HIDE DEF w, waiters
  <1>8. ServerOK(w)
    BY <1>4, <1>6 DEF ServerOK
  <1>9. SendsOK(w, i, q)
    BY <1>4, <1>6, <1>8, RaftAssumption, SendToAllOK
  <1>10. SendsOK(s, i, q)
    <2>1. w.commit >= s.commit
      BY <1>4, <1>6, CommitNumber
    <2> HIDE DEF q
    <2> QED BY <2>1, <1>4, <1>6, <1>8, <1>9, SendsFrom
  <1>11. r.sent = q.sent /\ r.s = [q.s EXCEPT !.waiters = waiters]
    BY <1>2 DEF SendToAll
  <1> HIDE DEF q
  <1>12. r.s \in ServerRecords /\ r.s.node = q.s.node /\ r.s.commit = q.s.commit /\ r.s.role = q.s.role
    BY <1>7, <1>10, <1>11 DEF SendsOK, ServerOK, ServerRecords
  <1>13. SendsOK(s, i, r)
    BY <1>10, <1>11, <1>12 DEF SendsOK, ServerOK
  <1>14. C \in SUBSET Calls /\ \A k \in Servers : TransferOK(C, k, IF k = i THEN s ELSE srv[k])
    BY <1>1, <1>3 DEF TransferInv
  <1>15. HandlerStep(i, s, r, C)
    BY <1>1, <1>4, <1>5, <1>13, <1>14 DEF HandlerStep
  <1> QED BY <1>15, DoneKeeps

(* An RPC that is answered is awaited as before ...                        *)
LEMMA AnsweredCall ==
    ASSUME NEW D \in SUBSET Calls, NEW c \in D, NEW resp, NEW C,
           C = (D \ {c}) \cup Answer(c, resp),
           resp \in (IF c.kind = "vote" THEN VoteResps ELSE AppendResps),
           NEW k, NEW s, TransferOK(D, k, s)
    PROVE  C \subseteq Calls /\ TransferOK(C, k, s)
  <1> DEFINE a == [c EXCEPT !.resp = resp]
  <1>1. /\ a \in Calls /\ a.kind = c.kind /\ a.from = c.from /\ a.to = c.to /\ a.live = c.live
    BY DEF Calls, VoteCalls, AppendCalls
  <1>2. Answer(c, resp) = IF c.live THEN {a} ELSE {}
    BY DEF Answer
  <1> HIDE DEF a
  <1>3. C \subseteq Calls
    BY <1>1, <1>2
  <1>4. ASSUME NEW j \in Servers
        PROVE  IF c \in Live(D, k, j) THEN Live(C, k, j) = (Live(D, k, j) \ {c}) \cup {a}
               ELSE Live(C, k, j) = Live(D, k, j)
    BY <1>1, <1>2 DEF Live
  <1>5. ASSUME NEW j \in Servers
        PROVE  IF s.up /\ s.node[j].inTransfer THEN \E x : Live(C, k, j) = {x}
               ELSE Live(C, k, j) = {}
    <2>1. IF s.up /\ s.node[j].inTransfer THEN \E x : Live(D, k, j) = {x} ELSE Live(D, k, j) = {}
      BY DEF TransferOK
    <2>2. CASE c \in Live(D, k, j)
      <3>1. Live(D, k, j) = {c} /\ s.up /\ s.node[j].inTransfer
        BY <2>1, <2>2
      <3>2. Live(C, k, j) = {a}
        BY <1>4, <2>2, <3>1
      <3> QED BY <3>1, <3>2
    <2>3. CASE c \notin Live(D, k, j)
      BY <1>4, <2>1, <2>3
    <2> QED BY <2>2, <2>3
  <1> QED BY <1>3, <1>5 DEF TransferOK

(* ... and an answered or failed one is not awaited, once in_transfer_ of  *)
(* its node was reset; the votes are not counted.                          *)
LEMMA EndedCall ==
    ASSUME NEW D \in SUBSET Calls, NEW c \in D, c.live, NEW N \in SUBSET Calls,
           \A d \in N : ~d.live, NEW k, NEW s, TransferOK(D, k, s),
           NEW t, t.up = s.up, k = c.from => s.up,
           \A j \in Servers : t.node[j].inTransfer =
               (s.node[j].inTransfer /\ ~(c.kind = "append" /\ k = c.from /\ j = c.to))
    PROVE  (D \ {c}) \cup N \subseteq Calls /\ TransferOK((D \ {c}) \cup N, k, t)
  <1> DEFINE C == (D \ {c}) \cup N
  <1>1. \A j \in Servers : Live(C, k, j) = Live(D, k, j) \ {c}
    BY DEF Live
  <1>3. C \subseteq Calls
    OBVIOUS
  <1> HIDE DEF C
  <1>2. ASSUME NEW j \in Servers
        PROVE  IF t.up /\ t.node[j].inTransfer THEN \E x : Live(C, k, j) = {x}
               ELSE Live(C, k, j) = {}
    <2>1. IF s.up /\ s.node[j].inTransfer THEN \E x : Live(D, k, j) = {x} ELSE Live(D, k, j) = {}
      BY DEF TransferOK
    <2>2. CASE c.kind = "append" /\ k = c.from /\ j = c.to
      <3>1. c \in Live(D, k, j)
        BY <2>2 DEF Live
      <3>2. Live(D, k, j) = {c}
        BY <2>1, <3>1
      <3> QED BY <1>1, <2>2, <3>2
    <2>3. CASE ~(c.kind = "append" /\ k = c.from /\ j = c.to)
      <3>1. c \notin Live(D, k, j)
        BY <2>3 DEF Live
      <3>2. Live(C, k, j) = Live(D, k, j) \ {c}
        BY <1>1
      <3> DEFINE L == Live(D, k, j)
      <3>3. c \notin L
        BY <3>1
      <3> HIDE DEF L
      <3>4. L \ {c} = L
        BY <3>3
      <3>5. Live(C, k, j) = Live(D, k, j)
        BY <3>2, <3>4 DEF L
      <3> QED BY <2>1, <2>3, <3>5
    <2> QED BY <2>2, <2>3
  <1>4. TransferOK(C, k, t)
    BY <1>2 DEF TransferOK
  <1> QED BY <1>3, <1>4 DEF C

(* A request is executed at its target.                                    *)
LEMMA ExecuteStep ==
    ASSUME TransferInv, NEW c \in calls, Execute(c)
    PROVE  TransferInv' /\ CommitKept
  <1>1. PICK d : d = c
    OBVIOUS
  <1>2. PICK i : i = d.to
    OBVIOUS
  <1>3. PICK s : s = srv[i]
    OBVIOUS
  <1>4. PICK D : D = calls
    OBVIOUS
  <1>5. d \in D /\ D \in SUBSET Calls /\ i \in Servers /\ d \in VoteCalls \cup AppendCalls
    BY <1>1, <1>2, <1>4 DEF TransferInv, Calls, VoteCalls, AppendCalls
  <1>6. ServerOK(s) /\ s.up
    BY <1>1, <1>2, <1>3, <1>5 DEF TransferInv, Execute
  <1>7. \E t, resp : /\ ServesOK(s, t)
                     /\ resp \in (IF d.kind = "vote" THEN VoteResps ELSE AppendResps)
                     /\ Done(i, Just(t), {d}, Answer(d, resp))
    <2>1. CASE d.kind = "vote" /\ Done(i, Just(Vote(s, i, d)), {d}, Answer(d, VoteResponse(s, d.req)))
      <3>1. d \in VoteCalls
        BY <1>5, <2>1 DEF AppendCalls
      <3>2. ServesOK(s, Vote(s, i, d)) /\ VoteResponse(s, d.req) \in VoteResps
        BY <1>6, <3>1, VoteOK
      <3> QED BY <2>1, <3>2
    <2>2. CASE d.kind = "append" /\ Done(i, Just(Append_(s, i, d)), {d}, Answer(d, AppendResponse(s, i, d)))
      <3>1. d \in AppendCalls
        BY <1>5, <2>2 DEF VoteCalls
      <3>2. ServesOK(s, Append_(s, i, d)) /\ AppendResponse(s, i, d) \in AppendResps
        BY <1>6, <3>1, AppendOK
      <3> QED BY <2>2, <3>2
    <2> QED BY <1>1, <1>2, <1>3, <2>1, <2>2 DEF Execute
  <1>8. PICK t, resp : /\ ServesOK(s, t)
                       /\ resp \in (IF d.kind = "vote" THEN VoteResps ELSE AppendResps)
                       /\ Done(i, Just(t), {d}, Answer(d, resp))
    BY <1>7
  <1>9. PICK r : r = Just(t)
    OBVIOUS
  <1>10. PICK C : C = (D \ {d}) \cup Answer(d, resp)
    OBVIOUS
  <1>11. SendsOK(s, i, r)
    BY <1>8, <1>9, NothingSent DEF ServesOK
  <1>12. \A k \in Servers : TransferOK(D, k, srv[k])
    BY <1>4 DEF TransferInv
  <1>13. C \subseteq Calls /\ \A k \in Servers : TransferOK(C, k, srv[k])
    <2>1. ASSUME NEW k \in Servers PROVE C \subseteq Calls /\ TransferOK(C, k, srv[k])
      <3>1. PICK u : u = srv[k]
        OBVIOUS
      <3>2. TransferOK(D, k, u)
        BY <1>12, <3>1
      <3>3. C \subseteq Calls /\ TransferOK(C, k, u)
        BY <1>5, <1>8, <1>10, <3>2, AnsweredCall
      <3> QED BY <3>1, <3>3
    <2> QED BY <1>5, <2>1
  <1>14. /\ srv' = [srv EXCEPT ![i] = r.s]
         /\ calls' = IF r.s.up THEN C \cup r.sent ELSE Orphaned(C \cup r.sent, i)
    <2>1. (calls \ {d}) \cup r.sent \cup Answer(d, resp) = C \cup r.sent
      BY <1>4, <1>10
    <2> QED BY <1>8, <1>9, <2>1 DEF Done
  <1>15. \A k \in Servers : TransferOK(C, k, IF k = i THEN s ELSE srv[k])
    BY <1>3, <1>13
  <1>16. HandlerStep(i, s, r, C)
    BY <1>3, <1>6, <1>11, <1>13, <1>14, <1>15 DEF HandlerStep
  <1> QED BY <1>5, <1>16, DoneKeeps

(* The end of an RPC at its caller, with or without an answer.             *)
LEMMA EndStep ==
    ASSUME TransferInv, NEW c \in calls, srv[c.from].up, c.live, NEW failed \in BOOLEAN,
           failed \/ c.resp.answered, NEW N \in SUBSET Calls, \A d \in N : ~d.live,
           Done(c.from, Process(c, failed), {c}, N)
    PROVE  TransferInv' /\ CommitKept
  <1>1. PICK d : d = c
    OBVIOUS
  <1>2. PICK i : i = d.from
    OBVIOUS
  <1>3. PICK s0 : s0 = srv[i]
    OBVIOUS
  <1>4. PICK D : D = calls
    OBVIOUS
  <1>5. PICK r : r = Process(c, failed)
    OBVIOUS
  <1>6. /\ d \in D /\ D \in SUBSET Calls /\ i \in Servers /\ i # d.to /\ d.to \in Servers
        /\ d \in VoteCalls \cup AppendCalls
    BY <1>1, <1>2, <1>4 DEF TransferInv, Calls, VoteCalls, AppendCalls
  <1>7. ServerOK(s0) /\ s0.up /\ d.live
    BY <1>1, <1>2, <1>3, <1>6 DEF TransferInv
  <1>8. \E s : /\ s.up = s0.up /\ s.commit = s0.commit /\ SendsOK(s, i, r)
               /\ \A j \in Servers : s.node[j].inTransfer =
                     (s0.node[j].inTransfer /\ ~(d.kind = "append" /\ j = d.to))
    <2>1. CASE d.kind = "vote"
      <3>1. r = ProcessVoteResponse(s0, i, d, failed)
        BY <1>1, <1>2, <1>3, <1>5, <2>1 DEF Process
      <3>2. SendsOK(s0, i, r)
        BY <1>6, <1>7, <3>1, ProcessVoteResponseOK, RaftAssumption
      <3>3. \A j \in Servers : s0.node[j].inTransfer \in BOOLEAN
        BY <1>7 DEF ServerOK, ServerRecords, Nodes
      <3>4. \A j \in Servers : s0.node[j].inTransfer =
                (s0.node[j].inTransfer /\ ~(d.kind = "append" /\ j = d.to))
        BY <2>1, <3>3
      <3> QED BY <3>2, <3>4
    <2>2. CASE d.kind = "append"
      <3> DEFINE s == Answered(s0, d.to)
      <3>1. r = ProcessAppendResponse(s0, i, d, failed)
        BY <1>1, <1>2, <1>3, <1>5, <2>2 DEF Process
      <3>2. d \in AppendCalls /\ (failed \/ d.resp \in AppendResps)
        BY <1>1, <1>6, <2>2 DEF VoteCalls, AppendCalls, NoResp
      <3>3. /\ s.commit = s0.commit /\ s.up = s0.up
            /\ \A k \in Servers : s.node[k].inTransfer = (s0.node[k].inTransfer /\ k # d.to)
            /\ SendsOK(s, i, r)
        <4>1. AnsweredOK(s0, i, d.to, ProcessAppendResponse(s0, i, d, failed))
          BY <1>6, <1>7, <3>2, ProcessAppendResponseOK, RaftAssumption
        <4> QED BY <3>1, <4>1 DEF AnsweredOK
      <3> HIDE DEF s
      <3>4. \A j \in Servers : s.node[j].inTransfer =
                (s0.node[j].inTransfer /\ ~(d.kind = "append" /\ j = d.to))
        BY <2>2, <3>3
      <3> QED BY <3>3, <3>4
    <2> QED BY <1>6, <2>1, <2>2 DEF VoteCalls, AppendCalls
  <1>9. PICK s : /\ s.up = s0.up /\ s.commit = s0.commit /\ SendsOK(s, i, r)
                 /\ \A j \in Servers : s.node[j].inTransfer =
                       (s0.node[j].inTransfer /\ ~(d.kind = "append" /\ j = d.to))
    BY <1>8
  <1>10. PICK C : C = (D \ {d}) \cup N
    OBVIOUS
  <1>11. \A k \in Servers : TransferOK(D, k, srv[k])
    BY <1>4 DEF TransferInv
  <1>12. C \subseteq Calls /\ TransferOK(C, i, s)
    <2>1. TransferOK(D, i, s0)
      BY <1>3, <1>6, <1>11
    <2>2. \A j \in Servers : s.node[j].inTransfer =
              (s0.node[j].inTransfer /\ ~(d.kind = "append" /\ i = d.from /\ j = d.to))
      BY <1>2, <1>9
    <2>3. (D \ {d}) \cup N \subseteq Calls /\ TransferOK((D \ {d}) \cup N, i, s)
      BY <1>6, <1>7, <1>9, <2>1, <2>2, EndedCall
    <2> QED BY <1>10, <2>3
  <1>13. ASSUME NEW k \in Servers \ {i} PROVE TransferOK(C, k, srv[k])
    <2>1. PICK u : u = srv[k]
      OBVIOUS
    <2>2. TransferOK(D, k, u)
      BY <1>11, <2>1
    <2>3. \A j \in Servers : Live(C, k, j) = Live(D, k, j)
      BY <1>2, <1>10 DEF Live
    <2>4. TransferOK(C, k, u)
      BY <2>2, <2>3 DEF TransferOK
    <2> QED BY <2>1, <2>4
  <1>14. /\ srv' = [srv EXCEPT ![i] = r.s]
         /\ calls' = IF r.s.up THEN C \cup r.sent ELSE Orphaned(C \cup r.sent, i)
    <2>1. (calls \ {d}) \cup r.sent \cup N = C \cup r.sent
      BY <1>4, <1>10
    <2> QED BY <1>1, <1>2, <1>5, <2>1 DEF Done
  <1>15. HandlerStep(i, s, r, C)
    BY <1>3, <1>7, <1>9, <1>12, <1>13, <1>14 DEF HandlerStep
  <1> QED BY <1>6, <1>15, DoneKeeps

LEMMA ReplyStep ==
    ASSUME TransferInv, NEW c \in calls, Reply(c)
    PROVE  TransferInv' /\ CommitKept
  <1> DEFINE N == {}
  <1>1. N \in SUBSET Calls /\ \A d \in N : ~d.live
    OBVIOUS
  <1>2. srv[c.from].up /\ c.live /\ c.resp.answered /\ Done(c.from, Process(c, FALSE), {c}, N)
    BY DEF Reply
  <1> HIDE DEF N
  <1> QED BY <1>1, <1>2, EndStep

LEMMA FailStep ==
    ASSUME TransferInv, NEW c \in calls, Fail(c)
    PROVE  TransferInv' /\ CommitKept
  <1> DEFINE x == [c EXCEPT !.live = FALSE]
             N == IF c.resp.answered THEN {} ELSE {x}
  <1>1. x \in Calls /\ ~x.live
    BY DEF TransferInv, Calls, VoteCalls, AppendCalls
  <1>2. N \in SUBSET Calls /\ \A d \in N : ~d.live
    BY <1>1
  <1>3. srv[c.from].up /\ c.live /\ Done(c.from, Process(c, TRUE), {c}, N)
    BY DEF Fail
  <1> HIDE DEF N
  <1> QED BY <1>2, <1>3, EndStep

(* A process that dies keeps what its state file and log hold.             *)
LEMMA DieKeeps ==
    ASSUME TransferInv, NEW i \in Servers, NEW s, ServerOK(s), s.commit = srv[i].commit,
           Die(i, s)
    PROVE  TransferInv' /\ CommitKept
  <1>1. PICK D : D = calls
    OBVIOUS
  <1>2. PICK t : t = [s EXCEPT !.up = FALSE]
    OBVIOUS
  <1>3. t \in ServerRecords /\ t.role = s.role /\ t.node = s.node /\ t.commit = s.commit /\ ~t.up
    BY <1>2 DEF ServerOK, ServerRecords
  <1>4. ServerOK(t) /\ t.commit >= srv[i].commit
    BY <1>3, CommitNumber DEF ServerOK
  <1>5. D \in SUBSET Calls /\ \A k \in Servers : TransferOK(D, k, srv[k])
    BY <1>1 DEF TransferInv
  <1>6. srv' = [srv EXCEPT ![i] = t] /\ calls' = Orphaned(D, i)
    BY <1>1, <1>2 DEF Die
  <1>7. \A k \in Servers : srv'[k] = IF k = i THEN t ELSE srv[k]
    BY <1>6 DEF TransferInv
  <1>8. \A k \in Servers : TransferOK(calls', k, srv'[k])
    <2>1. \A k \in Servers : TransferOK(Orphaned(D, i), k, IF k = i THEN t ELSE srv[k])
      BY <1>3, <1>5, OrphanedOK
    <2> QED BY <1>6, <1>7, <2>1
  <1>9. calls' \subseteq Calls
    BY <1>5, <1>6, OrphanedCalls
  <1>10. srv' \in [Servers -> ServerRecords] /\ \A k \in Servers : ServerOK(srv'[k])
    BY <1>3, <1>4, <1>6, <1>7 DEF TransferInv
  <1>11. CommitKept
    <2>1. \A k \in Servers : srv[k].commit >= srv[k].commit
      BY CommitNumber DEF TransferInv
    <2> QED BY <1>4, <1>7, <2>1 DEF CommitKept
  <1> QED BY <1>8, <1>9, <1>10, <1>11 DEF TransferInv, TransferOK

LEMMA CrashStep ==
    ASSUME TransferInv, NEW i \in Servers, Crash(i)
    PROVE  TransferInv' /\ CommitKept
  <1>1. PICK s : s = srv[i]
    OBVIOUS
  <1>2. ServerOK(s) /\ Die(i, s)
    BY <1>1 DEF TransferInv, Crash
  <1> QED BY <1>1, <1>2, DieKeeps

LEMMA CrashInSaveStep ==
    ASSUME TransferInv, NEW i \in Servers, NEW v \in Values, CrashInSave(i, v)
    PROVE  TransferInv' /\ CommitKept
  <1>1. PICK s : s = srv[i]
    OBVIOUS
  <1>2. PICK l : l = Append(s.log, SavedEntry(s, v))
    OBVIOUS
  <1>3. PICK w : w = [s EXCEPT !.log = l]
    OBVIOUS
  <1>4. ServerOK(s) /\ Die(i, w)
    BY <1>1, <1>2, <1>3 DEF TransferInv, CrashInSave, SavedEntry
  <1>5. l \in Seq(Entries)
    BY <1>2, <1>4, SavedLog
  <1>6. w \in ServerRecords /\ w.role = s.role /\ w.node = s.node /\ w.commit = s.commit
    BY <1>3, <1>4, <1>5 DEF ServerOK, ServerRecords
  <1>7. ServerOK(w)
    BY <1>4, <1>6 DEF ServerOK
  <1> QED BY <1>1, <1>4, <1>6, <1>7, DieKeeps

LEMMA CrashInAppendStep ==
    ASSUME TransferInv, NEW c \in calls, NEW n \in 0 .. MaxLog, CrashInAppend(c, n)
    PROVE  TransferInv' /\ CommitKept
  <1>1. PICK i : i = c.to
    OBVIOUS
  <1>2. PICK s : s = srv[i]
    OBVIOUS
  <1>3. PICK req : req = c.req
    OBVIOUS
  <1>4. PICK f : f = FollowTerm(s, req)
    OBVIOUS
  <1>5. PICK t : t = Truncated(f, req.lastPos)
    OBVIOUS
  <1>6. i \in Servers /\ req \in AppendReqs /\ ServerOK(s)
    BY <1>1, <1>2, <1>3 DEF TransferInv, CrashInAppend, Calls, VoteCalls, AppendCalls
  <1>7. ServerOK(f) /\ f.commit = s.commit
    BY <1>4, <1>6, FollowTermOK DEF ServesOK
  <1>8. req.entries # << >> /\ AppendSucceeds(f, req) /\ n <= Len(req.entries)
    BY <1>1, <1>2, <1>3, <1>4 DEF CrashInAppend
  <1>9. req.lastPos \in Positions /\ req.entries \in Seq(Entries)
    BY <1>6 DEF AppendReqs
  <1>10. SubSeq(f.log, 1, ReaderPos(f, req.lastPos)) \in Seq(Entries)
    BY <1>7, <1>8, <1>9, ReaderPosInLog DEF AppendSucceeds
  <1>11. t \in ServerRecords /\ t.role = f.role /\ t.node = f.node /\ t.commit = f.commit
    <2> DEFINE l == SubSeq(f.log, 1, ReaderPos(f, req.lastPos))
               p == req.lastPos
    <2>1. t = [f EXCEPT !.lastPos = p, !.log = l]
      BY <1>5 DEF Truncated
    <2>2. l \in Seq(Entries) /\ p \in Positions /\ f \in ServerRecords
      BY <1>7, <1>9, <1>10 DEF ServerOK
    <2> HIDE DEF l, p
    <2> QED BY <2>1, <2>2 DEF ServerRecords
  <1>12. ASSUME NEW w, Die(i, w), NEW l \in Seq(Entries), NEW p \in Positions,
                w = [t EXCEPT !.log = l, !.lastPos = p]
         PROVE  TransferInv' /\ CommitKept
    <2>1. w \in ServerRecords /\ w.role = t.role /\ w.node = t.node /\ w.commit = t.commit
      BY <1>11, <1>12 DEF ServerRecords
    <2>2. ServerOK(w) /\ w.commit = srv[i].commit
      BY <1>2, <1>7, <1>11, <2>1 DEF ServerOK
    <2> QED BY <1>6, <1>12, <2>2, DieKeeps
  <1> DEFINE l1 == t.log \o SubSeq(req.entries, 1, n)
             p1 == IF Tell(t) < Tell(f) THEN t.lastPos ELSE f.lastPos
  <1>13. l1 \in Seq(Entries) /\ p1 \in Positions
    <2>1. SubSeq(req.entries, 1, n) \in Seq(Entries)
      BY <1>8, <1>9
    <2> QED BY <1>7, <1>11, <2>1 DEF ServerOK, ServerRecords
  <1>14. f.log \in Seq(Entries) /\ t.lastPos \in Positions
    BY <1>7, <1>11 DEF ServerOK, ServerRecords
  <1>15. \/ Die(i, [t EXCEPT !.log = l1, !.lastPos = p1])
         \/ Die(i, [t EXCEPT !.log = f.log])
    BY <1>1, <1>2, <1>3, <1>4, <1>5 DEF CrashInAppend
  <1>16. [t EXCEPT !.log = f.log] = [t EXCEPT !.log = f.log, !.lastPos = t.lastPos]
    BY <1>11 DEF ServerRecords
  <1> HIDE DEF l1, p1
  <1>17. CASE Die(i, [t EXCEPT !.log = l1, !.lastPos = p1])
    BY <1>12, <1>13, <1>17
  <1>18. CASE Die(i, [t EXCEPT !.log = f.log])
    BY <1>12, <1>14, <1>16, <1>18
  <1> QED BY <1>15, <1>17, <1>18

LEMMA RestartStep ==
    ASSUME TransferInv, NEW i \in Servers, Restart(i)
    PROVE  TransferInv' /\ CommitKept
  <1>1. PICK s : s = srv[i]
    OBVIOUS
  <1>2. PICK n \in UninitVotes : srv' = [srv EXCEPT ![i] = Restarted(s, n)]
    BY <1>1 DEF Restart
  <1>3. PICK t : t = Restarted(s, n)
    OBVIOUS
  <1>4. ServerOK(s) /\ ~s.up /\ calls' = calls
    BY <1>1 DEF TransferInv, Restart
  <1> DEFINE f == [j \in Servers |-> NewNode]
  <1>5. f \in [Servers -> Nodes] /\ \A j \in Servers : f[j].inTransfer = FALSE
    BY RaftAssumption DEF NewNode, Nodes, Positions, Null, Terms, RaftAssumption
  <1>6. t = [s EXCEPT !.up = TRUE, !.role = "follower", !.leaderId = NoOne, !.votes = {},
                      !.votesOut = n, !.waiters = {}, !.node = f]
    BY <1>3 DEF Restarted
  <1> HIDE DEF f
  <1>7. n \in Int
    BY RaftAssumption DEF RaftAssumption
  <1>8. t \in ServerRecords /\ t.role = "follower" /\ t.node = f /\ t.commit = s.commit
    BY <1>4, <1>5, <1>6, <1>7 DEF ServerOK, ServerRecords, Nobody
  <1>9. ServerOK(t) /\ t.commit >= s.commit
    BY <1>4, <1>8, CommitNumber DEF ServerOK
  <1>10. \A k \in Servers : srv'[k] = IF k = i THEN t ELSE srv[k]
    BY <1>2, <1>3 DEF TransferInv
  <1>11. TransferOK(calls, i, t)
    <2>1. \A j \in Servers : Live(calls, i, j) = {}
      BY <1>1, <1>4 DEF TransferInv, TransferOK
    <2> QED BY <2>1, <1>5, <1>8 DEF TransferOK
  <1>12. \A k \in Servers : TransferOK(calls', k, srv'[k])
    BY <1>4, <1>10, <1>11 DEF TransferInv
  <1>13. srv' \in [Servers -> ServerRecords] /\ \A k \in Servers : ServerOK(srv'[k])
    BY <1>2, <1>3, <1>8, <1>9, <1>10 DEF TransferInv
  <1>14. CommitKept
    <2>1. \A k \in Servers : srv[k].commit >= srv[k].commit
      BY CommitNumber DEF TransferInv
    <2> QED BY <1>1, <1>9, <1>10, <2>1 DEF CommitKept
  <1> QED BY <1>4, <1>12, <1>13, <1>14 DEF TransferInv, TransferOK

-----------------------------------------------------------------------------
(* The invariant.                                                          *)

LEMMA TransferInit ==
    Init => TransferInv
  <1> SUFFICES ASSUME Init PROVE TransferInv
    OBVIOUS
  <1> DEFINE f == [j \in Servers |-> NewNode]
  <1>1. f \in [Servers -> Nodes] /\ \A j \in Servers : f[j].inTransfer = FALSE
    BY RaftAssumption DEF NewNode, Nodes, Positions, Null, Terms, RaftAssumption
  <1>2. ASSUME NEW i \in Servers
        PROVE  srv[i] \in ServerRecords /\ srv[i].role = "follower" /\ srv[i].node = f
    <2>1. PICK n \in UninitVotes :
             srv[i] = [up |-> TRUE, aborted |-> FALSE, term |-> 0, votedFor |-> NoOne,
                       lastPos |-> Null, lastTerm |-> 0, commit |-> Null, log |-> << >>,
                       role |-> "follower", leaderId |-> NoOne, votes |-> {},
                       votesOut |-> n, waiters |-> {}, node |-> f]
      BY DEF Init
    <2>2. n \in Int /\ 0 \in Terms /\ Null \in Positions /\ << >> \in Seq(Entries)
      BY RaftAssumption DEF RaftAssumption, Terms, Positions, Null
    <2> HIDE DEF f
    <2> QED BY <1>1, <2>1, <2>2 DEF ServerRecords, Nobody
  <1> HIDE DEF f
  <1>3. calls = {} /\ \A i, j : Live(calls, i, j) = {}
    BY DEF Init, Live
  <1>4. \A i \in Servers : TransferOK(calls, i, srv[i])
    BY <1>1, <1>2, <1>3 DEF TransferOK
  <1>5. srv \in [Servers -> ServerRecords]
    BY <1>2 DEF Init
  <1> QED BY <1>2, <1>3, <1>4, <1>5 DEF TransferInv, ServerOK

LEMMA TransferStep ==
    TransferInv /\ [Next]_vars =>
        TransferInv' /\ [\A i \in Servers : srv'[i].commit >= srv[i].commit]_vars
  <1> SUFFICES ASSUME TransferInv, [Next]_vars
               PROVE  TransferInv' /\ [CommitKept]_vars
    BY DEF CommitKept
  <1>1. CASE UNCHANGED vars
    BY <1>1 DEF vars, TransferInv, TransferOK
  <1>2. CASE Next
    BY <1>2, HeartbeatStep, ElectionTimeoutStep, CrashStep, RestartStep, CrashInSaveStep,
       SaveStep, ExecuteStep, ReplyStep, FailStep, CrashInAppendStep DEF Next
  <1> QED BY <1>1, <1>2

(* commit_pos_ never goes back: not in a handler of Vote, Append or their  *)
(* responses, not at a new leader, not in a crash inside Save or Append    *)
(* and not at a restart, for every group, log and number of failures.      *)
THEOREM CommitIsMonotone ==
    Spec => CommitNeverDecreases
  BY TransferInit, TransferStep, PTL DEF Spec, CommitNeverDecreases

LEMMA TransferIsInvariant ==
    Spec => []TransferInv
  BY TransferInit, TransferStep, PTL DEF Spec

(* in_transfer_ is set exactly while one AppendEntries to the node awaits  *)
(* its answer: through failures, repeated and late RPCs, elections,        *)
(* crashes and restarts, for every group of servers.                       *)
THEOREM AwaitsOneAppend ==
    Spec => []OneAppendInTransfer
  <1>1. TransferInv => OneAppendInTransfer
    <2> SUFFICES ASSUME TransferInv, NEW i \in Servers, NEW j \in Servers, srv[i].up
                 PROVE  Cardinality(Live(calls, i, j))
                           = (IF srv[i].node[j].inTransfer THEN 1 ELSE 0)
      BY DEF OneAppendInTransfer, Live
    <2>1. IF srv[i].node[j].inTransfer THEN \E c : Live(calls, i, j) = {c}
          ELSE Live(calls, i, j) = {}
      BY DEF TransferInv, TransferOK
    <2> QED BY <2>1, FS_EmptySet, FS_Singleton
  <1> QED BY <1>1, TransferIsInvariant, PTL

(* Every member of every server and every RPC has its type.                *)
THEOREM TypeCorrect ==
    Spec => []TypeOK
  <1>1. TransferInv => TypeOK
    <2> SUFFICES ASSUME TransferInv PROVE TypeOK
      OBVIOUS
    <2>1. ASSUME NEW c \in calls
          PROVE  /\ c.kind \in {"vote", "append"} /\ c.from # c.to
                 /\ c.live \in BOOLEAN /\ c.req.term \in Terms
      BY DEF TransferInv, Calls, VoteCalls, AppendCalls, VoteReqs, AppendReqs
    <2>2. \A i \in Servers : srv[i] \in ServerRecords
      BY DEF TransferInv
    <2>3. ASSUME NEW i \in Servers PROVE \A k \in DOMAIN srv[i].log : srv[i].log[k] \in Entries
      <3>1. srv[i].log \in Seq(Entries)
        BY <2>2 DEF ServerRecords
      <3> QED BY <3>1
    <2> QED BY <2>1, <2>2, <2>3 DEF TypeOK, ServerRecords, Nobody
  <1> QED BY <1>1, TransferIsInvariant, PTL

-----------------------------------------------------------------------------
(* Elections in the first term.  One vote elects a candidate (the count    *)
(* gives it the votes of all), and UpdateCurrentTermLocked keeps           *)
(* voted_for_, so this is about term 1 and groups of up to three.          *)

\* s has voted for i and follows: voted_for_ stays so for the whole term.
Backs(s, i) == s.role = "follower" /\ s.term = 1 /\ s.votedFor = i
Settled(s) == s.role = "follower" /\ s.term = 1 /\ s.votedFor # NoOne

\* A candidate or leader is in term 1 and has its own vote.
Ballot(s, i) == s.role # "follower" => s.term = 1 /\ s.votedFor = i

SameBallot(s, t) == t.role = s.role /\ t.term = s.term /\ t.votedFor = s.votedFor

\* What a handler of i may do to the ballot when it makes no leader of i.
BallotStep(s, i, t) ==
    /\ Ballot(t, i)
    /\ Settled(s) => SameBallot(s, t)

\* A vote that was granted is one its server stands by.
Backed(c, S) ==
    c.kind = "vote" =>
        /\ c.req.term = 1
        /\ c.resp.answered /\ c.resp.granted => Backs(S[c.to], c.from)

ElectionInv ==
    /\ \A i \in Servers : Ballot(srv[i], i)
    /\ \A c \in calls : Backed(c, srv)
    /\ \A i \in Servers :
          srv[i].role = "leader" => \E x \in Servers \ {i} : Backs(srv[x], i)

\* Only AppendEntries are sent, and the ballot is left alone.
AppendsOnly(s, r) == SameBallot(s, r.s) /\ \A c \in r.sent : c.kind = "append"

LEMMA SendingKeepsBallot ==
    ASSUME NEW s, {"role", "term", "votedFor"} \subseteq DOMAIN s, NEW i, NEW j
    PROVE  AppendsOnly(s, SendAppendEntries(s, i, j))
  <1>1. \A k, n : SameBallot(s, [s EXCEPT !.node[k] = n]) /\ SameBallot(s, s)
    BY DEF SameBallot
  <1>2. SameBallot(s, SendAppendEntries(s, i, j).s)
    BY <1>1 DEF SendAppendEntries, Just
  <1>3. \A d \in SendAppendEntries(s, i, j).sent : d.kind = "append"
    BY DEF SendAppendEntries, Just, Call
  <1> QED BY <1>2, <1>3 DEF AppendsOnly

LEMMA AppendsOnlyBySending ==
    ASSUME NEW s \in ServerRecords, NEW i, NEW j
    PROVE  /\ AppendsOnly(s, SendAppendEntries(s, i, j))
           /\ \A p : AppendsOnly(s, SendFilledEntry(s, i, j, p))
           /\ \A Js : AppendsOnly(s, SendToAll(s, i, Js))
           /\ AppendsOnly(s, Just(s)) /\ AppendsOnly(s, Abort(s))
  <1>1. \A f : SameBallot(s, [s EXCEPT !.node = f]) /\ SameBallot(s, s)
    BY DEF SameBallot, ServerRecords
  <1>2. \A k, n : SameBallot(s, [s EXCEPT !.node[k] = n])
    BY DEF SameBallot, ServerRecords
  <1>3. \A k, q : Call("append", i, k, q).kind = "append"
    BY DEF Call
  <1>4. \A k : \A c \in SendAppendEntries(s, i, k).sent : c.kind = "append"
    BY <1>3 DEF SendAppendEntries, Just
  <1>5. AppendsOnly(s, SendAppendEntries(s, i, j))
    BY <1>1, <1>2, <1>4 DEF AppendsOnly, SendAppendEntries, Just
  <1>6. ASSUME NEW p PROVE AppendsOnly(s, SendFilledEntry(s, i, j, p))
    BY <1>2, <1>3 DEF AppendsOnly, SendFilledEntry
  <1>7. ASSUME NEW Js PROVE AppendsOnly(s, SendToAll(s, i, Js))
    BY <1>1, <1>4 DEF AppendsOnly, SendToAll
  <1>8. SameBallot(s, [s EXCEPT !.up = FALSE, !.aborted = TRUE])
    BY DEF SameBallot, ServerRecords
  <1>9. AppendsOnly(s, Just(s)) /\ AppendsOnly(s, Abort(s))
    BY <1>1, <1>8 DEF AppendsOnly, Just, Abort
  <1> QED BY <1>5, <1>6, <1>7, <1>9

(* BecomeLeaderLocked.                                                     *)
LEMMA BallotOfLeader ==
    ASSUME NEW s \in ServerRecords, NEW i \in Servers
    PROVE  /\ BecomeLeader(s, i).s.term = s.term
           /\ \/ SameBallot(s, BecomeLeader(s, i).s)
              \/ BecomeLeader(s, i).s.role = "leader" /\ BecomeLeader(s, i).s.votedFor = i
           /\ \A c \in BecomeLeader(s, i).sent : c.kind = "append"
  <1> DEFINE next == IF s.lastPos = Null THEN 0 ELSE s.lastPos + 1
             start(j) == [s.node[j] EXCEPT
                             !.next = next, !.last = s.lastPos, !.lastTerm = s.lastTerm,
                             !.match = IF j = i THEN s.lastPos ELSE Null]
             f == [j \in Servers |-> start(j)]
             l == [s EXCEPT !.role = "leader", !.votedFor = i, !.leaderId = i, !.node = f]
  <1>1. BecomeLeader(s, i) = IF s.lastPos # Null /\ ~CanPull(s, s.lastPos) THEN Abort(s)
                             ELSE SendToAll(l, i, Servers)
    BY DEF BecomeLeader, SendHeartbeatToFollowers
  <1> HIDE DEF f
  <1>2. l.role = "leader" /\ l.votedFor = i /\ l.term = s.term
    BY DEF ServerRecords
  <1>3. \A q : SendToAll(l, q, Servers).s.role = l.role /\ SendToAll(l, q, Servers).s.term = l.term
                /\ SendToAll(l, q, Servers).s.votedFor = l.votedFor
    BY DEF SendToAll, ServerRecords
  <1>4. \A c \in SendToAll(l, i, Servers).sent : c.kind = "append"
    BY DEF SendToAll, SendAppendEntries, Just, Call
  <1> HIDE DEF l
  <1>5. AppendsOnly(s, Abort(s))
    BY AppendsOnlyBySending
  <1>6. CASE s.lastPos # Null /\ ~CanPull(s, s.lastPos)
    <2>1. BecomeLeader(s, i) = Abort(s)
      BY <1>1, <1>6
    <2>2. AppendsOnly(s, BecomeLeader(s, i))
      BY <1>5, <2>1
    <2> QED BY <2>2 DEF AppendsOnly, SameBallot
  <1>7. CASE ~(s.lastPos # Null /\ ~CanPull(s, s.lastPos))
    <2>1. BecomeLeader(s, i) = SendToAll(l, i, Servers)
      BY <1>1, <1>7
    <2> QED BY <1>2, <1>3, <1>4, <2>1
  <1> QED BY <1>6, <1>7

(* ProcessRequestVoteResponse: only a candidate with a granted vote leads. *)
LEMMA BallotOfVotes ==
    ASSUME NEW s, ServerOK(s), NEW i \in Servers, NEW c, NEW failed \in BOOLEAN, Ballot(s, i),
           NEW r, r = ProcessVoteResponse(s, i, c, failed), RaftAssumption
    PROVE  /\ BallotStep(s, i, r.s)
           /\ \A d \in r.sent : d.kind = "append"
           /\ r.s.role = "leader" =>
                s.role = "leader" \/ (s.role = "candidate" /\ ~failed /\ c.resp.granted)
  <1> DEFINE v == [s EXCEPT !.votes = Servers]
             elected == ~failed /\ s.role = "candidate" /\ c.resp.granted
             q == IF elected /\ Cardinality(Servers) >= (Cardinality(Servers) \div 2) + 1
                  THEN BecomeLeader(v, i) ELSE Just(s)
             out == [q.s EXCEPT !.votesOut = @ - 1]
             f == BecomeFollower(out, NoOne)
  <1>1. /\ r.s = IF out.up /\ out.votesOut = 0 /\ out.role = "candidate" THEN f ELSE out
        /\ r.sent = q.sent
    BY DEF ProcessVoteResponse
  <1>2. s \in ServerRecords /\ v \in ServerRecords /\ SameBallot(s, v)
    BY DEF ServerOK, ServerRecords, SameBallot
  <1>3. ServerOK(v)
    BY DEF ServerOK, ServerRecords
  <1> HIDE DEF v
  <1>4. q.s \in ServerRecords /\ \A d \in q.sent : d.kind = "append"
    <2>1. SendsOK(v, i, BecomeLeader(v, i))
      BY <1>3, BecomeLeaderOK
    <2>2. BecomeLeader(v, i).s \in ServerRecords /\ \A d \in BecomeLeader(v, i).sent : d.kind = "append"
      BY <1>2, <2>1, BallotOfLeader DEF SendsOK, ServerOK
    <2>3. Just(s).s \in ServerRecords /\ \A d \in Just(s).sent : d.kind = "append"
      BY <1>2 DEF Just
    <2> QED BY <2>2, <2>3
  <1>5. Ballot(q.s, i) /\ (s.role # "candidate" => SameBallot(s, q.s))
        /\ (q.s.role = "leader" => s.role = "leader" \/ elected)
    <2>1. CASE elected /\ Cardinality(Servers) >= (Cardinality(Servers) \div 2) + 1
      <3>1. q = BecomeLeader(v, i)
        BY <2>1
      <3>2. s.term = 1 /\ s.role = "candidate" /\ s.votedFor = i
        BY <2>1 DEF Ballot
      <3>3. /\ q.s.term = v.term
            /\ SameBallot(v, q.s) \/ (q.s.role = "leader" /\ q.s.votedFor = i)
        BY <1>2, <3>1, BallotOfLeader
      <3> HIDE DEF q
      <3> QED BY <1>2, <2>1, <3>2, <3>3 DEF Ballot, SameBallot
    <2>2. CASE ~(elected /\ Cardinality(Servers) >= (Cardinality(Servers) \div 2) + 1)
      <3>1. q = Just(s)
        BY <2>2
      <3>2. q.s = s
        BY <3>1 DEF Just
      <3> QED BY <3>2 DEF SameBallot
    <2> QED BY <2>1, <2>2
  <1> HIDE DEF q
  <1>6. out.role = q.s.role /\ out.term = q.s.term /\ out.votedFor = q.s.votedFor
        /\ f.role = "follower" /\ f.term = out.term
    BY <1>4 DEF ServerRecords, BecomeFollower
  <1> HIDE DEF out, f
  <1>7. Settled(s) => SameBallot(s, r.s)
    BY <1>1, <1>5, <1>6 DEF Settled, SameBallot
  <1>8. Ballot(r.s, i) /\ (r.s.role = "leader" => s.role = "leader" \/ elected)
    BY <1>1, <1>5, <1>6 DEF Ballot
  <1> QED BY <1>1, <1>4, <1>7, <1>8 DEF BallotStep

(* DegradeNodeLocked and ProcessAppendEntriesResponse.                     *)
LEMMA BallotOfDegrade ==
    ASSUME NEW s \in ServerRecords, NEW i, NEW j, NEW c
    PROVE  AppendsOnly(s, DegradeNode(s, i, j, c))
  <1>1. ASSUME NEW n
        PROVE  AppendsOnly(s, SendAppendEntries([s EXCEPT !.node[j] = n], i, j))
    <2> DEFINE t == [s EXCEPT !.node[j] = n]
    <2>1. SameBallot(s, t) /\ DOMAIN t = DOMAIN s
      BY DEF SameBallot, ServerRecords
    <2> HIDE DEF t
    <2>2. {"role", "term", "votedFor"} \subseteq DOMAIN t
      BY <2>1 DEF ServerRecords
    <2>3. AppendsOnly(t, SendAppendEntries(t, i, j))
      BY <2>2, SendingKeepsBallot
    <2>4. AppendsOnly(s, SendAppendEntries(t, i, j))
      BY <2>1, <2>3 DEF AppendsOnly, SameBallot
    <2> QED BY <2>4 DEF t
  <1> DEFINE p == c.req.lastPos
             back == c.resp.commit
             first == [s.node[j] EXCEPT !.next = 0, !.last = Null, !.lastTerm = 0]
             at(q) == [s.node[j] EXCEPT !.next = PullPos(q) + 1,
                                        !.last = Record(s, PullPos(q)).pos,
                                        !.lastTerm = Record(s, PullPos(q)).term]
  <1>2. \/ DegradeNode(s, i, j, c) = SendAppendEntries([s EXCEPT !.node[j] = first], i, j)
        \/ DegradeNode(s, i, j, c) = SendAppendEntries([s EXCEPT !.node[j] = at(back)], i, j)
        \/ DegradeNode(s, i, j, c) = SendFilledEntry(s, i, j, p)
        \/ DegradeNode(s, i, j, c) = Abort(s)
    BY DEF DegradeNode
  <1> HIDE DEF first, at
  <1>3. /\ AppendsOnly(s, SendAppendEntries([s EXCEPT !.node[j] = first], i, j))
        /\ AppendsOnly(s, SendAppendEntries([s EXCEPT !.node[j] = at(back)], i, j))
    BY <1>1
  <1>4. AppendsOnly(s, SendFilledEntry(s, i, j, p)) /\ AppendsOnly(s, Abort(s))
    BY AppendsOnlyBySending
  <1> QED BY <1>2, <1>3, <1>4

LEMMA BallotOfAppends ==
    ASSUME NEW s0, ServerOK(s0), NEW i \in Servers, NEW c \in AppendCalls, i # c.to,
           NEW failed \in BOOLEAN, failed \/ c.resp \in AppendResps, Ballot(s0, i),
           MaxTerm = 1, RaftAssumption
    PROVE  AppendsOnly(s0, ProcessAppendResponse(s0, i, c, failed))
  <1> DEFINE j == c.to
             s == [s0 EXCEPT !.node[j].inTransfer = FALSE]
             e == Last(c.req.entries)
             matched == [s EXCEPT !.node[j] =
                            [@ EXCEPT !.match = e.pos, !.last = e.pos, !.lastTerm = e.term]]
             advanced == MaybeAdvanceCommit(matched, i)
             r == ProcessAppendResponse(s0, i, c, failed)
  <1>1. SameBallot(s0, s) /\ DOMAIN s = DOMAIN s0
    BY DEF ServerOK, ServerRecords, SameBallot
  <1>2. SameBallot(s0, matched) /\ DOMAIN matched = DOMAIN s0
    BY DEF ServerOK, ServerRecords, SameBallot
  <1>3. r = IF failed \/ s.role # "leader" THEN Just(s)
            ELSE IF c.resp.term > s.term THEN Just(UpdateCurrentTerm(s, c.resp.term, NoOne))
            ELSE IF ~c.resp.success THEN DegradeNode(s, i, j, c)
            ELSE IF c.req.entries = << >> THEN Just(s)
            ELSE IF s.node[j].match > s.node[j].next THEN Abort(s)
            ELSE IF Tell(s) > s.node[j].next THEN SendAppendEntries(advanced, i, j)
            ELSE Just(advanced)
    BY DEF ProcessAppendResponse
  <1>4. s \in ServerRecords
    <2>1. AnsweredOK(s0, i, j, r)
      BY ProcessAppendResponseOK
    <2> QED BY <2>1 DEF AnsweredOK, Answered, ServerOK
  <1> HIDE DEF s, matched
  <1>5. SameBallot(matched, advanced) /\ DOMAIN advanced = DOMAIN matched
    <2>1. {"role", "term", "votedFor"} \subseteq DOMAIN matched
      BY <1>2 DEF ServerOK, ServerRecords
    <2> DEFINE k == CanCommit(matched, i)
    <2>2. advanced = IF k <= matched.commit THEN matched
                     ELSE [matched EXCEPT !.commit = k, !.waiters = {w \in @ : w[1] > k}]
      BY DEF MaybeAdvanceCommit
    <2> HIDE DEF k, advanced
    <2> QED BY <2>1, <2>2 DEF SameBallot
  <1> HIDE DEF advanced
  <1>6. AppendsOnly(advanced, SendAppendEntries(advanced, i, j))
    <2>1. {"role", "term", "votedFor"} \subseteq DOMAIN advanced
      BY <1>2, <1>5 DEF ServerOK, ServerRecords
    <2> QED BY <2>1, SendingKeepsBallot
  <1>7. AppendsOnly(s0, SendAppendEntries(advanced, i, j)) /\ AppendsOnly(s0, Just(advanced))
    BY <1>2, <1>5, <1>6 DEF AppendsOnly, SameBallot, Just
  <1>8. /\ AppendsOnly(s, DegradeNode(s, i, j, c)) /\ AppendsOnly(s, Just(s))
        /\ AppendsOnly(s, Abort(s))
    BY <1>4, BallotOfDegrade, AppendsOnlyBySending
  <1>9. /\ AppendsOnly(s0, DegradeNode(s, i, j, c)) /\ AppendsOnly(s0, Just(s))
        /\ AppendsOnly(s0, Abort(s))
    BY <1>1, <1>8 DEF AppendsOnly, SameBallot
  <1>10. ~failed /\ s.role = "leader" => ~(c.resp.term > s.term)
    <2> SUFFICES ASSUME ~failed, s.role = "leader" PROVE ~(c.resp.term > s.term)
      OBVIOUS
    <2>1. s.term = 1
      BY <1>1 DEF Ballot, SameBallot
    <2>2. c.resp.term \in 0 .. 1
      BY DEF AppendResps, Terms
    <2> QED BY <2>1, <2>2
  <1>11. \/ r = Just(s) \/ r = DegradeNode(s, i, j, c) \/ r = Abort(s)
         \/ r = SendAppendEntries(advanced, i, j) \/ r = Just(advanced)
    BY <1>3, <1>10
  <1> HIDE DEF r
  <1>12. AppendsOnly(s0, r)
    BY <1>7, <1>9, <1>11
  <1> QED BY <1>12 DEF r

(* Append, and the part of it that comes before a crash inside it.         *)
LEMMA BallotOfFollowing ==
    ASSUME NEW s, ServerOK(s), NEW i \in Servers, NEW req \in AppendReqs, Ballot(s, i),
           MaxTerm = 1
    PROVE  /\ BallotStep(s, i, FollowTerm(s, req))
           /\ FollowTerm(s, req).role = "leader" => s.role = "leader"
  <1> DEFINE f == FollowTerm(s, req)
  <1>1. req.term \in 0 .. 1 /\ s.term \in 0 .. 1 /\ s \in ServerRecords
    BY DEF AppendReqs, Terms, ServerOK, ServerRecords
  <1>2. CASE req.term > s.term
    <2>1. s.term # 1 /\ s.role = "follower"
      BY <1>1, <1>2 DEF Ballot
    <2>2. f = [s EXCEPT !.term = req.term]
      BY <1>2, <2>1 DEF FollowTerm, UpdateCurrentTerm
    <2>3. f.role = "follower"
      BY <1>1, <2>1, <2>2 DEF ServerRecords
    <2> QED BY <2>1, <2>3 DEF BallotStep, Ballot, Settled
  <1>3. CASE ~(req.term > s.term) /\ s.role = "candidate"
    <2>1. f = BecomeFollower(s, req.leader)
      BY <1>3 DEF FollowTerm
    <2>2. f.role = "follower"
      BY <1>1, <2>1 DEF BecomeFollower, ServerRecords
    <2> QED BY <1>3, <2>2 DEF BallotStep, Ballot, Settled
  <1>4. CASE ~(req.term > s.term) /\ s.role # "candidate"
    <2>1. f = [s EXCEPT !.leaderId = req.leader]
      BY <1>4 DEF FollowTerm
    <2>2. SameBallot(s, f)
      BY <1>1, <2>1 DEF SameBallot, ServerRecords
    <2> QED BY <2>2 DEF BallotStep, Ballot, SameBallot
  <1> QED BY <1>2, <1>3, <1>4

LEMMA BallotOfAppend ==
    ASSUME NEW s, ServerOK(s), NEW i \in Servers, NEW c \in AppendCalls, Ballot(s, i),
           MaxTerm = 1
    PROVE  /\ BallotStep(s, i, Append_(s, i, c))
           /\ Append_(s, i, c).role = "leader" => s.role = "leader"
  <1> DEFINE req == c.req
             f == FollowTerm(s, req)
             w == IF req.entries = << >> THEN f
                  ELSE WithEntries(Truncated(f, req.lastPos), req.entries)
             t == Append_(s, i, c)
  <1>1. req \in AppendReqs
    BY DEF AppendCalls
  <1>2. BallotStep(s, i, f) /\ (f.role = "leader" => s.role = "leader")
    BY <1>1, BallotOfFollowing
  <1>3. {"role", "term", "votedFor"} \subseteq DOMAIN f
    BY <1>1, FollowTermOK DEF ServesOK, ServerOK, ServerRecords
  <1>4. t = IF req.term < s.term THEN s
            ELSE IF AppendSucceeds(f, req) THEN Committed(w, req) ELSE f
    BY DEF Append_
  <1> HIDE DEF f
  <1>5. SameBallot(f, w) /\ DOMAIN w = DOMAIN f
    BY <1>3 DEF SameBallot, WithEntries, Truncated
  <1> HIDE DEF w
  <1>6. SameBallot(f, Committed(w, req))
    BY <1>3, <1>5 DEF SameBallot, Committed
  <1>7. SameBallot(f, f) /\ SameBallot(s, s)
    BY DEF SameBallot
  <1>8. SameBallot(f, t) \/ SameBallot(s, t)
    BY <1>4, <1>6, <1>7
  <1> HIDE DEF t
  <1>9. BallotStep(s, i, t) /\ (t.role = "leader" => s.role = "leader")
    BY <1>2, <1>8 DEF BallotStep, Ballot, SameBallot
  <1> QED BY <1>9 DEF t

(* Vote: who grants a vote in term 1 backs the candidate from then on.     *)
LEMMA BallotOfVote ==
    ASSUME NEW s, ServerOK(s), NEW i \in Servers, NEW c \in VoteCalls, Ballot(s, i),
           c.req.term = 1, MaxTerm = 1
    PROVE  /\ BallotStep(s, i, Vote(s, i, c))
           /\ Vote(s, i, c).role = "leader" => s.role = "leader"
           /\ VoteResponse(s, c.req).granted => Backs(Vote(s, i, c), c.from)
  <1>1. s \in ServerRecords /\ s.term \in 0 .. 1
    BY DEF Terms, ServerOK, ServerRecords
  <1>2. VoteResponse(s, c.req).granted = Grants(s, c.req)
    BY DEF VoteResponse
  <1>3. CASE Grants(s, c.req)
    <2>1. s.role = "follower" /\ ~Settled(s)
      <3>1. s.term < 1 \/ s.votedFor = NoOne
        BY <1>3 DEF Grants
      <3> QED BY <1>1, <3>1, NoOneAssumption DEF Ballot, Settled
    <2>2. Vote(s, i, c) = [s EXCEPT !.votedFor = c.from, !.term = 1]
      BY <1>3 DEF Vote
    <2>3. Backs(Vote(s, i, c), c.from)
      BY <1>1, <2>1, <2>2 DEF ServerRecords, Backs
    <2> QED BY <2>1, <2>3 DEF BallotStep, Ballot, Backs
  <1>4. CASE ~Grants(s, c.req)
    <2>1. Vote(s, i, c) = s
      BY <1>4 DEF Vote
    <2> QED BY <1>2, <1>4, <2>1 DEF BallotStep, SameBallot
  <1> QED BY <1>3, <1>4

-----------------------------------------------------------------------------
(* The steps, for the ballots.                                             *)

\* Every RPC under way is one of D, but for who awaits it.
OnlyFrom(C, D) ==
    \A c \in C : \E d \in D : /\ c.kind = d.kind /\ c.from = d.from /\ c.to = d.to
                              /\ c.req = d.req /\ c.resp = d.resp

LEMMA OrphanedFrom ==
    ASSUME NEW C \in SUBSET Calls, NEW i
    PROVE  OnlyFrom(Orphaned(C, i), C) /\ OnlyFrom(C, C)
  <1> DEFINE o(c) == [c EXCEPT !.live = c.live /\ c.from # i]
  <1>1. ASSUME NEW c \in Calls
        PROVE  /\ o(c).kind = c.kind /\ o(c).from = c.from /\ o(c).to = c.to
               /\ o(c).req = c.req /\ o(c).resp = c.resp
    BY DEF Calls, VoteCalls, AppendCalls
  <1>2. \A d \in Orphaned(C, i) : \E c \in C : d = o(c)
    BY DEF Orphaned
  <1> HIDE DEF o
  <1> QED BY <1>1, <1>2 DEF OnlyFrom

\* The step of i from the ballot s to t, with the RPCs D there may be after it.
BallotsMove(i, s, t, D) ==
    /\ s = srv[i] /\ srv' = [srv EXCEPT ![i] = t] /\ OnlyFrom(calls', D)
    /\ BallotStep(s, i, t)
    /\ t.role = "leader" => s.role = "leader" \/ \E x \in Servers \ {i} : Backs(srv[x], i)
    /\ \A d \in D : d \in calls \/ Backed(d, srv')

\* Who backs a candidate backs it for good.
BackersStay == \A k, x \in Servers : Backs(srv[k], x) => Backs(srv'[k], x)

LEMMA BallotsKept ==
    ASSUME TransferInv, ElectionInv, NEW i \in Servers, NEW s, NEW t, NEW D, BallotsMove(i, s, t, D)
    PROVE  ElectionInv' /\ BackersStay
  <1>1. \A k \in Servers : srv'[k] = IF k = i THEN t ELSE srv[k]
    BY DEF TransferInv, BallotsMove
  <1>2. ASSUME NEW k \in Servers, NEW x \in Servers, Backs(srv[k], x) PROVE Backs(srv'[k], x)
    <2>1. CASE k # i
      BY <1>1, <1>2, <2>1
    <2>2. CASE k = i
      <3>1. Settled(s) /\ Backs(s, x)
        BY <1>2, <2>2, NoOneAssumption DEF Backs, Settled, BallotsMove
      <3>2. SameBallot(s, t) /\ srv'[k] = t
        BY <1>1, <2>2, <3>1 DEF BallotsMove, BallotStep
      <3>3. Backs(t, x)
        BY <3>1, <3>2 DEF SameBallot, Backs
      <3> QED BY <3>2, <3>3 DEF Backs
    <2> QED BY <2>1, <2>2
  <1>3. ASSUME NEW k \in Servers PROVE Ballot(srv'[k], k)
    BY <1>1 DEF BallotsMove, BallotStep, ElectionInv, Ballot
  <1>4. ASSUME NEW d \in D PROVE Backed(d, srv')
    <2>1. CASE d \in calls
      <3>1. d.from \in Servers /\ d.to \in Servers /\ Backed(d, srv)
        BY <2>1 DEF TransferInv, Calls, VoteCalls, AppendCalls, ElectionInv
      <3> QED BY <1>2, <3>1 DEF Backed
    <2>2. CASE d \notin calls
      BY <2>2 DEF BallotsMove
    <2> QED BY <2>1, <2>2
  <1>5. ASSUME NEW c \in calls' PROVE Backed(c, srv')
    <2>1. PICK d \in D : /\ c.kind = d.kind /\ c.from = d.from /\ c.to = d.to
                         /\ c.req = d.req /\ c.resp = d.resp
      BY DEF BallotsMove, OnlyFrom
    <2> QED BY <1>4, <2>1 DEF Backed
  <1>6. ASSUME NEW k \in Servers, srv'[k].role = "leader"
        PROVE  \E x \in Servers \ {k} : Backs(srv'[x], k)
    <2>1. \E x \in Servers \ {k} : Backs(srv[x], k)
      BY <1>1, <1>6 DEF ElectionInv, BallotsMove
    <2> QED BY <1>2, <2>1
  <1> QED BY <1>2, <1>3, <1>5, <1>6 DEF ElectionInv, Backed, Backs, Ballot, BackersStay

\* A handler of i that makes no leader, unless somebody backs i.
Elects(i, s, r) ==
    /\ s = srv[i] /\ r.sent \subseteq Calls /\ BallotStep(s, i, r.s)
    /\ r.s.role = "leader" => s.role = "leader" \/ \E x \in Servers \ {i} : Backs(srv[x], i)
    /\ \A d \in r.sent : d.kind = "append" \/ (d.req.term = 1 /\ ~d.resp.answered)

LEMMA DoneElects ==
    ASSUME TransferInv, ElectionInv, NEW i \in Servers, NEW s, NEW r, Elects(i, s, r),
           NEW gone, NEW new \in SUBSET Calls, Done(i, r, gone, new),
           \A d \in new : Backed(d, srv')
    PROVE  ElectionInv' /\ BackersStay
  <1>1. PICK D : D = (calls \ gone) \cup r.sent \cup new
    OBVIOUS
  <1>2. PICK t : t = r.s
    OBVIOUS
  <1>3. D \in SUBSET Calls
    BY <1>1 DEF Elects, TransferInv
  <1>4. OnlyFrom(calls', D)
    <2>1. calls' = IF r.s.up THEN D ELSE Orphaned(D, i)
      BY <1>1 DEF Done
    <2>2. OnlyFrom(D, D) /\ OnlyFrom(Orphaned(D, i), D)
      BY <1>3, OrphanedFrom
    <2> QED BY <2>1, <2>2 DEF OnlyFrom
  <1>5. \A d \in r.sent : Backed(d, srv')
    BY DEF Elects, Backed
  <1>6. \A d \in D : d \in calls \/ Backed(d, srv')
    BY <1>1, <1>5
  <1>7. BallotsMove(i, s, t, D)
    BY <1>2, <1>4, <1>6 DEF BallotsMove, Elects, Done
  <1> QED BY <1>7, BallotsKept

(* The periodic check.                                                     *)
LEMMA HeartbeatElects ==
    ASSUME TransferInv, ElectionInv, NEW i \in Servers, Heartbeat(i)
    PROVE  ElectionInv' /\ BackersStay
  <1>1. PICK s : s = srv[i]
    OBVIOUS
  <1>2. PICK r : r = SendToAll(s, i, Servers)
    OBVIOUS
  <1>3. s.role = "leader" /\ ServerOK(s) /\ Ballot(s, i) /\ Done(i, r, {}, {})
    BY <1>1, <1>2 DEF Heartbeat, TransferInv, ElectionInv, SendHeartbeatToFollowers
  <1>4. SendsOK(s, i, r)
    BY <1>2, <1>3, RaftAssumption, SendToAllOK
  <1>5. AppendsOnly(s, r)
    BY <1>2, <1>3, AppendsOnlyBySending DEF ServerOK
  <1>6. Elects(i, s, r)
    BY <1>1, <1>3, <1>4, <1>5 DEF Elects, SendsOK, AppendsOnly, BallotStep, Ballot, SameBallot
  <1> QED BY <1>3, <1>6, DoneElects

LEMMA TimeoutElects ==
    ASSUME TransferInv, ElectionInv, NEW i \in Servers, ElectionTimeout(i), MaxTerm = 1
    PROVE  ElectionInv' /\ BackersStay
  <1>1. PICK s : s = srv[i]
    OBVIOUS
  <1>2. PICK r : r = BecomeCandidate(s, i)
    OBVIOUS
  <1>3. s.term < 1 /\ ServerOK(s) /\ Ballot(s, i) /\ Done(i, r, {}, {})
    BY <1>1, <1>2 DEF ElectionTimeout, TransferInv, ElectionInv
  <1>4. SendsOK(s, i, r)
    BY <1>2, <1>3, RaftAssumption, BecomeCandidateOK
  <1>5. s.term = 0 /\ s \in ServerRecords
    BY <1>3 DEF ServerOK, ServerRecords, Terms
  <1> DEFINE n == s.votesOut + Cardinality(Servers) - 1
             d == [s EXCEPT !.role = "candidate", !.votedFor = i, !.leaderId = NoOne,
                            !.votes = {i}, !.term = @ + 1, !.votesOut = n]
  <1>6. r.s = d /\ r.sent = SendRequestVote(d, i)
    BY <1>2 DEF BecomeCandidate
  <1> HIDE DEF n
  <1>7. d.role = "candidate" /\ d.votedFor = i /\ d.term = 1
    BY <1>5 DEF ServerRecords
  <1> HIDE DEF d
  <1>8. \A c \in r.sent : c.req.term = 1 /\ ~c.resp.answered
    BY <1>6, <1>7 DEF SendRequestVote, Call, NoResp
  <1>9. Elects(i, s, r)
    BY <1>1, <1>4, <1>5, <1>6, <1>7, <1>8 DEF Elects, SendsOK, BallotStep, Ballot, Settled
  <1> QED BY <1>3, <1>9, DoneElects

(* Save.                                                                   *)
LEMMA SaveElects ==
    ASSUME TransferInv, ElectionInv, NEW i \in Servers, NEW v \in Values, NEW wait \in BOOLEAN,
           Save(i, v, wait)
    PROVE  ElectionInv' /\ BackersStay
  <1>1. PICK s : s = srv[i]
    OBVIOUS
  <1> DEFINE l == Append(s.log, SavedEntry(s, v))
             w == [s EXCEPT !.log = l, !.lastPos = Tell(s), !.lastTerm = s.term]
             ready == {j \in Servers : ~w.node[j].inTransfer /\ w.node[j].next = w.lastPos}
             q == SendToAll(w, i, ready)
             waiters == IF wait /\ \A x \in s.waiters : x[1] # Tell(s)
                        THEN s.waiters \cup {<<Tell(s), v>>} ELSE s.waiters
  <1>2. PICK r : r = [q EXCEPT !.s.waiters = waiters]
    OBVIOUS
  <1>3. s.role = "leader" /\ ServerOK(s) /\ Ballot(s, i)
    BY <1>1 DEF Save, TransferInv, ElectionInv
  <1>4. Done(i, r, {}, {})
    BY <1>1, <1>2, ZenonT(60) DEF Save, SavedEntry
  <1>5. l \in Seq(Entries) /\ Tell(s) \in Positions /\ s.term \in Terms
    BY <1>3, SavedLog DEF ServerOK, ServerRecords, Positions
  <1> HIDE DEF l
  <1>6. w \in ServerRecords /\ w.node = s.node /\ SameBallot(s, w)
    <2> DEFINE p == Tell(s)
               m == s.term
    <2>1. w = [s EXCEPT !.log = l, !.lastPos = p, !.lastTerm = m] /\ p \in Positions /\ m \in Terms
      BY <1>5
    <2> HIDE DEF w, p, m
    <2>2. s \in ServerRecords
      BY <1>3 DEF ServerOK
    <2> QED BY <1>5, <2>1, <2>2 DEF ServerRecords, SameBallot
  <1> HIDE DEF w, waiters
  <1>7. ServerOK(w) /\ w.role = "leader"
    BY <1>3, <1>6 DEF ServerOK, SameBallot
  <1>8. SendsOK(w, i, q)
    BY <1>7, RaftAssumption, SendToAllOK
  <1>9. AppendsOnly(w, q)
    BY <1>6, AppendsOnlyBySending
  <1>10. r.sent = q.sent /\ r.s = [q.s EXCEPT !.waiters = waiters]
    BY <1>2 DEF SendToAll
  <1> HIDE DEF q
  <1>11. SameBallot(q.s, r.s)
    BY <1>8, <1>10 DEF SendsOK, ServerOK, ServerRecords, SameBallot
  <1>12. AppendsOnly(s, r) /\ r.sent \subseteq Calls
    BY <1>6, <1>8, <1>9, <1>10, <1>11 DEF AppendsOnly, SameBallot, SendsOK
  <1>13. Elects(i, s, r)
    BY <1>1, <1>3, <1>12 DEF Elects, AppendsOnly, BallotStep, Ballot, SameBallot
  <1> QED BY <1>4, <1>13, DoneElects

(* The execution of a request.                                             *)
LEMMA ExecuteElects ==
    ASSUME TransferInv, ElectionInv, NEW c \in calls, Execute(c), MaxTerm = 1
    PROVE  ElectionInv' /\ BackersStay
  <1>1. PICK d : d = c
    OBVIOUS
  <1>2. PICK i : i = d.to
    OBVIOUS
  <1>3. PICK s : s = srv[i]
    OBVIOUS
  <1>4. i \in Servers /\ d \in VoteCalls \cup AppendCalls /\ d \in Calls /\ Backed(d, srv)
    BY <1>1, <1>2 DEF TransferInv, ElectionInv, Calls, VoteCalls, AppendCalls
  <1>5. ServerOK(s) /\ Ballot(s, i)
    BY <1>3, <1>4 DEF TransferInv, ElectionInv
  <1>6. \E t, resp : /\ BallotStep(s, i, t) /\ (t.role = "leader" => s.role = "leader")
                     /\ resp \in (IF d.kind = "vote" THEN VoteResps ELSE AppendResps)
                     /\ d.kind = "vote" => d.req.term = 1 /\ (resp.granted => Backs(t, d.from))
                     /\ Done(i, Just(t), {d}, Answer(d, resp))
    <2>1. CASE d.kind = "vote" /\ Done(i, Just(Vote(s, i, d)), {d}, Answer(d, VoteResponse(s, d.req)))
      <3>1. d \in VoteCalls /\ d.req.term = 1
        BY <1>4, <2>1 DEF AppendCalls, Backed
      <3>2. VoteResponse(s, d.req) \in VoteResps
        BY <1>5, <3>1, VoteOK
      <3>3. /\ BallotStep(s, i, Vote(s, i, d))
            /\ Vote(s, i, d).role = "leader" => s.role = "leader"
            /\ VoteResponse(s, d.req).granted => Backs(Vote(s, i, d), d.from)
        BY <1>4, <1>5, <3>1, BallotOfVote
      <3> QED BY <2>1, <3>1, <3>2, <3>3
    <2>2. CASE d.kind = "append" /\ Done(i, Just(Append_(s, i, d)), {d}, Answer(d, AppendResponse(s, i, d)))
      <3>1. d \in AppendCalls
        BY <1>4, <2>2 DEF VoteCalls
      <3>2. AppendResponse(s, i, d) \in AppendResps
        BY <1>5, <3>1, AppendOK
      <3>3. /\ BallotStep(s, i, Append_(s, i, d))
            /\ Append_(s, i, d).role = "leader" => s.role = "leader"
        BY <1>4, <1>5, <3>1, BallotOfAppend
      <3> QED BY <2>2, <3>2, <3>3
    <2> QED BY <1>1, <1>2, <1>3, <2>1, <2>2 DEF Execute
  <1>7. PICK t, resp : /\ BallotStep(s, i, t) /\ (t.role = "leader" => s.role = "leader")
                       /\ resp \in (IF d.kind = "vote" THEN VoteResps ELSE AppendResps)
                       /\ d.kind = "vote" => d.req.term = 1 /\ (resp.granted => Backs(t, d.from))
                       /\ Done(i, Just(t), {d}, Answer(d, resp))
    BY <1>6
  <1>8. PICK r : r = Just(t)
    OBVIOUS
  <1>9. r.s = t /\ r.sent = {}
    BY <1>8 DEF Just
  <1>10. Elects(i, s, r)
    BY <1>3, <1>7, <1>9 DEF Elects
  <1>11. PICK new : new = Answer(d, resp)
    OBVIOUS
  <1> DEFINE a == [d EXCEPT !.resp = resp]
  <1>12. /\ a \in Calls /\ a.kind = d.kind /\ a.from = d.from /\ a.to = d.to /\ a.req = d.req
         /\ a.resp = resp
    BY <1>4, <1>7 DEF Calls, VoteCalls, AppendCalls
  <1>13. new \subseteq {a}
    BY <1>11 DEF Answer
  <1> HIDE DEF a
  <1>14. new \in SUBSET Calls
    BY <1>12, <1>13
  <1>15. srv'[i] = t
    BY <1>4, <1>7, <1>9, <1>8 DEF Done, TransferInv
  <1>16. Backed(a, srv')
    <2>1. a.kind = "vote" => a.req.term = 1 /\ (a.resp.granted => Backs(srv'[a.to], a.from))
      BY <1>2, <1>7, <1>12, <1>15
    <2> QED BY <2>1 DEF Backed
  <1>17. \A x \in new : Backed(x, srv')
    BY <1>13, <1>16
  <1>18. Done(i, r, {d}, new)
    BY <1>7, <1>8, <1>11
  <1> QED BY <1>4, <1>10, <1>14, <1>17, <1>18, DoneElects

(* The end of an RPC at its caller: a candidate that is elected has the    *)
(* vote of the server that answered.                                       *)
LEMMA EndElects ==
    ASSUME TransferInv, ElectionInv, NEW c \in calls, NEW failed \in BOOLEAN,
           failed \/ c.resp.answered, NEW N \in SUBSET Calls,
           \A d \in N : c.kind = d.kind /\ d.req = c.req /\ ~d.resp.answered,
           Done(c.from, Process(c, failed), {c}, N), MaxTerm = 1
    PROVE  ElectionInv' /\ BackersStay
  <1>1. PICK d : d = c
    OBVIOUS
  <1>2. PICK i : i = d.from
    OBVIOUS
  <1>3. PICK s : s = srv[i]
    OBVIOUS
  <1>4. PICK r : r = Process(c, failed)
    OBVIOUS
  <1>5. /\ i \in Servers /\ d.to \in Servers /\ i # d.to /\ d \in VoteCalls \cup AppendCalls
        /\ Backed(d, srv)
    BY <1>1, <1>2 DEF TransferInv, ElectionInv, Calls, VoteCalls, AppendCalls
  <1>6. ServerOK(s) /\ Ballot(s, i)
    BY <1>3, <1>5 DEF TransferInv, ElectionInv
  <1>7. CASE d.kind = "vote"
    <2>1. r = ProcessVoteResponse(s, i, d, failed)
      BY <1>1, <1>2, <1>3, <1>4, <1>7 DEF Process
    <2>2. SendsOK(s, i, r)
      BY <1>5, <1>6, <2>1, ProcessVoteResponseOK, RaftAssumption
    <2>3. /\ BallotStep(s, i, r.s)
          /\ \A e \in r.sent : e.kind = "append"
          /\ r.s.role = "leader" =>
               s.role = "leader" \/ (s.role = "candidate" /\ ~failed /\ d.resp.granted)
      BY <1>5, <1>6, <2>1, BallotOfVotes, RaftAssumption
    <2>4. ~failed /\ d.resp.granted => Backs(srv[d.to], i) /\ d.to \in Servers \ {i}
      BY <1>1, <1>2, <1>5, <1>7 DEF Backed
    <2> QED BY <1>3, <2>2, <2>3, <2>4, <1>1, <1>2, <1>4, <1>5, <1>7, DoneElects
            DEF Elects, SendsOK, Backed
  <1>8. CASE d.kind = "append"
    <2>1. r = ProcessAppendResponse(s, i, d, failed)
      BY <1>1, <1>2, <1>3, <1>4, <1>8 DEF Process
    <2>2. d \in AppendCalls /\ (failed \/ d.resp \in AppendResps)
      BY <1>1, <1>5, <1>8 DEF VoteCalls, AppendCalls, NoResp
    <2>3. AnsweredOK(s, i, d.to, r)
      BY <1>5, <1>6, <2>1, <2>2, ProcessAppendResponseOK, RaftAssumption
    <2>4. AppendsOnly(s, r)
      BY <1>5, <1>6, <2>1, <2>2, BallotOfAppends, RaftAssumption
    <2>5. Elects(i, s, r)
      BY <1>3, <1>6, <2>3, <2>4
         DEF Elects, AnsweredOK, SendsOK, AppendsOnly, BallotStep, Ballot, SameBallot
    <2>6. \A e \in N : Backed(e, srv')
      BY <1>1, <1>8 DEF Backed
    <2>7. Done(i, r, {d}, N)
      BY <1>1, <1>2, <1>4
    <2> QED BY <1>5, <2>5, <2>6, <2>7, DoneElects
  <1> QED BY <1>5, <1>7, <1>8 DEF VoteCalls, AppendCalls

LEMMA ReplyElects ==
    ASSUME TransferInv, ElectionInv, NEW c \in calls, Reply(c), MaxTerm = 1
    PROVE  ElectionInv' /\ BackersStay
  <1> DEFINE N == {}
  <1>1. N \in SUBSET Calls /\ \A d \in N : c.kind = d.kind /\ d.req = c.req /\ ~d.resp.answered
    OBVIOUS
  <1>2. c.resp.answered /\ Done(c.from, Process(c, FALSE), {c}, N)
    BY DEF Reply
  <1> HIDE DEF N
  <1> QED BY <1>1, <1>2, EndElects

LEMMA FailElects ==
    ASSUME TransferInv, ElectionInv, NEW c \in calls, Fail(c), MaxTerm = 1
    PROVE  ElectionInv' /\ BackersStay
  <1> DEFINE x == [c EXCEPT !.live = FALSE]
             N == IF c.resp.answered THEN {} ELSE {x}
  <1>1. x \in Calls /\ x.kind = c.kind /\ x.req = c.req /\ x.resp = c.resp
    BY DEF TransferInv, Calls, VoteCalls, AppendCalls
  <1>2. Done(c.from, Process(c, TRUE), {c}, N)
    BY DEF Fail
  <1> HIDE DEF x
  <1>3. N \in SUBSET Calls /\ \A d \in N : c.kind = d.kind /\ d.req = c.req /\ ~d.resp.answered
    BY <1>1
  <1> HIDE DEF N
  <1> QED BY <1>2, <1>3, EndElects

(* The end of a process: its ballot is in the state file.                  *)
LEMMA DieElects ==
    ASSUME TransferInv, ElectionInv, NEW i \in Servers, NEW s, NEW w,
           {"role", "term", "votedFor"} \subseteq DOMAIN w,
           s = srv[i], BallotStep(s, i, w), w.role = "leader" => s.role = "leader", Die(i, w)
    PROVE  ElectionInv' /\ BackersStay
  <1>1. PICK t : t = [w EXCEPT !.up = FALSE]
    OBVIOUS
  <1>2. SameBallot(w, t)
    BY <1>1 DEF SameBallot
  <1>3. PICK D : D = calls
    OBVIOUS
  <1>4. OnlyFrom(calls', D)
    BY <1>3, OrphanedFrom DEF Die, TransferInv
  <1>5. BallotStep(s, i, t) /\ (t.role = "leader" => s.role = "leader")
    BY <1>2 DEF BallotStep, Ballot, SameBallot
  <1>6. BallotsMove(i, s, t, D)
    BY <1>1, <1>3, <1>4, <1>5 DEF BallotsMove, Die
  <1> QED BY <1>6, BallotsKept

LEMMA CrashElects ==
    ASSUME TransferInv, ElectionInv, NEW i \in Servers,
           Crash(i) \/ \E v \in Values : CrashInSave(i, v)
    PROVE  ElectionInv' /\ BackersStay
  <1>1. PICK s : s = srv[i]
    OBVIOUS
  <1>2. ServerOK(s) /\ s \in ServerRecords /\ Ballot(s, i)
    BY <1>1 DEF TransferInv, ElectionInv, ServerOK
  <1>3. CASE Crash(i)
    <2>1. Die(i, s) /\ BallotStep(s, i, s)
      BY <1>1, <1>2, <1>3 DEF Crash, BallotStep, SameBallot
    <2>2. {"role", "term", "votedFor"} \subseteq DOMAIN s
      BY <1>2 DEF ServerRecords
    <2> QED BY <1>1, <2>1, <2>2, DieElects
  <1>4. CASE \E v \in Values : CrashInSave(i, v)
    <2>1. PICK v \in Values : CrashInSave(i, v)
      BY <1>4
    <2>2. PICK l : l = Append(s.log, SavedEntry(s, v))
      OBVIOUS
    <2>3. PICK w : w = [s EXCEPT !.log = l]
      OBVIOUS
    <2>4. Die(i, w)
      BY <1>1, <2>1, <2>2, <2>3 DEF CrashInSave, SavedEntry
    <2>5. l \in Seq(Entries)
      BY <1>2, <2>2, SavedLog
    <2>6. w \in ServerRecords /\ SameBallot(s, w)
      BY <1>2, <2>3, <2>5 DEF ServerRecords, SameBallot
    <2>7. BallotStep(s, i, w) /\ (w.role = "leader" => s.role = "leader")
      BY <1>2, <2>6 DEF BallotStep, Ballot, SameBallot
    <2>8. {"role", "term", "votedFor"} \subseteq DOMAIN w
      BY <2>6 DEF ServerRecords
    <2> QED BY <1>1, <2>4, <2>7, <2>8, DieElects
  <1> QED BY <1>3, <1>4

LEMMA CrashInAppendElects ==
    ASSUME TransferInv, ElectionInv, NEW c \in calls, NEW n \in 0 .. MaxLog, CrashInAppend(c, n),
           MaxTerm = 1
    PROVE  ElectionInv' /\ BackersStay
  <1>1. PICK i : i = c.to
    OBVIOUS
  <1>2. PICK s : s = srv[i]
    OBVIOUS
  <1>3. PICK req : req = c.req
    OBVIOUS
  <1>4. PICK f : f = FollowTerm(s, req)
    OBVIOUS
  <1>5. PICK t : t = Truncated(f, req.lastPos)
    OBVIOUS
  <1>6. i \in Servers /\ req \in AppendReqs
    BY <1>1, <1>3 DEF TransferInv, CrashInAppend, Calls, VoteCalls, AppendCalls
  <1>7. ServerOK(s) /\ Ballot(s, i)
    BY <1>2, <1>6 DEF TransferInv, ElectionInv
  <1>8. ServerOK(f) /\ f \in ServerRecords
    BY <1>4, <1>6, <1>7, FollowTermOK DEF ServesOK, ServerOK
  <1>9. BallotStep(s, i, f) /\ (f.role = "leader" => s.role = "leader")
    BY <1>4, <1>6, <1>7, BallotOfFollowing
  <1>10. \A l, p : /\ SameBallot(f, [t EXCEPT !.log = l])
                   /\ SameBallot(f, [t EXCEPT !.log = l, !.lastPos = p])
                   /\ DOMAIN [t EXCEPT !.log = l] = DOMAIN f
                   /\ DOMAIN [t EXCEPT !.log = l, !.lastPos = p] = DOMAIN f
    BY <1>5, <1>8 DEF Truncated, SameBallot, ServerRecords
  <1>11. \E w : Die(i, w) /\ SameBallot(f, w) /\ DOMAIN w = DOMAIN f
    <2> DEFINE l == t.log \o SubSeq(req.entries, 1, n)
               p == IF Tell(t) < Tell(f) THEN t.lastPos ELSE f.lastPos
    <2>1. \/ Die(i, [t EXCEPT !.log = l, !.lastPos = p])
          \/ Die(i, [t EXCEPT !.log = f.log])
      BY <1>1, <1>2, <1>3, <1>4, <1>5 DEF CrashInAppend
    <2> HIDE DEF l, p
    <2>2. CASE Die(i, [t EXCEPT !.log = l, !.lastPos = p])
      BY <1>10, <2>2, Zenon
    <2>3. CASE Die(i, [t EXCEPT !.log = f.log])
      BY <1>10, <2>3, Zenon
    <2> QED BY <2>1, <2>2, <2>3
  <1>12. PICK w : Die(i, w) /\ SameBallot(f, w) /\ DOMAIN w = DOMAIN f
    BY <1>11
  <1>13. BallotStep(s, i, w) /\ (w.role = "leader" => s.role = "leader")
    BY <1>9, <1>12 DEF BallotStep, Ballot, SameBallot
  <1>14. {"role", "term", "votedFor"} \subseteq DOMAIN w
    BY <1>8, <1>12 DEF ServerRecords
  <1> QED BY <1>2, <1>6, <1>12, <1>13, <1>14, DieElects

LEMMA RestartElects ==
    ASSUME TransferInv, ElectionInv, NEW i \in Servers, Restart(i)
    PROVE  ElectionInv' /\ BackersStay
  <1>1. PICK s : s = srv[i]
    OBVIOUS
  <1>2. PICK n \in UninitVotes : srv' = [srv EXCEPT ![i] = Restarted(s, n)]
    BY <1>1 DEF Restart
  <1>3. PICK t : t = Restarted(s, n)
    OBVIOUS
  <1>4. PICK D : D = calls
    OBVIOUS
  <1>5. s \in ServerRecords
    BY <1>1 DEF TransferInv
  <1>6. t.role = "follower" /\ t.term = s.term /\ t.votedFor = s.votedFor
    BY <1>3, <1>5 DEF Restarted, ServerRecords
  <1>7. OnlyFrom(calls', D)
    BY <1>4 DEF Restart, OnlyFrom
  <1>8. BallotsMove(i, s, t, D)
    BY <1>1, <1>2, <1>3, <1>4, <1>6, <1>7
       DEF BallotsMove, BallotStep, Ballot, Settled, SameBallot
  <1> QED BY <1>8, BallotsKept

LEMMA ElectionStep ==
    ASSUME TransferInv, ElectionInv, [Next]_vars, MaxTerm = 1
    PROVE  ElectionInv' /\ BackersStay
  <1>1. CASE UNCHANGED vars
    BY <1>1 DEF vars, ElectionInv, Ballot, Backed, Backs, BackersStay
  <1>2. CASE Next
    BY <1>2, HeartbeatElects, TimeoutElects, CrashElects, RestartElects, SaveElects,
       ExecuteElects, ReplyElects, FailElects, CrashInAppendElects DEF Next
  <1> QED BY <1>1, <1>2

(* Two servers that were voted for by others make four.                    *)
LEMMA NoFourServers ==
    ASSUME Cardinality(Servers) <= 3, NEW i \in Servers, NEW j \in Servers, NEW x \in Servers,
           NEW y \in Servers, i # j, x # y /\ x # i /\ x # j /\ y # i /\ y # j
    PROVE  FALSE
  <1>4. IsFiniteSet(Servers) /\ {i, j, x, y} \subseteq Servers
    BY RaftAssumption DEF RaftAssumption
  <1>5. Cardinality({i, j, x, y}) = 4
    <2>1. PICK S1 : S1 = {i}
      OBVIOUS
    <2>2. PICK S2 : S2 = S1 \cup {j}
      OBVIOUS
    <2>3. PICK S3 : S3 = S2 \cup {x}
      OBVIOUS
    <2>4. IsFiniteSet(S1) /\ Cardinality(S1) = 1 /\ j \notin S1
      BY <2>1, FS_Singleton
    <2>5. IsFiniteSet(S2) /\ Cardinality(S2) = 2 /\ x \notin S2
      <3>1. x \notin S2
        BY <2>1, <2>2
      <3> QED BY <2>2, <2>4, <3>1, FS_AddElement
    <2>6. IsFiniteSet(S3) /\ Cardinality(S3) = 3 /\ y \notin S3
      <3>1. y \notin S3
        BY <2>1, <2>2, <2>3
      <3> QED BY <2>3, <2>5, <3>1, FS_AddElement
    <2>7. Cardinality(S3 \cup {y}) = 4
      BY <2>6, FS_AddElement, SMTT(30)
    <2>8. S3 \cup {y} = {i, j, x, y}
      BY <2>1, <2>2, <2>3
    <2> QED BY <2>7, <2>8
  <1>6. Cardinality({i, j, x, y}) <= Cardinality(Servers) /\ Cardinality(Servers) \in Nat
    BY <1>4, FS_Subset, FS_CardinalityType
  <1> QED BY <1>5, <1>6

(* In the first term of a group of up to three servers there is one        *)
(* leader, whatever is lost, repeated or late and whoever crashes: the     *)
(* vote in voted_for_ is kept through crashes, and the voter of a leader   *)
(* cannot be the voter of another.                                         *)
THEOREM OneLeaderInFirstTerm ==
    ASSUME MaxTerm = 1, Cardinality(Servers) <= 3
    PROVE  Spec => []OneLeaderPerTerm
  <1>1. Init => ElectionInv
    <2> SUFFICES ASSUME Init PROVE ElectionInv
      OBVIOUS
    <2>1. calls = {} /\ \A i \in Servers : srv[i].role = "follower"
      BY DEF Init
    <2> QED BY <2>1 DEF ElectionInv, Ballot
  <1>2. TransferInv /\ ElectionInv /\ [Next]_vars => ElectionInv'
    BY ElectionStep
  <1>3. ElectionInv => OneLeaderPerTerm
    <2> SUFFICES ASSUME ElectionInv, NEW i \in Servers, NEW j \in Servers, i # j,
                        srv[i].role = "leader", srv[j].role = "leader"
                 PROVE  FALSE
      BY DEF OneLeaderPerTerm
    <2>1. PICK x \in Servers : Backs(srv[x], i)
      BY DEF ElectionInv
    <2>2. PICK y \in Servers : Backs(srv[y], j)
      BY DEF ElectionInv
    <2>3. x # y /\ x # i /\ x # j /\ y # i /\ y # j
      BY <2>1, <2>2 DEF Backs
    <2> QED BY <2>3, NoFourServers
  <1> QED BY <1>1, <1>2, <1>3, TransferIsInvariant, PTL DEF Spec

=============================================================================
