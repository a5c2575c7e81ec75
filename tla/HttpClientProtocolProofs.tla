---------------------- MODULE HttpClientProtocolProofs ----------------------
(***************************************************************************)
(* Proofs about http::ClientProtocol for any set of requests and any       *)
(* limits.                                                                 *)
(***************************************************************************)
EXTENDS HttpClientProtocol, SequenceTheorems, FiniteSetTheorems, TLAPS

Errors == {"INCOMPLETE", "OK", "CLOSED", "TIMEOUT", "DEPENDENCY", "PARSING", "TOO_MANY"}
Pieces == [of : Requests, part : {"head", "body"}]

HttpTypeOK ==
    /\ conn \in {"disconnected", "connecting", "connected", "gone"}
    /\ waiting_requests_ \in Seq(Requests)
    /\ active_requests_ \subseteq Requests
    /\ callback_map_ \subseteq Requests
    /\ reading_request_ \in Requests \cup {Nobody, Orphan}
    /\ error \in [Requests -> Errors] /\ conn_error_ \in Errors
    /\ got \in [Requests -> SUBSET Pieces]
    /\ calls \in [Requests -> Nat]
    /\ scheduled \subseteq Requests
    /\ inbuf \in Seq(Pieces)

(* A request is in one place at a time: it waits once, or is active, or is *)
(* scheduled, and there are no more active ones than the server takes.     *)
PlacesOK ==
    /\ IsInjective(waiting_requests_)
    /\ active_requests_ \cap Range(waiting_requests_) = {}
    /\ scheduled \cap callback_map_ = {}
    /\ IsFiniteSet(active_requests_) /\ Cardinality(active_requests_) <= MaxConcurrent

(* A request that is not sent has left no trace; one that is being read    *)
(* was sent, and does not wait.                                            *)
SentOK ==
    /\ \A q \in Requests \ Sent : calls[q] = 0 /\ q \notin scheduled
    /\ reading_request_ \in Requests =>
          reading_request_ \in Sent /\ reading_request_ \notin Range(waiting_requests_)

Inv == HttpTypeOK /\ PlacesOK /\ SentOK /\ CalledBackOnce

(* The pieces in the buffer of an open connection are responses one after  *)
(* the other; the first piece is a head, or the body that belongs to the   *)
(* head read last.                                                         *)
InbufOK ==
    conn # "gone" =>
      /\ \A i \in 1 .. Len(inbuf) :
            /\ inbuf[i].part = "head" => i < Len(inbuf) /\ inbuf[i + 1] = Piece(inbuf[i].of, "body")
            /\ inbuf[i].part = "body" /\ i < Len(inbuf) => inbuf[i + 1].part = "head"
      /\ inbuf # <<>> => (inbuf[1].part = "head" <=> reading_request_ = Nobody)
      /\ reading_request_ # Nobody => inbuf # <<>>
      /\ reading_request_ \in Requests => inbuf[1].of = reading_request_

-----------------------------------------------------------------------------
(* A queue that is split in two holds the same requests, each on one side. *)
LEMMA SplitSeq ==
    ASSUME NEW S, NEW w \in Seq(S), IsInjective(w), NEW n \in 0 .. Len(w)
    PROVE  LET a == SubSeq(w, 1, n)
               b == SubSeq(w, n + 1, Len(w))
           IN  /\ a \in Seq(S) /\ b \in Seq(S) /\ IsInjective(b)
               /\ Range(a) \cup Range(b) = Range(w) /\ Range(a) \cap Range(b) = {}
               /\ IsFiniteSet(Range(a)) /\ Cardinality(Range(a)) <= n
<1> DEFINE a == SubSeq(w, 1, n)
           b == SubSeq(w, n + 1, Len(w))
<1>0. /\ Len(w) \in Nat /\ DOMAIN w = 1 .. Len(w)
      /\ \A i \in 1 .. Len(w) : w[i] \in S
      /\ \A i, j \in 1 .. Len(w) : w[i] = w[j] => i = j
  BY LenProperties DEF IsInjective
<1>1. a \in Seq(S) /\ Len(a) = n /\ \A i \in 1 .. n : a[i] = w[i]
  <2>1. \A i \in 1 .. n : w[i] \in S
    BY <1>0
  <2> QED BY <2>1, <1>0, SubSeqProperties
<1>2. b \in Seq(S) /\ Len(b) = Len(w) - n /\ \A i \in 1 .. Len(w) - n : b[i] = w[n + i]
  <2>1. \A i \in n + 1 .. Len(w) : w[i] \in S
    BY <1>0
  <2>2. /\ b \in Seq(S)
        /\ Len(b) = IF n + 1 <= Len(w) THEN Len(w) - (n + 1) + 1 ELSE 0
        /\ \A i \in 1 .. Len(w) - (n + 1) + 1 : b[i] = w[(n + 1) + i - 1]
    BY <2>1, <1>0, SubSeqProperties
  <2>3. Len(w) - (n + 1) + 1 = Len(w) - n /\ \A i \in Nat : (n + 1) + i - 1 = n + i
    BY <1>0
  <2> HIDE DEF b
  <2>4. Len(b) = Len(w) - n
    BY <2>2, <2>3, <1>0
  <2>5. ASSUME NEW i \in 1 .. Len(w) - n PROVE b[i] = w[n + i]
    <3>1. i \in Nat /\ i \in 1 .. Len(w) - (n + 1) + 1
      BY <1>0
    <3>2. b[i] = w[(n + 1) + i - 1]
      BY <2>2, <3>1
    <3> QED BY <3>1, <3>2, <2>3
  <2> QED BY <2>2, <2>4, <2>5
<1>3. /\ Range(a) = {a[i] : i \in 1 .. Len(a)} /\ Range(b) = {b[i] : i \in 1 .. Len(b)}
      /\ Range(w) = {w[i] : i \in 1 .. Len(w)}
  BY <1>1, <1>2, RangeEquality
<1> HIDE DEF a, b
<1>4. IsInjective(b)
  <2>1. DOMAIN b = 1 .. Len(b)
    BY <1>2, LenProperties
  <2> QED BY <2>1, <1>0, <1>2 DEF IsInjective
<1>5. Range(a) \cup Range(b) = Range(w)
  <2>1. \A x \in Range(w) : x \in Range(a) \/ x \in Range(b)
    <3> SUFFICES ASSUME NEW i \in 1 .. Len(w) PROVE w[i] \in Range(a) \/ w[i] \in Range(b)
      BY <1>3
    <3>1. CASE i <= n
      BY <3>1, <1>0, <1>1, <1>3
    <3>2. CASE i > n
      <4>1. i - n \in 1 .. Len(b) /\ b[i - n] = w[i]
        BY <3>2, <1>0, <1>2
      <4> QED BY <4>1, <1>3
    <3> QED BY <3>1, <3>2, <1>0
  <2>2. Range(a) \subseteq Range(w)
    BY <1>0, <1>1, <1>3
  <2>3. Range(b) \subseteq Range(w)
    BY <1>0, <1>2, <1>3
  <2> QED BY <2>1, <2>2, <2>3
<1>6. Range(a) \cap Range(b) = {}
  BY <1>0, <1>1, <1>2, <1>3
<1>7. IsFiniteSet(Range(a)) /\ Cardinality(Range(a)) <= n
  <2>1. IsFiniteSet(1 .. n) /\ Cardinality(1 .. n) = n
    BY <1>0, FS_Interval
  <2>2. a \in Surjection(1 .. n, Range(a))
    <3>1. a \in [1 .. n -> Range(a)]
      BY <1>1, <1>3, LenProperties
    <3> QED BY <3>1, <1>1, <1>3 DEF Surjection
  <2> QED BY <2>1, <2>2, FS_Surjection
<1> QED BY <1>1, <1>2, <1>4, <1>5, <1>6, <1>7 DEF a, b

(* WriteRequestsToServer moves requests from the queue to the server: none *)
(* is lost or doubled, and the limit of the server holds.                  *)
LEMMA WriteMoves ==
    ASSUME HttpParameters,
           NEW w \in Seq(Requests), IsInjective(w),
           NEW active \in SUBSET Requests, active \cap Range(w) = {},
           IsFiniteSet(active), Cardinality(active) <= MaxConcurrent,
           WriteRequestsToServer(w, active)
    PROVE  /\ waiting_requests_' \in Seq(Requests) /\ IsInjective(waiting_requests_')
           /\ active_requests_' \subseteq Requests
           /\ active_requests_' \cap Range(waiting_requests_') = {}
           /\ active_requests_' \cup Range(waiting_requests_') = active \cup Range(w)
           /\ Range(waiting_requests_') \subseteq Range(w)
           /\ IsFiniteSet(active_requests_') /\ Cardinality(active_requests_') <= MaxConcurrent
<1> DEFINE room == MaxConcurrent - Cardinality(active)
           n == Min({Len(w), room})
<1>1. Cardinality(active) \in Nat /\ room \in Nat /\ Len(w) \in Nat
  BY FS_CardinalityType DEF HttpParameters
<1>2. n \in Nat /\ n <= Len(w) /\ n <= room
  <2>1. \E x \in {Len(w), room} : \A y \in {Len(w), room} : x <= y
    BY <1>1
  <2>2. n \in {Len(w), room} /\ \A y \in {Len(w), room} : n <= y
    BY <2>1 DEF Min
  <2> QED BY <2>2, <1>1
<1> DEFINE a == SubSeq(w, 1, n)
           b == SubSeq(w, n + 1, Len(w))
<1>3. /\ a \in Seq(Requests) /\ b \in Seq(Requests) /\ IsInjective(b)
      /\ Range(a) \cup Range(b) = Range(w) /\ Range(a) \cap Range(b) = {}
      /\ IsFiniteSet(Range(a)) /\ Cardinality(Range(a)) <= n
  <2>1. n \in 0 .. Len(w)
    BY <1>1, <1>2
  <2> HIDE DEF n
  <2> QED BY <2>1, SplitSeq
<1>4. waiting_requests_' = b /\ active_requests_' = active \cup Range(a)
  BY DEF WriteRequestsToServer
<1>5. Range(a) \subseteq Requests
  BY <1>3, RangeOfSeq
<1>6. active \cap Range(a) = {}
  BY <1>3
<1>7. IsFiniteSet(active \cup Range(a)) /\ Cardinality(active \cup Range(a)) <= MaxConcurrent
  <2>1. /\ IsFiniteSet(active \cup Range(a))
        /\ Cardinality(active \cup Range(a))
             = Cardinality(active) + Cardinality(Range(a)) - Cardinality(active \cap Range(a))
    BY <1>3, FS_Union
  <2>2. Cardinality(active \cap Range(a)) = 0 /\ Cardinality(Range(a)) \in Nat
    BY <1>3, <1>6, FS_EmptySet, FS_CardinalityType
  <2> HIDE DEF n, a
  <2> QED BY <2>1, <2>2, <1>1, <1>2, <1>3 DEF HttpParameters
<1> HIDE DEF a, b
<1> QED BY <1>3, <1>4, <1>5, <1>6, <1>7

(* A request that waits nowhere joins the queue.                           *)
LEMMA AppendNew ==
    ASSUME NEW S, NEW w \in Seq(S), IsInjective(w), NEW q \in S, q \notin Range(w)
    PROVE  /\ Append(w, q) \in Seq(S) /\ IsInjective(Append(w, q))
           /\ Range(Append(w, q)) = Range(w) \cup {q}
<1> DEFINE t == Append(w, q)
<1>1. /\ t \in Seq(S) /\ Len(t) = Len(w) + 1 /\ Len(w) \in Nat
      /\ \A i \in 1 .. Len(w) : t[i] = w[i]
      /\ t[Len(w) + 1] = q
  BY AppendProperties, LenProperties
<1>2. /\ Range(t) = {t[i] : i \in 1 .. Len(t)} /\ DOMAIN t = 1 .. Len(t)
      /\ Range(w) = {w[i] : i \in 1 .. Len(w)} /\ DOMAIN w = 1 .. Len(w)
  BY <1>1, RangeEquality, LenProperties
<1>3. 1 .. Len(w) + 1 = (1 .. Len(w)) \cup {Len(w) + 1}
  BY <1>1
<1> HIDE DEF t
<1>4. Range(t) = Range(w) \cup {q}
  BY <1>1, <1>2, <1>3
<1>5. \A i \in 1 .. Len(w) : t[i] # q
  BY <1>1, <1>2
<1>6. IsInjective(t)
  BY <1>1, <1>2, <1>3, <1>5 DEF IsInjective
<1> QED BY <1>1, <1>4, <1>6 DEF t

(* The done_callbacks that run are counted.                                *)
LEMMA RunCallbacksCounts ==
    ASSUME HttpTypeOK, NEW qs \in SUBSET Requests, RunCallbacks(qs)
    PROVE  /\ calls' \in [Requests -> Nat]
           /\ \A q \in Requests : calls'[q] = IF q \in qs THEN calls[q] + 1 ELSE calls[q]
  BY DEF RunCallbacks, HttpTypeOK

(* ResolveAll leaves nothing behind, and runs the done_callbacks of the    *)
(* requests it resolves.                                                   *)
LEMMA ResolveAllResolves ==
    ASSUME HttpTypeOK, NEW e \in Errors, NEW w \in Seq(Requests), NEW active \in SUBSET Requests,
           callback_map_ \subseteq active \cup Range(w), ResolveAll(e, w, active)
    PROVE  /\ conn' = "gone" /\ conn_error_' \in Errors
           /\ waiting_requests_' = <<>> /\ active_requests_' = {} /\ callback_map_' = {}
           /\ error' \in [Requests -> Errors] /\ calls' \in [Requests -> Nat]
           /\ Sent' = Sent \cup active \cup Range(w)
           /\ \A q \in Requests :
                 calls'[q] = IF q \in active \cup Range(w) THEN calls[q] + 1 ELSE calls[q]
<1> DEFINE final == IF e = "INCOMPLETE" THEN "CLOSED" ELSE e
<1>1. final \in Errors /\ final # "INCOMPLETE"
  BY DEF Errors
<1>2. /\ conn' = "gone" /\ conn_error_' = final
      /\ waiting_requests_' = <<>> /\ active_requests_' = {} /\ callback_map_' = {}
      /\ error' = [q \in Requests |-> IF q \in active THEN final
                                      ELSE IF q \in Range(w) THEN "DEPENDENCY" ELSE error[q]]
      /\ RunCallbacks(active \cup Range(w))
  BY DEF ResolveAll
<1>3. Range(w) \in SUBSET Requests
  BY RangeOfSeq
<1>4. error' \in [Requests -> Errors]
  BY <1>1, <1>2 DEF HttpTypeOK, Errors
<1> HIDE DEF final
<1>5. Sent' = Sent \cup active \cup Range(w)
  BY <1>1, <1>2, <1>3 DEF HttpTypeOK, Sent
<1> QED BY <1>1, <1>2, <1>3, <1>4, <1>5, RunCallbacksCounts

(* The protocol starts with no connection and no request.                  *)
LEMMA InitInv == HttpParameters /\ HttpInit => Inv
<1> SUFFICES ASSUME HttpParameters, HttpInit PROVE Inv
  OBVIOUS
<1>0. Range(<<>>) = {} /\ IsInjective(<<>>)
  BY DEF Range, IsInjective
<1>1. HttpTypeOK
  BY DEF HttpInit, HttpTypeOK, Errors
<1>2. PlacesOK
  BY <1>0, FS_EmptySet DEF HttpInit, PlacesOK, HttpParameters
<1>3. SentOK
  BY <1>0 DEF HttpInit, SentOK, Sent, HttpParameters
<1>4. CalledBackOnce
  BY <1>0 DEF HttpInit, CalledBackOnce, Sent
<1> QED BY <1>1, <1>2, <1>3, <1>4 DEF Inv

(* The connection goes, by ResolveAll: every request that waited or was    *)
(* active is called back, as is the one whose Connect failed.              *)
LEMMA CloseInv ==
    ASSUME HttpParameters, Inv,
           NEW e \in Errors, NEW w \in Seq(Requests), ResolveAll(e, w, active_requests_),
           NEW new \in SUBSET Requests, new \cap Sent = {},
           Range(w) = Range(waiting_requests_) \cup new,
           UNCHANGED <<scheduled, reading_request_, got>>, inbuf' \in Seq(Pieces)
    PROVE  Inv'
<1> USE DEF Inv
<1>0. Range(<<>>) = {} /\ IsInjective(<<>>)
  BY DEF Range, IsInjective
<1>1. /\ conn' = "gone" /\ conn_error_' \in Errors
      /\ waiting_requests_' = <<>> /\ active_requests_' = {} /\ callback_map_' = {}
      /\ error' \in [Requests -> Errors] /\ calls' \in [Requests -> Nat]
      /\ Sent' = Sent \cup active_requests_ \cup Range(w)
      /\ \A q \in Requests : calls'[q] = IF q \in active_requests_ \cup Range(w)
                                         THEN calls[q] + 1 ELSE calls[q]
  <2>1. active_requests_ \in SUBSET Requests /\ callback_map_ \subseteq active_requests_ \cup Range(w)
    BY DEF CalledBackOnce, HttpTypeOK
  <2> QED BY <2>1, ResolveAllResolves
<1>2. active_requests_ \cup Range(w) = callback_map_ \cup new /\ Sent' = Sent \cup new
  BY <1>1 DEF CalledBackOnce, Sent
<1>3. HttpTypeOK'
  BY <1>1 DEF HttpTypeOK
<1>4. PlacesOK'
  BY <1>0, <1>1, FS_EmptySet DEF PlacesOK, HttpTypeOK, HttpParameters
<1>5. SentOK'
  BY <1>0, <1>1, <1>2 DEF SentOK
<1>6. CalledBackOnce'
  <2>1. ASSUME NEW q \in Sent'
        PROVE  calls'[q] = IF q \in scheduled' THEN 0 ELSE 1
    <3>1. CASE q \in new
      BY <3>1, <1>1, <1>2, <2>1 DEF SentOK
    <3>2. CASE q \in callback_map_
      BY <3>2, <1>1, <1>2 DEF CalledBackOnce, PlacesOK, Sent, HttpTypeOK
    <3>3. CASE q \notin new \cup callback_map_
      BY <3>3, <2>1, <1>1, <1>2 DEF CalledBackOnce, Sent, HttpTypeOK
    <3> QED BY <3>1, <3>2, <3>3
  <2> QED BY <2>1, <1>0, <1>1 DEF CalledBackOnce
<1> QED BY <1>3, <1>4, <1>5, <1>6

(* SendRequest: a request that was never sent gets one place, or is called *)
(* back at once.                                                           *)
LEMMA SendRequestInv ==
    ASSUME HttpParameters, Inv, NEW q \in Requests, SendRequest(q)
    PROVE  Inv'
<1> USE DEF Inv
<1>0. /\ q \notin Sent /\ q \notin callback_map_ /\ q \notin scheduled /\ calls[q] = 0
      /\ q \notin active_requests_ /\ q \notin Range(waiting_requests_) /\ q # reading_request_
      /\ UNCHANGED <<reading_request_, got, inbuf>>
  BY DEF SendRequest, SentOK, CalledBackOnce, Sent
<1>1. CASE SendRefused(q) /\ UNCHANGED <<conn, conn_error_, waiting_requests_, active_requests_, callback_map_>>
  <2>1. /\ error' \in [Requests -> Errors] /\ Sent' = Sent \cup {q}
    BY <1>1 DEF SendRefused, HttpTypeOK, Errors, Sent
  <2>2. \/ /\ conn = "gone" /\ scheduled' = scheduled
           /\ calls' = [p \in Requests |-> calls[p] + (IF p \in {q} THEN 1 ELSE 0)]
        \/ scheduled' = scheduled \cup {q} /\ calls' = calls
    BY <1>1 DEF SendRefused, RunCallbacks
  <2>3. HttpTypeOK'
    <3>1. scheduled' \subseteq Requests
      BY <2>2 DEF HttpTypeOK
    <3>2. calls' \in [Requests -> Nat]
      <4>1. \A p \in Requests : calls[p] + (IF p \in {q} THEN 1 ELSE 0) \in Nat
        BY DEF HttpTypeOK
      <4> QED BY <2>2, <4>1 DEF HttpTypeOK
    <3> QED BY <1>0, <1>1, <2>1, <3>1, <3>2 DEF HttpTypeOK
  <2>4. PlacesOK'
    BY <1>0, <1>1, <2>2 DEF PlacesOK
  <2>5. SentOK'
    BY <1>0, <1>1, <2>1, <2>2 DEF SentOK, HttpTypeOK
  <2>6. CalledBackOnce'
    <3>1. ASSUME NEW p \in Sent \cup {q}
          PROVE  calls'[p] = IF p \in callback_map_ \cup scheduled' THEN 0 ELSE 1
      BY <3>1, <1>0, <2>2 DEF CalledBackOnce, HttpTypeOK, Sent
    <3> QED BY <3>1, <2>1, <1>1 DEF CalledBackOnce
  <2> QED BY <2>3, <2>4, <2>5, <2>6
<1> DEFINE w == Append(waiting_requests_, q)
<1>2. w \in Seq(Requests) /\ IsInjective(w) /\ Range(w) = Range(waiting_requests_) \cup {q}
  BY <1>0, AppendNew DEF HttpTypeOK, PlacesOK
<1> HIDE DEF w
\* The request has a place and its done_callback is kept.
<1>3. ASSUME conn' \in {"connecting", "connected"} \/ conn' = conn, conn # "gone", conn' # "gone",
             waiting_requests_' \in Seq(Requests), IsInjective(waiting_requests_'),
             active_requests_' \subseteq Requests,
             active_requests_' \cap Range(waiting_requests_') = {},
             active_requests_' \cup Range(waiting_requests_') = active_requests_ \cup Range(w),
             IsFiniteSet(active_requests_'), Cardinality(active_requests_') <= MaxConcurrent,
             callback_map_' = callback_map_ \cup {q},
             reading_request_ \in Requests => reading_request_ \notin Range(waiting_requests_'),
             UNCHANGED <<conn_error_, error, calls, scheduled>>
      PROVE  Inv'
  <2>1. Sent' = Sent \cup {q}
    BY <1>3 DEF Sent
  <2>2. HttpTypeOK'
    BY <1>0, <1>3 DEF HttpTypeOK
  <2>3. PlacesOK'
    BY <1>0, <1>3 DEF PlacesOK
  <2>4. SentOK'
    BY <1>0, <1>3, <2>1 DEF SentOK
  <2>5. CalledBackOnce'
    BY <1>0, <1>2, <1>3, <2>1 DEF CalledBackOnce
  <2> QED BY <2>2, <2>3, <2>4, <2>5
<1>4. CASE SendAccepted(q) /\ UNCHANGED scheduled
  <2>1. CASE /\ conn = "disconnected"
             /\ conn' = "connecting" /\ waiting_requests_' = w
             /\ callback_map_' = callback_map_ \cup {q}
             /\ UNCHANGED <<conn_error_, active_requests_, error, calls>>
    <3>1. active_requests_ \subseteq Requests
      BY DEF HttpTypeOK
    <3>2. IsFiniteSet(active_requests_') /\ Cardinality(active_requests_') <= MaxConcurrent
      BY <2>1 DEF PlacesOK
    <3>3. active_requests_' \cap Range(waiting_requests_') = {}
      BY <2>1, <1>0, <1>2 DEF PlacesOK
    <3>4. reading_request_ \in Requests => reading_request_ \notin Range(waiting_requests_')
      BY <2>1, <1>0, <1>2 DEF SentOK
    <3> QED BY <1>2, <1>3, <1>4, <2>1, <3>1, <3>2, <3>3, <3>4
  <2>2. CASE ResolveAll(conn_error_, w, active_requests_)
    <3>1. conn_error_ \in Errors /\ inbuf' \in Seq(Pieces)
      BY <1>0 DEF HttpTypeOK
    <3>2. {q} \in SUBSET Requests /\ {q} \cap Sent = {}
      BY <1>0
    <3> QED BY <1>0, <1>2, <1>4, <2>2, <3>1, <3>2, CloseInv
  <2>3. CASE /\ conn # "disconnected"
             /\ callback_map_' = callback_map_ \cup {q}
             /\ WriteRequestsToServer(w, active_requests_)
             /\ UNCHANGED <<conn, conn_error_, error, calls>>
    <3>1. /\ active_requests_ \in SUBSET Requests /\ active_requests_ \cap Range(w) = {}
          /\ IsFiniteSet(active_requests_) /\ Cardinality(active_requests_) <= MaxConcurrent
      BY <1>0, <1>2 DEF HttpTypeOK, PlacesOK
    <3>2. /\ waiting_requests_' \in Seq(Requests) /\ IsInjective(waiting_requests_')
          /\ active_requests_' \subseteq Requests
          /\ active_requests_' \cap Range(waiting_requests_') = {}
          /\ active_requests_' \cup Range(waiting_requests_') = active_requests_ \cup Range(w)
          /\ IsFiniteSet(active_requests_') /\ Cardinality(active_requests_') <= MaxConcurrent
      BY <1>2, <2>3, <3>1, WriteMoves
    <3>3. Range(waiting_requests_') \subseteq Range(w)
      BY <1>2, <2>3, <3>1, WriteMoves
    <3>4. conn # "gone"
      BY <1>4 DEF SendAccepted
    <3>5. reading_request_ \in Requests => reading_request_ \notin Range(waiting_requests_')
      BY <1>0, <1>2, <3>3 DEF SentOK
    <3> QED BY <1>3, <1>4, <2>3, <3>2, <3>4, <3>5
  <2> QED BY <1>4, <2>1, <2>2, <2>3 DEF SendAccepted, w
<1> QED BY <1>1, <1>4 DEF SendRequest

(* A request that leaves the server takes its done_callback along: its     *)
(* timeout has come, or its response is complete.                          *)
LEMMA OneResolvedInv ==
    ASSUME HttpParameters, Inv, NEW q \in Sent, q \in Requests, q \notin Range(waiting_requests_),
           conn # "gone", conn' = conn, conn_error_' = conn_error_,
           NEW e \in Errors \ {"INCOMPLETE"}, error' = [error EXCEPT ![q] = e],
           waiting_requests_' \in Seq(Requests), IsInjective(waiting_requests_'),
           active_requests_' \subseteq Requests,
           active_requests_' \cap Range(waiting_requests_') = {},
           active_requests_' \cup Range(waiting_requests_')
              = (active_requests_ \ {q}) \cup Range(waiting_requests_),
           Range(waiting_requests_') \subseteq Range(waiting_requests_),
           IsFiniteSet(active_requests_'), Cardinality(active_requests_') <= MaxConcurrent,
           callback_map_' = callback_map_ \ {q}, RunCallbacks({q} \cap callback_map_),
           scheduled' = scheduled, reading_request_' \in {reading_request_, Nobody},
           got' \in [Requests -> SUBSET Pieces], inbuf' \in Seq(Pieces)
    PROVE  Inv'
<1> USE DEF Inv
<1>1. Sent' = Sent /\ error' \in [Requests -> Errors]
  BY DEF Sent, HttpTypeOK
<1>2. /\ calls' \in [Requests -> Nat]
      /\ \A p \in Requests : calls'[p] = IF p \in {q} \cap callback_map_ THEN calls[p] + 1 ELSE calls[p]
  BY RunCallbacksCounts
<1>3. HttpTypeOK'
  BY <1>1, <1>2 DEF HttpTypeOK
<1>4. PlacesOK'
  BY DEF PlacesOK
<1>5. SentOK'
  BY <1>1, <1>2 DEF SentOK, HttpParameters
<1>6. callback_map_' = active_requests_' \cup Range(waiting_requests_')
  BY DEF CalledBackOnce
<1>7. ASSUME NEW p \in Sent
      PROVE  calls'[p] = IF p \in callback_map_' \cup scheduled' THEN 0 ELSE 1
  <2>1. p \in Requests
    BY DEF Sent, HttpTypeOK
  <2> QED BY <1>2, <2>1 DEF CalledBackOnce, PlacesOK, HttpTypeOK
<1> QED BY <1>1, <1>3, <1>4, <1>5, <1>6, <1>7 DEF CalledBackOnce

(* A request less at the server leaves the limit respected.                *)
LEMMA RemoveActive ==
    ASSUME HttpParameters, PlacesOK, NEW q
    PROVE  /\ IsFiniteSet(active_requests_ \ {q})
           /\ Cardinality(active_requests_ \ {q}) <= MaxConcurrent
<1>1. IsFiniteSet(active_requests_) /\ Cardinality(active_requests_) <= MaxConcurrent
  BY DEF PlacesOK
<1>2. Cardinality(active_requests_) \in Nat
  BY <1>1, FS_CardinalityType
<1>3. /\ IsFiniteSet(active_requests_ \ {q})
      /\ Cardinality(active_requests_ \ {q})
           = IF q \in active_requests_ THEN Cardinality(active_requests_) - 1
             ELSE Cardinality(active_requests_)
  BY <1>1, FS_RemoveElement
<1> QED BY <1>1, <1>2, <1>3 DEF HttpParameters

(* The timeout of a request resolves it, and nothing is written instead.   *)
LEMMA HandleTimeoutInv ==
    ASSUME HttpParameters, Inv, NEW q \in Requests, HandleTimeout(q)
    PROVE  Inv'
<1>1. /\ q \in Sent /\ q \notin Range(waiting_requests_) /\ {q} \cap callback_map_ = {q}
  BY DEF HandleTimeout, Inv, CalledBackOnce, Sent, PlacesOK
<1>2. /\ IsFiniteSet(active_requests_ \ {q})
      /\ Cardinality(active_requests_ \ {q}) <= MaxConcurrent
  BY RemoveActive DEF Inv
<1>3. "TIMEOUT" \in Errors \ {"INCOMPLETE"}
  BY DEF Errors
<1>4. /\ waiting_requests_ \in Seq(Requests) /\ IsInjective(waiting_requests_)
      /\ active_requests_ \subseteq Requests /\ active_requests_ \cap Range(waiting_requests_) = {}
      /\ got \in [Requests -> SUBSET Pieces] /\ inbuf \in Seq(Pieces)
  BY DEF Inv, HttpTypeOK, PlacesOK
<1>5. /\ conn # "gone" /\ error' = [error EXCEPT ![q] = "TIMEOUT"]
      /\ active_requests_' = active_requests_ \ {q}
      /\ callback_map_' = callback_map_ \ {q} /\ RunCallbacks({q} \cap callback_map_)
      /\ UNCHANGED <<conn, conn_error_, waiting_requests_, scheduled, reading_request_, got, inbuf>>
  BY <1>1 DEF HandleTimeout
<1>6. /\ active_requests_' \subseteq Requests
      /\ active_requests_' \cap Range(waiting_requests_') = {}
      /\ active_requests_' \cup Range(waiting_requests_')
           = (active_requests_ \ {q}) \cup Range(waiting_requests_)
      /\ Range(waiting_requests_') \subseteq Range(waiting_requests_)
  BY <1>4, <1>5
<1> QED BY <1>1, <1>2, <1>3, <1>4, <1>5, <1>6, OneResolvedInv

(* What Parse keeps: the pieces in a request are pieces.                   *)
LEMMA ParseType ==
    ASSUME HttpTypeOK, inbuf # <<>>, NEW q, Parse(q)
    PROVE  /\ got' \in [Requests -> SUBSET Pieces]
           /\ Head(inbuf) \in Pieces /\ Tail(inbuf) \in Seq(Pieces)
<1>1. Head(inbuf) \in Pieces /\ Tail(inbuf) \in Seq(Pieces)
  BY HeadTailProperties DEF HttpTypeOK
<1> QED BY <1>1 DEF Parse, HttpTypeOK

(* A complete response resolves its request, once, and makes room for      *)
(* requests that wait.                                                     *)
LEMMA ReadBodyInv ==
    ASSUME HttpParameters, Inv, ReadBody
    PROVE  Inv'
<1> DEFINE q == reading_request_
<1>1. q \in Requests /\ q \in Sent /\ q \notin Range(waiting_requests_)
  BY DEF ReadBody, Inv, SentOK
<1>2. "OK" \in Errors \ {"INCOMPLETE"}
  BY DEF Errors
<1>3. got' \in [Requests -> SUBSET Pieces] /\ inbuf' \in Seq(Pieces)
  BY ParseType DEF ReadBody, Inv
<1>4. /\ IsFiniteSet(active_requests_ \ {q})
      /\ Cardinality(active_requests_ \ {q}) <= MaxConcurrent
  BY RemoveActive DEF Inv
<1>5. /\ waiting_requests_ \in Seq(Requests) /\ IsInjective(waiting_requests_)
      /\ active_requests_ \ {q} \in SUBSET Requests
      /\ (active_requests_ \ {q}) \cap Range(waiting_requests_) = {}
  BY DEF Inv, HttpTypeOK, PlacesOK
<1>6. /\ conn = "connected" /\ error' = [error EXCEPT ![q] = "OK"]
      /\ callback_map_' = callback_map_ \ {q} /\ RunCallbacks({q} \cap callback_map_)
      /\ WriteRequestsToServer(waiting_requests_, active_requests_ \ {q})
      /\ reading_request_' = Nobody
      /\ UNCHANGED <<conn, conn_error_, scheduled>>
  BY DEF ReadBody
<1>7. /\ waiting_requests_' \in Seq(Requests) /\ IsInjective(waiting_requests_')
      /\ active_requests_' \subseteq Requests
      /\ active_requests_' \cap Range(waiting_requests_') = {}
      /\ active_requests_' \cup Range(waiting_requests_')
           = (active_requests_ \ {q}) \cup Range(waiting_requests_)
      /\ Range(waiting_requests_') \subseteq Range(waiting_requests_)
      /\ IsFiniteSet(active_requests_') /\ Cardinality(active_requests_') <= MaxConcurrent
  BY <1>4, <1>5, <1>6, WriteMoves
<1> HIDE DEF q
<1>8. conn # "gone" /\ reading_request_' \in {reading_request_, Nobody}
  BY <1>6
<1> QED BY <1>1, <1>2, <1>3, <1>6, <1>7, <1>8, OneResolvedInv

(* The first write happens when the connection is made.                    *)
LEMMA NotifyConnectedInv ==
    ASSUME HttpParameters, Inv, NotifyConnected
    PROVE  Inv'
<1>1. /\ waiting_requests_ \in Seq(Requests) /\ IsInjective(waiting_requests_)
      /\ active_requests_ \in SUBSET Requests
      /\ active_requests_ \cap Range(waiting_requests_) = {}
      /\ IsFiniteSet(active_requests_) /\ Cardinality(active_requests_) <= MaxConcurrent
  BY DEF Inv, HttpTypeOK, PlacesOK
<1>2. /\ waiting_requests_' \in Seq(Requests) /\ IsInjective(waiting_requests_')
      /\ active_requests_' \subseteq Requests
      /\ active_requests_' \cap Range(waiting_requests_') = {}
      /\ active_requests_' \cup Range(waiting_requests_')
           = active_requests_ \cup Range(waiting_requests_)
      /\ Range(waiting_requests_') \subseteq Range(waiting_requests_)
      /\ IsFiniteSet(active_requests_') /\ Cardinality(active_requests_') <= MaxConcurrent
  BY <1>1, WriteMoves DEF NotifyConnected
<1>3. /\ conn' = "connected" /\ conn_error_' = "OK"
      /\ UNCHANGED <<callback_map_, error, calls, scheduled, reading_request_, got, inbuf>>
  BY DEF NotifyConnected
<1>4. Sent' = Sent
  BY <1>3 DEF Sent
<1>5. HttpTypeOK'
  BY <1>2, <1>3 DEF Inv, HttpTypeOK, Errors
<1>6. PlacesOK'
  BY <1>2, <1>3 DEF Inv, PlacesOK
<1>7. SentOK'
  BY <1>2, <1>3, <1>4 DEF Inv, SentOK
<1>8. CalledBackOnce'
  BY <1>2, <1>3, <1>4 DEF Inv, CalledBackOnce
<1> QED BY <1>5, <1>6, <1>7, <1>8 DEF Inv

(* The steps that close the connection: nobody is forgotten.               *)
LEMMA ClosedInv ==
    ASSUME HttpParameters, Inv, Closed \/ ReadOrphan
    PROVE  Inv'
<1>1. PICK e \in Errors : ResolveAll(e, waiting_requests_, active_requests_)
  BY DEF Closed, ReadOrphan, Errors, Inv, HttpTypeOK
<1>2. UNCHANGED <<scheduled, reading_request_, got>> /\ inbuf' \in Seq(Pieces)
  BY HeadTailProperties, SMTT(30) DEF Closed, ReadOrphan, Inv, HttpTypeOK
<1>3. /\ {} \in SUBSET Requests /\ {} \cap Sent = {}
      /\ Range(waiting_requests_) = Range(waiting_requests_) \cup {}
      /\ waiting_requests_ \in Seq(Requests)
  BY DEF Inv, HttpTypeOK
<1> QED BY <1>1, <1>2, <1>3, CloseInv

(* The done_callback of a request that was one too many runs once.         *)
LEMMA RunScheduledInv ==
    ASSUME Inv, RunScheduled
    PROVE  Inv'
<1> USE DEF Inv
<1>1. PICK q \in scheduled : RunCallbacks({q}) /\ scheduled' = scheduled \ {q}
  BY DEF RunScheduled
<1>2. UNCHANGED <<conn, conn_error_, waiting_requests_, active_requests_, callback_map_, error,
                  reading_request_, got, inbuf>>
  BY DEF RunScheduled
<1>3. q \in Requests /\ q \in Sent /\ q \notin callback_map_ /\ Sent' = Sent
  BY <1>2 DEF HttpTypeOK, SentOK, PlacesOK, Sent
<1>4. /\ calls' \in [Requests -> Nat]
      /\ \A p \in Requests : calls'[p] = IF p \in {q} THEN calls[p] + 1 ELSE calls[p]
  BY <1>1, <1>3, RunCallbacksCounts
<1>5. HttpTypeOK'
  BY <1>1, <1>2, <1>4 DEF HttpTypeOK
<1>6. PlacesOK'
  BY <1>1, <1>2 DEF PlacesOK
<1>7. SentOK'
  BY <1>1, <1>2, <1>3, <1>4 DEF SentOK
<1>8. ASSUME NEW p \in Sent
      PROVE  calls'[p] = IF p \in callback_map_' \cup scheduled' THEN 0 ELSE 1
  <2>1. p \in Requests
    BY DEF Sent, HttpTypeOK
  <2> QED BY <1>1, <1>2, <1>3, <1>4, <2>1 DEF CalledBackOnce, HttpTypeOK
<1>9. CalledBackOnce'
  BY <1>2, <1>3, <1>8 DEF CalledBackOnce
<1> QED BY <1>5, <1>6, <1>7, <1>9

(* What arrives, and the head of a response, resolve nobody.               *)
LEMMA AnswerInv ==
    ASSUME Inv, NEW q \in Requests, Answer(q)
    PROVE  Inv'
<1> USE DEF Inv
<1>1. UNCHANGED <<conn, conn_error_, clientVars, reading_request_, got>>
  BY DEF Answer
<1>2. inbuf' \in Seq(Pieces)
  <2>1. <<Piece(q, "head"), Piece(q, "body")>> \in Seq(Pieces)
    BY DEF Piece, Pieces
  <2> QED BY <2>1, ConcatProperties DEF Answer, HttpTypeOK
<1>3. HttpTypeOK' /\ Sent' = Sent
  BY <1>1, <1>2 DEF HttpTypeOK, clientVars, Sent
<1> QED BY <1>1, <1>3 DEF PlacesOK, SentOK, CalledBackOnce, clientVars

(* The request that a head is read into is at the server.                  *)
LEMMA HeadReadInto ==
    ASSUME HttpParameters, Inv, ReadHead
    PROVE  /\ reading_request_' \in active_requests_ \cup {Orphan} /\ Parse(reading_request_')
           /\ MaxConcurrent # 1 =>
                 reading_request_' \in {Head(inbuf).of, Orphan}
<1>1. PICK r \in IF ReadingRequest = Fresh THEN {IdentifyReadingRequest(Head(inbuf).of), Orphan}
               ELSE {ReadingRequest} : reading_request_' = r /\ Parse(r)
  BY DEF ReadHead
<1>2. IdentifyReadingRequest(Head(inbuf).of) \in active_requests_ \cup {Orphan}
  BY DEF IdentifyReadingRequest
<1>3. IdentifyReadingRequest(Head(inbuf).of) \in {Head(inbuf).of, Orphan}
  BY DEF IdentifyReadingRequest
<1>4. ReadingRequest # Fresh => ReadingRequest \in active_requests_
  BY DEF ReadingRequest
<1>5. MaxConcurrent # 1 => ReadingRequest = Fresh
  BY DEF ReadingRequest
<1> QED BY <1>1, <1>2, <1>3, <1>4, <1>5

(* The head of a response moves no request.                                *)
LEMMA ReadHeadInv ==
    ASSUME HttpParameters, Inv, ReadHead
    PROVE  Inv'
<1>1. /\ UNCHANGED <<conn, conn_error_, clientVars>> /\ inbuf # <<>>
      /\ inbuf' = Tail(inbuf)
  BY DEF ReadHead
<1>2. /\ reading_request_' \in active_requests_ \cup {Orphan} /\ Parse(reading_request_')
  BY HeadReadInto
<1>3. got' \in [Requests -> SUBSET Pieces] /\ inbuf' \in Seq(Pieces)
  BY <1>1, <1>2, ParseType DEF Inv
<1>4. HttpTypeOK' /\ Sent' = Sent
  BY <1>1, <1>2, <1>3 DEF Inv, HttpTypeOK, clientVars, Sent
<1>5. SentOK'
  <2>1. \A q \in active_requests_ : q \in Sent /\ q \notin Range(waiting_requests_)
    BY DEF Inv, PlacesOK, CalledBackOnce, Sent
  <2> QED BY <1>1, <1>2, <1>4, <2>1 DEF Inv, SentOK, clientVars, HttpParameters
<1> QED BY <1>1, <1>4, <1>5 DEF Inv, PlacesOK, CalledBackOnce, clientVars

(* A response that does not parse resolves its request, when that was not  *)
(* resolved already, and every other.                                      *)
LEMMA ReadBrokenInv ==
    ASSUME HttpParameters, Inv, ReadBroken
    PROVE  Inv'
<1> USE DEF Inv
<1> DEFINE q == reading_request_
           lost == (active_requests_ \ {q}) \cup Range(waiting_requests_)
<1>0. Range(<<>>) = {} /\ IsInjective(<<>>)
  BY DEF Range, IsInjective
<1>1. /\ RunCallbacks(lost \cup ({q} \cap callback_map_))
      /\ error' = [p \in Requests |-> IF p = q THEN "PARSING"
                                      ELSE IF p \in lost THEN "DEPENDENCY" ELSE error[p]]
      /\ conn' = "gone" /\ conn_error_' = "DEPENDENCY"
      /\ waiting_requests_' = <<>> /\ active_requests_' = {} /\ callback_map_' = {}
      /\ reading_request_' = Nobody
      /\ inbuf # <<>> /\ inbuf' = Tail(inbuf)
      /\ UNCHANGED <<scheduled, got>> /\ q \in Requests
  BY DEF ReadBroken
<1>2. lost \cup ({q} \cap callback_map_) = callback_map_ /\ callback_map_ \subseteq Requests
  BY DEF CalledBackOnce, HttpTypeOK
<1>3. /\ calls' \in [Requests -> Nat]
      /\ \A p \in Requests : calls'[p] = IF p \in callback_map_ THEN calls[p] + 1 ELSE calls[p]
  BY <1>1, <1>2, RunCallbacksCounts
<1>4. q \in Sent /\ lost \subseteq Sent
  BY <1>1, <1>2 DEF SentOK, Sent
<1>5. Sent' = Sent
  BY <1>1, <1>2, <1>4 DEF Sent, HttpTypeOK
<1>6. error' \in [Requests -> Errors]
  BY <1>1 DEF HttpTypeOK, Errors
<1>7. inbuf' \in Seq(Pieces)
  BY <1>1, HeadTailProperties DEF HttpTypeOK
<1> HIDE DEF q, lost
<1>8. HttpTypeOK'
  BY <1>1, <1>3, <1>6, <1>7 DEF HttpTypeOK, Errors
<1>9. PlacesOK'
  BY <1>0, <1>1, FS_EmptySet DEF PlacesOK, HttpParameters
<1>10. SentOK'
  BY <1>0, <1>1, <1>2, <1>3, <1>5 DEF SentOK, Sent, HttpParameters
<1>11. ASSUME NEW p \in Sent
       PROVE  calls'[p] = IF p \in callback_map_' \cup scheduled' THEN 0 ELSE 1
  <2>1. p \in Requests
    BY <1>2 DEF Sent
  <2>2. CASE p \in callback_map_
    <3>1. calls[p] = 0 /\ p \notin scheduled
      BY <2>2 DEF CalledBackOnce, PlacesOK
    <3> QED BY <1>1, <1>3, <2>1, <2>2, <3>1
  <2>3. CASE p \notin callback_map_
    BY <1>1, <1>3, <2>1, <2>3 DEF CalledBackOnce
  <2> QED BY <2>2, <2>3
<1>12. CalledBackOnce'
  BY <1>0, <1>1, <1>5, <1>11 DEF CalledBackOnce
<1> QED BY <1>8, <1>9, <1>10, <1>12

(* Every step keeps the places of the requests.                            *)
LEMMA InvStep ==
    ASSUME HttpParameters, Inv, [HttpNext \/ AllSent]_httpVars
    PROVE  Inv'
<1>1. CASE HttpNext
  BY <1>1, SendRequestInv, HandleTimeoutInv, AnswerInv, RunScheduledInv, NotifyConnectedInv,
     ClosedInv, ReadHeadInv, ReadBodyInv, ReadBrokenInv DEF HttpNext, Read
<1>2. CASE UNCHANGED httpVars
  BY <1>2 DEF Inv, HttpTypeOK, PlacesOK, SentOK, CalledBackOnce, Sent, httpVars, clientVars
<1> QED BY <1>1, <1>2 DEF AllSent

(* The inductive invariant holds in every reachable state.                 *)
LEMMA InvHolds == HttpParameters => (HttpSpec => []Inv)
<1> SUFFICES ASSUME HttpParameters PROVE HttpSpec => []Inv
  OBVIOUS
<1>1. Inv /\ [HttpNext \/ AllSent]_httpVars => Inv'
  BY InvStep
<1> QED BY <1>1, InitInv, PTL DEF HttpSpec

(* The done_callback of every request runs once, whoever resolves it       *)
(* (http_client_protocol.h:452, "call once the done callback").            *)
THEOREM CallbackRunsOnce == HttpParameters => (HttpSpec => []CalledBackOnce)
<1> SUFFICES ASSUME HttpParameters PROVE HttpSpec => []CalledBackOnce
  OBVIOUS
<1>1. Inv => CalledBackOnce
  BY DEF Inv
<1> QED BY <1>1, InvHolds, PTL

-----------------------------------------------------------------------------
(* A new response goes behind complete ones.                               *)
LEMMA AnswerInbuf ==
    ASSUME HttpParameters, Inv, InbufOK, NEW q \in Requests, Answer(q)
    PROVE  InbufOK'
<1> DEFINE new == <<Piece(q, "head"), Piece(q, "body")>>
           n == Len(inbuf)
<1>1. new \in Seq(Pieces) /\ Len(new) = 2 /\ new[1] = Piece(q, "head") /\ new[2] = Piece(q, "body")
  BY DEF Piece, Pieces
<1>2. inbuf \in Seq(Pieces) /\ n \in Nat /\ (inbuf = <<>> <=> n = 0)
  BY DEF Inv, HttpTypeOK
<1> HIDE DEF new
<1>3. /\ Len(inbuf \o new) = n + 2
      /\ \A i \in 1 .. n : (inbuf \o new)[i] = inbuf[i]
      /\ (inbuf \o new)[n + 1] = Piece(q, "head") /\ (inbuf \o new)[n + 2] = Piece(q, "body")
  <2>0. inbuf \in Seq(Pieces) /\ new \in Seq(Pieces)
    BY <1>1, <1>2
  <2>1. /\ Len(inbuf \o new) = Len(inbuf) + Len(new)
        /\ \A i \in 1 .. Len(inbuf) + Len(new) :
              (inbuf \o new)[i] = IF i <= Len(inbuf) THEN inbuf[i] ELSE new[i - Len(inbuf)]
    BY ONLY <2>0, ConcatProperties
  <2> QED BY <2>1, <1>1, <1>2
<1>4. /\ inbuf' = inbuf \o new /\ conn # "gone" /\ UNCHANGED <<conn, reading_request_>>
  BY DEF Answer, new
<1> DEFINE b == inbuf'
<1>5. /\ Len(b) = n + 2 /\ \A i \in 1 .. n : b[i] = inbuf[i]
      /\ b[n + 1] = Piece(q, "head") /\ b[n + 2] = Piece(q, "body")
  BY <1>3, <1>4
<1> HIDE DEF b
<1>6. /\ \A i \in 1 .. n :
            /\ inbuf[i].part = "head" => i < n /\ inbuf[i + 1] = Piece(inbuf[i].of, "body")
            /\ inbuf[i].part = "body" /\ i < n => inbuf[i + 1].part = "head"
      /\ n > 0 => (inbuf[1].part = "head" <=> reading_request_ = Nobody)
      /\ reading_request_ # Nobody => n > 0
      /\ reading_request_ \in Requests => inbuf[1].of = reading_request_
  BY <1>2, <1>4 DEF InbufOK
<1>7. ASSUME NEW i \in 1 .. n + 2
      PROVE  /\ b[i].part = "head" => i < n + 2 /\ b[i + 1] = Piece(b[i].of, "body")
             /\ b[i].part = "body" /\ i < n + 2 => b[i + 1].part = "head"
  <2>1. CASE i < n
    <3>1. i \in 1 .. n /\ i + 1 \in 1 .. n
      BY <1>2, <2>1
    <3> QED BY <3>1, <1>2, <1>5, <1>6, <2>1
  <2>2. CASE i = n
    BY <1>2, <1>5, <1>6, <2>2 DEF Piece
  <2>3. CASE i = n + 1
    BY <1>2, <1>5, <2>3 DEF Piece
  <2>4. CASE i = n + 2
    BY <1>2, <1>5, <2>4 DEF Piece
  <2> QED BY <1>2, <2>1, <2>2, <2>3, <2>4
<1>8. /\ b[1].part = "head" <=> reading_request_ = Nobody
      /\ reading_request_ # Nobody => n > 0
      /\ reading_request_ \in Requests => b[1].of = reading_request_
  <2>1. CASE n = 0
    BY <2>1, <1>5, <1>6 DEF Piece, HttpParameters
  <2>2. CASE n > 0
    BY <2>2, <1>2, <1>5, <1>6
  <2> QED BY <2>1, <2>2, <1>2
<1>9. b # <<>>
  BY <1>2, <1>5
<1> QED BY <1>4, <1>5, <1>7, <1>8, <1>9 DEF InbufOK, b

(* One piece is taken from the front: the head of a response leaves its    *)
(* body, a body leaves a head or nothing.                                  *)
LEMMA TakePiece ==
    ASSUME HttpParameters, Inv, InbufOK, conn # "gone", inbuf # <<>>, inbuf' = Tail(inbuf), conn' = conn,
           reading_request_ = Nobody <=> reading_request_' # Nobody,
           reading_request_' \in Requests => reading_request_' = Head(inbuf).of
    PROVE  InbufOK'
<1> DEFINE n == Len(inbuf)
           b == Tail(inbuf)
<1>1. /\ inbuf \in Seq(Pieces) /\ n \in Nat /\ n > 0 /\ Head(inbuf) = inbuf[1]
  BY DEF Inv, HttpTypeOK
<1>2. b \in Seq(Pieces) /\ Len(b) = n - 1 /\ \A i \in 1 .. n - 1 : b[i] = inbuf[i + 1]
  BY <1>1, HeadTailProperties
<1> HIDE DEF b
<1>3. b = <<>> <=> n = 1
  BY <1>1, <1>2, EmptySeq
<1>4. inbuf[1] \in Pieces /\ inbuf[1].part \in {"head", "body"}
  <2>1. inbuf[1] \in Pieces
    BY <1>1, HeadTailProperties
  <2> QED BY <2>1 DEF Pieces
<1>5. /\ \A i \in 1 .. n :
            /\ inbuf[i].part = "head" => i < n /\ inbuf[i + 1] = Piece(inbuf[i].of, "body")
            /\ inbuf[i].part = "body" /\ i < n => inbuf[i + 1].part = "head"
      /\ inbuf[1].part = "head" <=> reading_request_ = Nobody
  BY <1>1 DEF InbufOK
<1>6. ASSUME NEW i \in 1 .. n - 1
      PROVE  /\ b[i].part = "head" => i < n - 1 /\ b[i + 1] = Piece(b[i].of, "body")
             /\ b[i].part = "body" /\ i < n - 1 => b[i + 1].part = "head"
  <2>1. i + 1 \in 1 .. n /\ b[i] = inbuf[i + 1] /\ (i + 1 < n <=> i < n - 1)
    BY <1>1, <1>2
  <2>2. i < n - 1 => b[i + 1] = inbuf[(i + 1) + 1]
    BY <1>1, <1>2
  <2> QED BY <1>5, <2>1, <2>2
<1>7. CASE reading_request_ = Nobody
  <2>1. n > 1 /\ inbuf[2] = Piece(inbuf[1].of, "body") /\ b[1] = inbuf[2]
    BY <1>1, <1>2, <1>5, <1>7
  <2> QED BY <1>1, <1>2, <1>3, <1>6, <1>7, <2>1 DEF InbufOK, Piece, b
<1>8. CASE reading_request_ # Nobody
  <2>1. n > 1 => inbuf[2].part = "head" /\ b[1] = inbuf[2]
    BY <1>1, <1>2, <1>4, <1>5, <1>8
  <2>2. reading_request_' = Nobody
    BY <1>8
  <2>3. reading_request_' \notin Requests
    BY <2>2 DEF HttpParameters
  <2> QED BY <1>1, <1>2, <1>3, <1>6, <1>8, <2>1, <2>2, <2>3 DEF InbufOK, b
<1> QED BY <1>7, <1>8

(* What the buffer of an open connection holds, step by step.              *)
LEMMA InbufStep ==
    ASSUME HttpParameters, MaxConcurrent # 1, Inv, InbufOK, [HttpNext \/ AllSent]_httpVars
    PROVE  InbufOK'
<1>1. ASSUME NEW q \in Requests, SendRequest(q)
      PROVE  InbufOK'
  <2>1. conn' # "gone" => conn # "gone" /\ UNCHANGED <<inbuf, reading_request_>>
    BY <1>1 DEF SendRequest, SendRefused, SendAccepted, ResolveAll
  <2> QED BY <2>1 DEF InbufOK
<1>2. ASSUME NEW q \in Requests, HandleTimeout(q)
      PROVE  InbufOK'
  BY <1>2 DEF HandleTimeout, InbufOK
<1>3. CASE RunScheduled
  BY <1>3 DEF RunScheduled, InbufOK
<1>4. CASE NotifyConnected
  BY <1>4 DEF NotifyConnected, InbufOK
<1>5. CASE Closed \/ ReadOrphan \/ ReadBroken
  BY <1>5 DEF Closed, ReadOrphan, ReadBroken, ResolveAll, InbufOK
<1>6. CASE ReadHead
  <2>1. /\ conn # "gone" /\ conn' = conn /\ inbuf # <<>> /\ inbuf' = Tail(inbuf)
        /\ reading_request_ = Nobody
    BY <1>6 DEF ReadHead
  <2>2. reading_request_' \in active_requests_ \cup {Orphan}
        /\ reading_request_' \in {Head(inbuf).of, Orphan}
    BY <1>6, HeadReadInto
  <2>3. reading_request_' # Nobody
    BY <2>2 DEF Inv, HttpTypeOK, HttpParameters, Nobody, Orphan
  <2>4. reading_request_' \in Requests => reading_request_' = Head(inbuf).of
    BY <2>2 DEF HttpParameters
  <2> QED BY <2>1, <2>3, <2>4, TakePiece
<1>7. CASE ReadBody
  <2>1. /\ conn # "gone" /\ conn' = conn /\ inbuf # <<>> /\ inbuf' = Tail(inbuf)
        /\ reading_request_ # Nobody /\ reading_request_' = Nobody
        /\ reading_request_' \notin Requests
    BY <1>7 DEF ReadBody, HttpParameters
  <2> QED BY <2>1, TakePiece
<1>8. CASE UNCHANGED httpVars
  BY <1>8 DEF httpVars, InbufOK
<1> QED BY <1>1, <1>2, <1>3, <1>4, <1>5, <1>6, <1>7, <1>8, AnswerInbuf DEF HttpNext, Read, AllSent

(* A piece is parsed only into the request it answers.                     *)
LEMMA AnswerBelongsStep ==
    ASSUME HttpParameters, MaxConcurrent # 1, Inv, InbufOK, AnswerBelongs, [HttpNext \/ AllSent]_httpVars
    PROVE  AnswerBelongs'
<1>1. CASE got' = got
  BY <1>1 DEF AnswerBelongs
<1>2. ASSUME NEW r, Parse(r), r \in Requests => Head(inbuf).of = r
      PROVE  AnswerBelongs'
  BY <1>2 DEF Parse, AnswerBelongs, Inv, HttpTypeOK
<1>3. CASE ReadHead
  <2>1. /\ Parse(reading_request_') /\ reading_request_' \in {Head(inbuf).of, Orphan}
    BY <1>3, HeadReadInto
  <2>2. reading_request_' \in Requests => Head(inbuf).of = reading_request_'
    BY <2>1 DEF HttpParameters
  <2> QED BY <1>2, <2>1, <2>2
<1>4. CASE ReadBody
  <2>1. conn # "gone" /\ reading_request_ \in Requests /\ Parse(reading_request_) /\ inbuf # <<>>
    BY <1>4 DEF ReadBody
  <2>2. inbuf[1].of = reading_request_ /\ inbuf[1] = Head(inbuf)
    BY <2>1 DEF InbufOK, Inv, HttpTypeOK
  <2> QED BY <1>2, <2>1, <2>2
<1>5. CASE HttpNext /\ ~ReadHead /\ ~ReadBody
  BY <1>1, <1>5 DEF HttpNext, Read, SendRequest, HandleTimeout, Answer, RunScheduled,
     NotifyConnected, Closed, ReadOrphan, ReadBroken
<1>6. CASE UNCHANGED httpVars
  BY <1>1, <1>6 DEF httpVars
<1> QED BY <1>3, <1>4, <1>5, <1>6 DEF AllSent

(* Unless the protocol is limited to one concurrent request, when it does  *)
(* not look at the request id (http_client_protocol.cc, ProcessMoreData),  *)
(* what is parsed into a request is its own response.                      *)
THEOREM ResponseToItsRequest ==
    HttpParameters /\ MaxConcurrent # 1 => (HttpSpec => []AnswerBelongs)
<1> SUFFICES ASSUME HttpParameters, MaxConcurrent # 1 PROVE HttpSpec => []AnswerBelongs
  OBVIOUS
<1>1. HttpInit => InbufOK /\ AnswerBelongs
  <2> SUFFICES ASSUME HttpInit PROVE InbufOK /\ AnswerBelongs
    OBVIOUS
  <2>1. AnswerBelongs
    BY DEF HttpInit, AnswerBelongs
  <2>2. InbufOK
    BY DEF HttpInit, InbufOK, HttpParameters
  <2> QED BY <2>1, <2>2
<1>2. Inv /\ InbufOK /\ AnswerBelongs /\ [HttpNext \/ AllSent]_httpVars => InbufOK' /\ AnswerBelongs'
  BY InbufStep, AnswerBelongsStep
<1> QED BY <1>1, <1>2, InvHolds, PTL DEF HttpSpec
=============================================================================
