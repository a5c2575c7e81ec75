------------------------ MODULE LockFreeQueueProofs ------------------------
(***************************************************************************)
(* Proofs about LockFreeQueue, for every number of producers, consumers    *)
(* and operations and every ring size.  A position is written when its Put *)
(* is past its store into data_, and read when its Get is past its load.   *)
(* The scans are what has to be right: while one is under way, the minimum *)
(* found so far is below every position that is still to be written (or    *)
(* read) by a client the scan has already passed.                          *)
(***************************************************************************)
EXTENDS LockFreeQueue, FiniteSetTheorems, TLAPS

-----------------------------------------------------------------------------
\* A Put that has claimed its position and not yet written its slot ...
Unwritten(p) == prod[p].at \in {"store", "test", "readTail", "scan", "write"}

\* ... and a Get that has claimed its position and not yet read its slot.
Unread(c) == cons[c].at \in {"store", "test", "readHead", "scan", "read"}

Written(k) == k < head /\ \A p \in Producers : Unwritten(p) => prod[p].pos # k
Read(k) == k < tail /\ \A c \in Consumers : Unread(c) => cons[c].pos # k

Positions == 0 .. MaxOps - 1

ProdRegs == Regs({"idle", "announce", "claim", "store", "test",
                  "readTail", "scan", "write", "done"})
ConsRegs == Regs({"idle", "announce", "claim", "store", "test",
                  "readHead", "scan", "read", "done"})

Types ==
    /\ QSize \in Nat \ {0} /\ ULONG_MAX \in Nat
    /\ head \in 0 .. MaxOps /\ tail \in 0 .. MaxOps
    /\ lastHead \in 0 .. MaxOps /\ lastTail \in 0 .. MaxOps
    /\ clientHead \in [Producers -> 0 .. MaxOps \cup {ULONG_MAX}]
    /\ clientTail \in [Consumers -> 0 .. MaxOps \cup {ULONG_MAX}]
    /\ data \in [0 .. QSize - 1 -> 0 .. MaxOps \cup {Empty}]
    /\ prod \in [Producers -> ProdRegs] /\ cons \in [Consumers -> ConsRegs]
    /\ got \in [0 .. MaxOps - 1 -> 0 .. MaxOps \cup {Empty}]
    /\ \A p \in Producers : /\ prod[p].pos \in 0 .. MaxOps /\ prod[p].min \in 0 .. MaxOps
                            /\ prod[p].i \in 0 .. NumProducers + NumConsumers
    /\ \A c \in Consumers : /\ cons[c].pos \in 0 .. MaxOps /\ cons[c].min \in 0 .. MaxOps
                            /\ cons[c].i \in 0 .. NumProducers + NumConsumers

Nats ==
    /\ QSize \in Nat \ {0} /\ head \in Nat /\ tail \in Nat /\ lastHead \in Nat /\ lastTail \in Nat
    /\ \A p \in Producers : /\ p \in Nat /\ p < NumProducers /\ clientHead[p] \in Nat
                            /\ prod[p].pos \in Nat /\ prod[p].min \in Nat /\ prod[p].i \in Nat
    /\ \A c \in Consumers : /\ c \in Nat /\ c < NumConsumers /\ clientTail[c] \in Nat
                            /\ cons[c].pos \in Nat /\ cons[c].min \in Nat /\ cons[c].i \in Nat

\* The positions handed out, and those about to be, stay below MaxOps.
BoundsOK ==
    /\ head + Claiming(prod) <= MaxOps /\ tail + Claiming(cons) <= MaxOps
    /\ lastHead <= head /\ lastTail <= tail

\* An announcement is never above the position that is or will be claimed.
PutsAnnounced ==
    \A p \in Producers :
        /\ prod[p].at = "announce" => prod[p].pos <= head
        /\ prod[p].at = "claim" => clientHead[p] <= head
        /\ Unwritten(p) => prod[p].pos < head /\ clientHead[p] <= prod[p].pos

GetsAnnounced ==
    \A c \in Consumers :
        /\ cons[c].at = "announce" => cons[c].pos <= tail
        /\ cons[c].at = "claim" => clientTail[c] <= tail
        /\ Unread(c) => cons[c].pos < tail /\ clientTail[c] <= cons[c].pos

AnnouncedOK == PutsAnnounced /\ GetsAnnounced

\* What a scan has found so far, and what the last one has stored.
HeadScans ==
    \A c \in Consumers : cons[c].at = "scan" =>
        /\ cons[c].min <= head /\ cons[c].i <= NumProducers
        /\ \A p \in Producers : Unwritten(p) =>
              prod[p].pos >= cons[c].min \/ p >= cons[c].i

TailScans ==
    \A p \in Producers : prod[p].at = "scan" =>
        /\ prod[p].min <= tail /\ prod[p].i <= NumConsumers
        /\ \A c \in Consumers : Unread(c) =>
              cons[c].pos >= prod[p].min \/ c >= prod[p].i

LastScans ==
    /\ \A p \in Producers : Unwritten(p) => prod[p].pos >= lastHead
    /\ \A c \in Consumers : Unread(c) => cons[c].pos >= lastTail

ScansOK == HeadScans /\ TailScans /\ LastScans

\* What the tests let through.  lastHead and lastTail may fall back later.
PassedOK ==
    /\ \A c \in Consumers : cons[c].at = "read" => Written(cons[c].pos)
    /\ \A p \in Producers : prod[p].at = "write" =>
          \A j \in Positions : j <= prod[p].pos - QSize => Read(j)

\* What is in the ring, and what has been taken out of it.
RingOK ==
    \A k \in Positions :
        /\ Written(k) => \A j \in Positions : j <= k - QSize => Read(j)
        /\ Written(k) /\ ~Read(k) => data[Slot(k)] = k
        /\ Read(k) => Written(k) /\ got[k] # Empty

\* A step writes and reads only the position of the Put or Get that takes it.
GrowsOnly ==
    \A k \in Nat :
        /\ Written(k) => Written(k)'
        /\ Read(k) => Read(k)'
        /\ Written(k)' => Written(k) \/ \E p \in Producers : PutWrite(p) /\ prod[p].pos = k
        /\ Read(k)' => Read(k) \/ \E c \in Consumers : GetRead(c) /\ cons[c].pos = k

Inv == RingTypeOK /\ BoundsOK /\ AnnouncedOK /\ ScansOK /\ PassedOK /\ RingOK

-----------------------------------------------------------------------------
(* What the provers need of the operators of the model.                    *)

(* Two positions with the same slot are a multiple of the ring apart.      *)
LEMMA SlotApart ==
    ASSUME QSize \in Nat \ {0}, NEW a \in Nat, NEW b \in Nat,
           Slot(a) = Slot(b), a < b
    PROVE  a <= b - QSize
  <1> DEFINE Q == QSize
             x == a \div Q
             y == b \div Q
             r == Slot(a)
  <1> HIDE DEF Q
  <1>1. Q \in Nat \ {0}
    BY DEF Q
  <1>2. x \in Nat /\ y \in Nat /\ r \in Nat /\ a = Q * x + r /\ b = Q * y + r
    <2>1. /\ x \in Nat /\ (a % Q) \in Nat /\ a = Q * x + (a % Q)
      BY <1>1
    <2>2. /\ y \in Nat /\ (b % Q) \in Nat /\ b = Q * y + (b % Q)
      BY <1>1
    <2>3. r = a % Q /\ r = b % Q
      BY DEF Slot, Q
    <2> QED BY <2>1, <2>2, <2>3
  <1> HIDE DEF x, y, r
  <1>3. Q * y - Q * x = Q * (y - x)
    BY <1>1, <1>2
  <1>4. y - x >= 1
    <2>1. CASE y <= x
      <3>1. Q * (y - x) <= 0
        BY <2>1, <1>1, <1>2
      <3>2. b - a = Q * y - Q * x
        BY <1>1, <1>2
      <3> QED BY <3>1, <3>2, <1>1, <1>2, <1>3
    <2> QED BY <2>1, <1>2
  <1>5. Q * (y - x) >= Q
    BY <1>1, <1>2, <1>4
  <1>6. a <= b - Q
    BY <1>1, <1>2, <1>3, <1>5
  <1> QED BY <1>6 DEF Q

(* A slot is an index of data_.                                            *)
LEMMA SlotType ==
    ASSUME QSize \in Nat \ {0}, NEW a \in Nat
    PROVE  Slot(a) \in 0 .. QSize - 1
  <1> DEFINE Q == QSize
  <1>1. Q \in Nat \ {0}
    OBVIOUS
  <1> HIDE DEF Q
  <1>2. (a % Q) \in 0 .. Q - 1
    BY <1>1
  <1> QED BY <1>2 DEF Q, Slot

(* How Claiming counts: a client that starts claiming, one that stops.     *)
LEMMA ClaimingCounts ==
    ASSUME NEW n \in Nat, NEW f, DOMAIN f = 0 .. n - 1
    PROVE  /\ Claiming(f) \in Nat
           /\ \A g : DOMAIN g = DOMAIN f
                   /\ (\A x \in DOMAIN f : g[x].at \in {"announce", "claim"}
                                          <=> f[x].at \in {"announce", "claim"})
                 => Claiming(g) = Claiming(f)
           /\ \A g : \A y \in DOMAIN f :
                   /\ DOMAIN g = DOMAIN f
                   /\ \A x \in DOMAIN f \ {y} : g[x] = f[x]
                 => /\ g[y].at \in {"announce", "claim"} => Claiming(g) <= Claiming(f) + 1
                    /\ /\ f[y].at \in {"announce", "claim"}
                       /\ g[y].at \notin {"announce", "claim"}
                       => Claiming(g) = Claiming(f) - 1
  <1> DEFINE S(h) == {x \in DOMAIN h : h[x].at \in {"announce", "claim"}}
  <1>1. \A h : DOMAIN h = 0 .. n - 1 => IsFiniteSet(S(h))
    <2>1. IsFiniteSet(0 .. n - 1)
      BY FS_Interval
    <2> QED BY <2>1, FS_Subset
  <1>2. \A h : Claiming(h) = Cardinality(S(h))
    BY DEF Claiming
  <1>3. Claiming(f) \in Nat
    BY <1>1, <1>2, FS_CardinalityType
  <1>4. ASSUME NEW g, DOMAIN g = DOMAIN f,
               \A x \in DOMAIN f : g[x].at \in {"announce", "claim"}
                                  <=> f[x].at \in {"announce", "claim"}
        PROVE  Claiming(g) = Claiming(f)
    <2>1. S(g) = S(f)
      BY <1>4
    <2> QED BY <2>1, <1>2
  <1>5. ASSUME NEW g, NEW y \in DOMAIN f, DOMAIN g = DOMAIN f,
               \A x \in DOMAIN f \ {y} : g[x] = f[x],
               g[y].at \in {"announce", "claim"}
        PROVE  Claiming(g) <= Claiming(f) + 1
    <2>1. S(g) = S(f) \cup {y}
      BY <1>5
    <2>2. Cardinality(S(f) \cup {y}) = IF y \in S(f) THEN Cardinality(S(f))
                                       ELSE Cardinality(S(f)) + 1
      BY <1>1, FS_AddElement
    <2> QED BY <2>1, <2>2, <1>2, <1>3
  <1>6. ASSUME NEW g, NEW y \in DOMAIN f, DOMAIN g = DOMAIN f,
               \A x \in DOMAIN f \ {y} : g[x] = f[x],
               f[y].at \in {"announce", "claim"}, g[y].at \notin {"announce", "claim"}
        PROVE  Claiming(g) = Claiming(f) - 1
    <2>1. S(g) = S(f) \ {y}
      BY <1>6
    <2>2. Cardinality(S(f) \ {y}) = IF y \in S(f) THEN Cardinality(S(f)) - 1
                                    ELSE Cardinality(S(f))
      BY <1>1, FS_RemoveElement
    <2>3. y \in S(f)
      BY <1>6
    <2> QED BY <2>1, <2>2, <2>3, <1>2
  <1> HIDE DEF S
  <1> QED BY <1>3, <1>4, <1>5, <1>6

-----------------------------------------------------------------------------
(* The queue is made with the invariant: nothing has been handed out.      *)
LEMMA InitInv == LockFreeAssumption /\ RingInit => Inv
  <1> SUFFICES ASSUME LockFreeAssumption, RingInit PROVE Inv
    OBVIOUS
  <1> USE DEF LockFreeAssumption
  <1>1. QSize \in Nat \ {0} /\ ULONG_MAX \in Nat
    BY DEF ULONG_MAX
  <1>2. RingTypeOK
    BY <1>1 DEF RingInit, RingTypeOK, Idle, Regs, Empty, Producers, Consumers
  <1>3. BoundsOK
    <2>1. Claiming(prod) = 0
      <3>1. {x \in DOMAIN prod : prod[x].at \in {"announce", "claim"}} = {}
        BY DEF RingInit, Idle
      <3> QED BY <3>1, FS_EmptySet DEF Claiming
    <2>2. Claiming(cons) = 0
      <3>1. {x \in DOMAIN cons : cons[x].at \in {"announce", "claim"}} = {}
        BY DEF RingInit, Idle
      <3> QED BY <3>1, FS_EmptySet DEF Claiming
    <2> QED BY <2>1, <2>2 DEF BoundsOK, RingInit
  <1>4. AnnouncedOK /\ ScansOK /\ PassedOK
    BY DEF RingInit, Idle, AnnouncedOK, PutsAnnounced, GetsAnnounced, ScansOK, HeadScans, TailScans, LastScans,
       PassedOK, Unwritten, Unread
  <1>5. RingOK
    BY DEF RingInit, RingOK, Written, Read, Positions
  <1> QED BY <1>2, <1>3, <1>4, <1>5 DEF Inv


(* The types, in the form the steps use them.                              *)
LEMMA Typed == LockFreeAssumption /\ RingTypeOK => Types /\ Nats
  <1> SUFFICES ASSUME LockFreeAssumption, RingTypeOK PROVE Types /\ Nats
    OBVIOUS
  <1>1. QSize \in Nat \ {0} /\ ULONG_MAX \in Nat
    BY DEF LockFreeAssumption, ULONG_MAX
  <1>2. prod \in [Producers -> ProdRegs] /\ cons \in [Consumers -> ConsRegs]
    BY DEF RingTypeOK, ProdRegs, ConsRegs
  <1>3. /\ \A p \in Producers : /\ prod[p].pos \in 0 .. MaxOps /\ prod[p].min \in 0 .. MaxOps
                               /\ prod[p].i \in 0 .. NumProducers + NumConsumers
        /\ \A c \in Consumers : /\ cons[c].pos \in 0 .. MaxOps /\ cons[c].min \in 0 .. MaxOps
                               /\ cons[c].i \in 0 .. NumProducers + NumConsumers
    BY <1>2 DEF ProdRegs, ConsRegs, Regs
  <1>4. Types
    BY <1>1, <1>2, <1>3 DEF RingTypeOK, Types
  <1>5. Nats
    <2>1. 0 .. MaxOps \subseteq Nat /\ 0 .. NumProducers + NumConsumers \subseteq Nat
      BY DEF LockFreeAssumption
    <2>2. 0 .. MaxOps \cup {ULONG_MAX} \subseteq Nat
      BY <1>1, <2>1
    <2>3. /\ \A p \in Producers : p \in Nat /\ p < NumProducers /\ clientHead[p] \in Nat
          /\ \A c \in Consumers : c \in Nat /\ c < NumConsumers /\ clientTail[c] \in Nat
      BY <1>4, <2>2 DEF LockFreeAssumption, Producers, Consumers, Types
    <2> QED BY <1>4, <2>1, <2>3 DEF Types, Nats
  <1> QED BY <1>4, <1>5

(* Every step keeps the types, and so the bounds on every register.        *)
LEMMA TypeStep == LockFreeAssumption /\ Inv /\ RingNext => RingTypeOK'
  <1> SUFFICES ASSUME LockFreeAssumption, Inv, RingNext PROVE RingTypeOK'
    OBVIOUS
  <1> USE DEF LockFreeAssumption
  <1>A. Types /\ Nats
    BY Typed DEF Inv
  <1>C. 0 \in 0 .. MaxOps /\ 0 \in 0 .. NumProducers + NumConsumers
    OBVIOUS
  <1>1. ASSUME NEW p \in Producers, PutBegin(p) PROVE RingTypeOK'
    <2>1. prod'[p] \in ProdRegs
      BY <1>1, <1>A, <1>C DEF Types, PutBegin, Idle, ProdRegs, Regs
    <2>2. prod' \in [Producers -> ProdRegs]
      BY <1>1, <1>A, <2>1 DEF Types, PutBegin
    <2> QED BY <1>1, <1>A, <2>2 DEF Types, PutBegin, RingTypeOK, ProdRegs, ConsRegs
  <1>2. ASSUME NEW p \in Producers, PutAnnounce(p) PROVE RingTypeOK'
    <2>1. prod'[p] \in ProdRegs
      BY <1>2, <1>A, <1>C DEF Types, PutAnnounce, ProdRegs, Regs
    <2>2. prod' \in [Producers -> ProdRegs]
      BY <1>2, <1>A, <2>1 DEF Types, PutAnnounce
    <2> QED BY <1>2, <1>A, <2>2 DEF Types, PutAnnounce, RingTypeOK, ProdRegs, ConsRegs
  <1>3. ASSUME NEW p \in Producers, PutClaim(p) PROVE RingTypeOK'
    <2>4. head + 1 \in 0 .. MaxOps
      <3>1. /\ DOMAIN prod = 0 .. NumProducers - 1
            /\ DOMAIN prod' = DOMAIN prod
            /\ \A x \in DOMAIN prod \ {p} : prod'[x] = prod[x]
            /\ prod[p].at = "claim" /\ prod'[p].at = "store" /\ p \in DOMAIN prod
        BY <1>3, <1>A DEF Types, PutClaim, Producers, Consumers, ProdRegs, ConsRegs, Regs
      <3>2. Claiming(prod) \in Nat /\ Claiming(prod') \in Nat /\ Claiming(prod') = Claiming(prod) - 1
        BY <3>1, ClaimingCounts
      <3> QED BY <3>2, <1>A DEF Types, Inv, BoundsOK
    <2>1. prod'[p] \in ProdRegs
      BY <1>3, <1>A, <1>C, ZenonT(60) DEF Types, PutClaim, ProdRegs, Regs
    <2>2. prod' \in [Producers -> ProdRegs]
      BY <1>3, <1>A, <2>1 DEF Types, PutClaim
    <2> QED BY <1>3, <1>A, <2>2, <2>4 DEF Types, PutClaim, RingTypeOK, ProdRegs, ConsRegs
  <1>4. ASSUME NEW p \in Producers, PutStore(p) PROVE RingTypeOK'
    <2>1. prod'[p] \in ProdRegs
      BY <1>4, <1>A, <1>C DEF Types, PutStore, ProdRegs, Regs
    <2>2. prod' \in [Producers -> ProdRegs]
      BY <1>4, <1>A, <2>1 DEF Types, PutStore
    <2> QED BY <1>4, <1>A, <2>2 DEF Types, PutStore, RingTypeOK, ProdRegs, ConsRegs
  <1>5. ASSUME NEW p \in Producers, PutTest(p) PROVE RingTypeOK'
    <2>1. prod'[p] \in ProdRegs
      BY <1>5, <1>A, <1>C DEF Types, PutTest, ProdRegs, Regs
    <2>2. prod' \in [Producers -> ProdRegs]
      BY <1>5, <1>A, <2>1 DEF Types, PutTest
    <2> QED BY <1>5, <1>A, <2>2 DEF Types, PutTest, RingTypeOK, ProdRegs, ConsRegs
  <1>6. ASSUME NEW p \in Producers, PutReadTail(p) PROVE RingTypeOK'
    <2>1. prod'[p] \in ProdRegs
      BY <1>6, <1>A, <1>C, ZenonT(60) DEF Types, PutReadTail, ProdRegs, Regs
    <2>2. prod' \in [Producers -> ProdRegs]
      BY <1>6, <1>A, <2>1 DEF Types, PutReadTail
    <2> QED BY <1>6, <1>A, <2>2 DEF Types, PutReadTail, RingTypeOK, ProdRegs, ConsRegs
  <1>7. ASSUME NEW p \in Producers, PutScan(p) PROVE RingTypeOK'
    <2>4. prod[p].i \in 0 .. NumConsumers - 1 /\ prod[p].i + 1 \in 0 .. NumProducers + NumConsumers
      BY <1>7, <1>A DEF Nats, PutScan
    <2>5. Lower(prod[p].min, clientTail[prod[p].i]) \in 0 .. MaxOps
      BY <1>A, <2>4, SMTT(30) DEF Types, Lower, Producers, Consumers
    <2>1. prod'[p] \in ProdRegs
      BY <1>7, <1>A, <1>C, <2>4, <2>5, ZenonT(60) DEF Types, PutScan, ProdRegs, Regs
    <2>2. prod' \in [Producers -> ProdRegs]
      BY <1>7, <1>A, <2>1 DEF Types, PutScan
    <2> QED BY <1>7, <1>A, <2>2 DEF Types, PutScan, RingTypeOK, ProdRegs, ConsRegs
  <1>8. ASSUME NEW p \in Producers, PutScanned(p) PROVE RingTypeOK'
    <2>1. prod'[p] \in ProdRegs
      BY <1>8, <1>A, <1>C, SMTT(30) DEF Types, PutScanned, ProdRegs, Regs
    <2>2. prod' \in [Producers -> ProdRegs]
      BY <1>8, <1>A, <2>1 DEF Types, PutScanned
    <2> QED BY <1>8, <1>A, <2>2 DEF Types, PutScanned, RingTypeOK, ProdRegs, ConsRegs
  <1>9. ASSUME NEW p \in Producers, PutWrite(p) PROVE RingTypeOK'
    <2>4. Slot(prod[p].pos) \in 0 .. QSize - 1
      BY <1>A, SlotType DEF Types, Nats
    <2>1. prod'[p] \in ProdRegs
      BY <1>9, <1>A, <1>C DEF Types, PutWrite, ProdRegs, Regs
    <2>2. prod' \in [Producers -> ProdRegs]
      BY <1>9, <1>A, <2>1 DEF Types, PutWrite
    <2> QED BY <1>9, <1>A, <2>2, <2>4 DEF Types, PutWrite, RingTypeOK, ProdRegs, ConsRegs
  <1>10. ASSUME NEW p \in Producers, PutDone(p) PROVE RingTypeOK'
    <2>1. prod'[p] \in ProdRegs
      BY <1>10, <1>A, <1>C DEF Types, PutDone, Idle, ProdRegs, Regs
    <2>2. prod' \in [Producers -> ProdRegs]
      BY <1>10, <1>A, <2>1 DEF Types, PutDone
    <2> QED BY <1>10, <1>A, <2>2 DEF Types, PutDone, RingTypeOK, ProdRegs, ConsRegs
  <1>11. ASSUME NEW c \in Consumers, GetBegin(c) PROVE RingTypeOK'
    <2>1. cons'[c] \in ConsRegs
      BY <1>11, <1>A, <1>C DEF Types, GetBegin, Idle, ConsRegs, Regs
    <2>2. cons' \in [Consumers -> ConsRegs]
      BY <1>11, <1>A, <2>1 DEF Types, GetBegin
    <2> QED BY <1>11, <1>A, <2>2 DEF Types, GetBegin, RingTypeOK, ProdRegs, ConsRegs
  <1>12. ASSUME NEW c \in Consumers, GetAnnounce(c) PROVE RingTypeOK'
    <2>1. cons'[c] \in ConsRegs
      BY <1>12, <1>A, <1>C DEF Types, GetAnnounce, ConsRegs, Regs
    <2>2. cons' \in [Consumers -> ConsRegs]
      BY <1>12, <1>A, <2>1 DEF Types, GetAnnounce
    <2> QED BY <1>12, <1>A, <2>2 DEF Types, GetAnnounce, RingTypeOK, ProdRegs, ConsRegs
  <1>13. ASSUME NEW c \in Consumers, GetClaim(c) PROVE RingTypeOK'
    <2>4. tail + 1 \in 0 .. MaxOps
      <3>1. /\ DOMAIN cons = 0 .. NumConsumers - 1
            /\ DOMAIN cons' = DOMAIN cons
            /\ \A x \in DOMAIN cons \ {c} : cons'[x] = cons[x]
            /\ cons[c].at = "claim" /\ cons'[c].at = "store" /\ c \in DOMAIN cons
        BY <1>13, <1>A DEF Types, GetClaim, Producers, Consumers, ProdRegs, ConsRegs, Regs
      <3>2. Claiming(cons) \in Nat /\ Claiming(cons') \in Nat /\ Claiming(cons') = Claiming(cons) - 1
        BY <3>1, ClaimingCounts
      <3> QED BY <3>2, <1>A DEF Types, Inv, BoundsOK
    <2>1. cons'[c] \in ConsRegs
      BY <1>13, <1>A, <1>C, ZenonT(60) DEF Types, GetClaim, ConsRegs, Regs
    <2>2. cons' \in [Consumers -> ConsRegs]
      BY <1>13, <1>A, <2>1 DEF Types, GetClaim
    <2> QED BY <1>13, <1>A, <2>2, <2>4 DEF Types, GetClaim, RingTypeOK, ProdRegs, ConsRegs
  <1>14. ASSUME NEW c \in Consumers, GetStore(c) PROVE RingTypeOK'
    <2>1. cons'[c] \in ConsRegs
      BY <1>14, <1>A, <1>C DEF Types, GetStore, ConsRegs, Regs
    <2>2. cons' \in [Consumers -> ConsRegs]
      BY <1>14, <1>A, <2>1 DEF Types, GetStore
    <2> QED BY <1>14, <1>A, <2>2 DEF Types, GetStore, RingTypeOK, ProdRegs, ConsRegs
  <1>15. ASSUME NEW c \in Consumers, GetTest(c) PROVE RingTypeOK'
    <2>1. cons'[c] \in ConsRegs
      BY <1>15, <1>A, <1>C DEF Types, GetTest, ConsRegs, Regs
    <2>2. cons' \in [Consumers -> ConsRegs]
      BY <1>15, <1>A, <2>1 DEF Types, GetTest
    <2> QED BY <1>15, <1>A, <2>2 DEF Types, GetTest, RingTypeOK, ProdRegs, ConsRegs
  <1>16. ASSUME NEW c \in Consumers, GetReadHead(c) PROVE RingTypeOK'
    <2>1. cons'[c] \in ConsRegs
      BY <1>16, <1>A, <1>C, ZenonT(60) DEF Types, GetReadHead, ConsRegs, Regs
    <2>2. cons' \in [Consumers -> ConsRegs]
      BY <1>16, <1>A, <2>1 DEF Types, GetReadHead
    <2> QED BY <1>16, <1>A, <2>2 DEF Types, GetReadHead, RingTypeOK, ProdRegs, ConsRegs
  <1>17. ASSUME NEW c \in Consumers, GetScan(c) PROVE RingTypeOK'
    <2>4. cons[c].i \in 0 .. NumProducers - 1 /\ cons[c].i + 1 \in 0 .. NumProducers + NumConsumers
      BY <1>17, <1>A DEF Nats, GetScan
    <2>5. Lower(cons[c].min, clientHead[cons[c].i]) \in 0 .. MaxOps
      BY <1>A, <2>4, SMTT(30) DEF Types, Lower, Producers, Consumers
    <2>1. cons'[c] \in ConsRegs
      BY <1>17, <1>A, <1>C, <2>4, <2>5, ZenonT(60) DEF Types, GetScan, ConsRegs, Regs
    <2>2. cons' \in [Consumers -> ConsRegs]
      BY <1>17, <1>A, <2>1 DEF Types, GetScan
    <2> QED BY <1>17, <1>A, <2>2 DEF Types, GetScan, RingTypeOK, ProdRegs, ConsRegs
  <1>18. ASSUME NEW c \in Consumers, GetScanned(c) PROVE RingTypeOK'
    <2>1. cons'[c] \in ConsRegs
      BY <1>18, <1>A, <1>C, SMTT(30) DEF Types, GetScanned, ConsRegs, Regs
    <2>2. cons' \in [Consumers -> ConsRegs]
      BY <1>18, <1>A, <2>1 DEF Types, GetScanned
    <2> QED BY <1>18, <1>A, <2>2 DEF Types, GetScanned, RingTypeOK, ProdRegs, ConsRegs
  <1>19. ASSUME NEW c \in Consumers, GetRead(c) PROVE RingTypeOK'
    <2>4. Slot(cons[c].pos) \in 0 .. QSize - 1
      BY <1>A, SlotType DEF Types, Nats
    <2>1. cons'[c] \in ConsRegs
      BY <1>19, <1>A, <1>C DEF Types, GetRead, ConsRegs, Regs
    <2>2. cons' \in [Consumers -> ConsRegs]
      BY <1>19, <1>A, <2>1 DEF Types, GetRead
    <2> QED BY <1>19, <1>A, <2>2, <2>4 DEF Types, GetRead, RingTypeOK, ProdRegs, ConsRegs
  <1>20. ASSUME NEW c \in Consumers, GetDone(c) PROVE RingTypeOK'
    <2>1. cons'[c] \in ConsRegs
      BY <1>20, <1>A, <1>C DEF Types, GetDone, Idle, ConsRegs, Regs
    <2>2. cons' \in [Consumers -> ConsRegs]
      BY <1>20, <1>A, <2>1 DEF Types, GetDone
    <2> QED BY <1>20, <1>A, <2>2 DEF Types, GetDone, RingTypeOK, ProdRegs, ConsRegs
  <1> QED BY <1>1, <1>2, <1>3, <1>4, <1>5, <1>6, <1>7, <1>8, <1>9, <1>10, 
         <1>11, <1>12, <1>13, <1>14, <1>15, <1>16, <1>17, <1>18, <1>19, <1>20 DEF RingNext, PutStep, GetStep

(* A position is claimed only by a client that was counted when it began.  *)
LEMMA BoundsStep == LockFreeAssumption /\ Inv /\ RingNext => BoundsOK'
  <1> SUFFICES ASSUME LockFreeAssumption, Inv, RingNext PROVE BoundsOK'
    OBVIOUS
  <1> USE DEF LockFreeAssumption
  <1>A. Types /\ Nats
    BY Typed DEF Inv
  <1>1. ASSUME NEW p \in Producers, PutBegin(p) PROVE BoundsOK'
    <2>1. /\ DOMAIN prod = 0 .. NumProducers - 1 /\ DOMAIN prod' = DOMAIN prod /\ p \in DOMAIN prod
          /\ \A x \in DOMAIN prod \ {p} : prod'[x] = prod[x]
      BY <1>1, <1>A DEF Types, PutBegin, Producers, Consumers
    <2>2. prod'[p].at = "announce"
      BY <1>1, <1>A DEF Types, PutBegin, Idle
    <2>3. Claiming(prod) \in Nat /\ Claiming(prod') \in Nat /\ Claiming(prod') <= Claiming(prod) + 1
      BY <2>1, <2>2, ClaimingCounts
    <2> QED BY <1>1, <1>A, <2>3, SMTT(30) DEF Types, PutBegin, Inv, BoundsOK
  <1>2. ASSUME NEW p \in Producers, PutAnnounce(p) PROVE BoundsOK'
    <2>1. /\ DOMAIN prod = 0 .. NumProducers - 1 /\ DOMAIN prod' = DOMAIN prod /\ p \in DOMAIN prod
          /\ \A x \in DOMAIN prod \ {p} : prod'[x] = prod[x]
      BY <1>2, <1>A DEF Types, PutAnnounce, Producers, Consumers
    <2>2. prod'[p].at \in {"announce", "claim"} <=> prod[p].at \in {"announce", "claim"}
      BY <1>2, <1>A DEF Types, PutAnnounce, ProdRegs, ConsRegs, Regs
    <2>3. Claiming(prod) \in Nat /\ Claiming(prod') = Claiming(prod)
      BY <2>1, <2>2, ClaimingCounts
    <2> QED BY <1>2, <1>A, <2>3 DEF Types, PutAnnounce, Inv, BoundsOK
  <1>3. ASSUME NEW p \in Producers, PutClaim(p) PROVE BoundsOK'
    <2>1. /\ DOMAIN prod = 0 .. NumProducers - 1 /\ DOMAIN prod' = DOMAIN prod /\ p \in DOMAIN prod
          /\ \A x \in DOMAIN prod \ {p} : prod'[x] = prod[x]
      BY <1>3, <1>A DEF Types, PutClaim, Producers, Consumers
    <2>2. prod[p].at = "claim" /\ prod'[p].at = "store"
      BY <1>3, <1>A DEF Types, PutClaim, ProdRegs, ConsRegs, Regs
    <2>3. Claiming(prod) \in Nat /\ Claiming(prod') \in Nat /\ Claiming(prod') = Claiming(prod) - 1
      BY <2>1, <2>2, ClaimingCounts
    <2>4. /\ head' = head + 1 /\ tail' = tail /\ cons' = cons
          /\ lastHead' = lastHead /\ lastTail' = lastTail
      BY <1>3 DEF PutClaim
    <2> QED BY <2>4, <1>A, <2>3 DEF Types, Inv, BoundsOK
  <1>4. ASSUME NEW p \in Producers, PutStore(p) PROVE BoundsOK'
    <2>1. /\ DOMAIN prod = 0 .. NumProducers - 1 /\ DOMAIN prod' = DOMAIN prod /\ p \in DOMAIN prod
          /\ \A x \in DOMAIN prod \ {p} : prod'[x] = prod[x]
      BY <1>4, <1>A DEF Types, PutStore, Producers, Consumers
    <2>2. prod'[p].at \in {"announce", "claim"} <=> prod[p].at \in {"announce", "claim"}
      BY <1>4, <1>A DEF Types, PutStore, ProdRegs, ConsRegs, Regs
    <2>3. Claiming(prod) \in Nat /\ Claiming(prod') = Claiming(prod)
      BY <2>1, <2>2, ClaimingCounts
    <2> QED BY <1>4, <1>A, <2>3 DEF Types, PutStore, Inv, BoundsOK
  <1>5. ASSUME NEW p \in Producers, PutTest(p) PROVE BoundsOK'
    <2>1. /\ DOMAIN prod = 0 .. NumProducers - 1 /\ DOMAIN prod' = DOMAIN prod /\ p \in DOMAIN prod
          /\ \A x \in DOMAIN prod \ {p} : prod'[x] = prod[x]
      BY <1>5, <1>A DEF Types, PutTest, Producers, Consumers
    <2>2. prod'[p].at \in {"announce", "claim"} <=> prod[p].at \in {"announce", "claim"}
      BY <1>5, <1>A DEF Types, PutTest, ProdRegs, ConsRegs, Regs
    <2>3. Claiming(prod) \in Nat /\ Claiming(prod') = Claiming(prod)
      BY <2>1, <2>2, ClaimingCounts
    <2> QED BY <1>5, <1>A, <2>3 DEF Types, PutTest, Inv, BoundsOK
  <1>6. ASSUME NEW p \in Producers, PutReadTail(p) PROVE BoundsOK'
    <2>1. /\ DOMAIN prod = 0 .. NumProducers - 1 /\ DOMAIN prod' = DOMAIN prod /\ p \in DOMAIN prod
          /\ \A x \in DOMAIN prod \ {p} : prod'[x] = prod[x]
      BY <1>6, <1>A DEF Types, PutReadTail, Producers, Consumers
    <2>2. prod'[p].at \in {"announce", "claim"} <=> prod[p].at \in {"announce", "claim"}
      BY <1>6, <1>A DEF Types, PutReadTail, ProdRegs, ConsRegs, Regs
    <2>3. Claiming(prod) \in Nat /\ Claiming(prod') = Claiming(prod)
      BY <2>1, <2>2, ClaimingCounts
    <2> QED BY <1>6, <1>A, <2>3 DEF Types, PutReadTail, Inv, BoundsOK
  <1>7. ASSUME NEW p \in Producers, PutScan(p) PROVE BoundsOK'
    <2>1. /\ DOMAIN prod = 0 .. NumProducers - 1 /\ DOMAIN prod' = DOMAIN prod /\ p \in DOMAIN prod
          /\ \A x \in DOMAIN prod \ {p} : prod'[x] = prod[x]
      BY <1>7, <1>A DEF Types, PutScan, Producers, Consumers
    <2>2. prod'[p].at \in {"announce", "claim"} <=> prod[p].at \in {"announce", "claim"}
      BY <1>7, <1>A DEF Types, PutScan, ProdRegs, ConsRegs, Regs
    <2>3. Claiming(prod) \in Nat /\ Claiming(prod') = Claiming(prod)
      BY <2>1, <2>2, ClaimingCounts
    <2> QED BY <1>7, <1>A, <2>3 DEF Types, PutScan, Inv, BoundsOK
  <1>8. ASSUME NEW p \in Producers, PutScanned(p) PROVE BoundsOK'
    <2>1. /\ DOMAIN prod = 0 .. NumProducers - 1 /\ DOMAIN prod' = DOMAIN prod /\ p \in DOMAIN prod
          /\ \A x \in DOMAIN prod \ {p} : prod'[x] = prod[x]
      BY <1>8, <1>A DEF Types, PutScanned, Producers, Consumers
    <2>2. prod'[p].at \in {"announce", "claim"} <=> prod[p].at \in {"announce", "claim"}
      BY <1>8, <1>A DEF Types, PutScanned, ProdRegs, ConsRegs, Regs
    <2>3. Claiming(prod) \in Nat /\ Claiming(prod') = Claiming(prod)
      BY <2>1, <2>2, ClaimingCounts
    <2> QED BY <1>8, <1>A, <2>3 DEF Types, PutScanned, Inv, BoundsOK, ScansOK, HeadScans, TailScans
  <1>9. ASSUME NEW p \in Producers, PutWrite(p) PROVE BoundsOK'
    <2>1. /\ DOMAIN prod = 0 .. NumProducers - 1 /\ DOMAIN prod' = DOMAIN prod /\ p \in DOMAIN prod
          /\ \A x \in DOMAIN prod \ {p} : prod'[x] = prod[x]
      BY <1>9, <1>A DEF Types, PutWrite, Producers, Consumers
    <2>2. prod'[p].at \in {"announce", "claim"} <=> prod[p].at \in {"announce", "claim"}
      BY <1>9, <1>A DEF Types, PutWrite, ProdRegs, ConsRegs, Regs
    <2>3. Claiming(prod) \in Nat /\ Claiming(prod') = Claiming(prod)
      BY <2>1, <2>2, ClaimingCounts
    <2> QED BY <1>9, <1>A, <2>3 DEF Types, PutWrite, Inv, BoundsOK
  <1>10. ASSUME NEW p \in Producers, PutDone(p) PROVE BoundsOK'
    <2>1. /\ DOMAIN prod = 0 .. NumProducers - 1 /\ DOMAIN prod' = DOMAIN prod /\ p \in DOMAIN prod
          /\ \A x \in DOMAIN prod \ {p} : prod'[x] = prod[x]
      BY <1>10, <1>A DEF Types, PutDone, Producers, Consumers
    <2>2. prod'[p].at \in {"announce", "claim"} <=> prod[p].at \in {"announce", "claim"}
      BY <1>10, <1>A DEF Types, PutDone, Idle, ProdRegs, ConsRegs, Regs
    <2>3. Claiming(prod) \in Nat /\ Claiming(prod') = Claiming(prod)
      BY <2>1, <2>2, ClaimingCounts
    <2> QED BY <1>10, <1>A, <2>3 DEF Types, PutDone, Inv, BoundsOK
  <1>11. ASSUME NEW c \in Consumers, GetBegin(c) PROVE BoundsOK'
    <2>1. /\ DOMAIN cons = 0 .. NumConsumers - 1 /\ DOMAIN cons' = DOMAIN cons /\ c \in DOMAIN cons
          /\ \A x \in DOMAIN cons \ {c} : cons'[x] = cons[x]
      BY <1>11, <1>A DEF Types, GetBegin, Producers, Consumers
    <2>2. cons'[c].at = "announce"
      BY <1>11, <1>A DEF Types, GetBegin, Idle
    <2>3. Claiming(cons) \in Nat /\ Claiming(cons') \in Nat /\ Claiming(cons') <= Claiming(cons) + 1
      BY <2>1, <2>2, ClaimingCounts
    <2> QED BY <1>11, <1>A, <2>3, SMTT(30) DEF Types, GetBegin, Inv, BoundsOK
  <1>12. ASSUME NEW c \in Consumers, GetAnnounce(c) PROVE BoundsOK'
    <2>1. /\ DOMAIN cons = 0 .. NumConsumers - 1 /\ DOMAIN cons' = DOMAIN cons /\ c \in DOMAIN cons
          /\ \A x \in DOMAIN cons \ {c} : cons'[x] = cons[x]
      BY <1>12, <1>A DEF Types, GetAnnounce, Producers, Consumers
    <2>2. cons'[c].at \in {"announce", "claim"} <=> cons[c].at \in {"announce", "claim"}
      BY <1>12, <1>A DEF Types, GetAnnounce, ProdRegs, ConsRegs, Regs
    <2>3. Claiming(cons) \in Nat /\ Claiming(cons') = Claiming(cons)
      BY <2>1, <2>2, ClaimingCounts
    <2> QED BY <1>12, <1>A, <2>3 DEF Types, GetAnnounce, Inv, BoundsOK
  <1>13. ASSUME NEW c \in Consumers, GetClaim(c) PROVE BoundsOK'
    <2>1. /\ DOMAIN cons = 0 .. NumConsumers - 1 /\ DOMAIN cons' = DOMAIN cons /\ c \in DOMAIN cons
          /\ \A x \in DOMAIN cons \ {c} : cons'[x] = cons[x]
      BY <1>13, <1>A DEF Types, GetClaim, Producers, Consumers
    <2>2. cons[c].at = "claim" /\ cons'[c].at = "store"
      BY <1>13, <1>A DEF Types, GetClaim, ProdRegs, ConsRegs, Regs
    <2>3. Claiming(cons) \in Nat /\ Claiming(cons') \in Nat /\ Claiming(cons') = Claiming(cons) - 1
      BY <2>1, <2>2, ClaimingCounts
    <2>4. /\ tail' = tail + 1 /\ head' = head /\ prod' = prod
          /\ lastHead' = lastHead /\ lastTail' = lastTail
      BY <1>13 DEF GetClaim
    <2> QED BY <2>4, <1>A, <2>3 DEF Types, Inv, BoundsOK
  <1>14. ASSUME NEW c \in Consumers, GetStore(c) PROVE BoundsOK'
    <2>1. /\ DOMAIN cons = 0 .. NumConsumers - 1 /\ DOMAIN cons' = DOMAIN cons /\ c \in DOMAIN cons
          /\ \A x \in DOMAIN cons \ {c} : cons'[x] = cons[x]
      BY <1>14, <1>A DEF Types, GetStore, Producers, Consumers
    <2>2. cons'[c].at \in {"announce", "claim"} <=> cons[c].at \in {"announce", "claim"}
      BY <1>14, <1>A DEF Types, GetStore, ProdRegs, ConsRegs, Regs
    <2>3. Claiming(cons) \in Nat /\ Claiming(cons') = Claiming(cons)
      BY <2>1, <2>2, ClaimingCounts
    <2> QED BY <1>14, <1>A, <2>3 DEF Types, GetStore, Inv, BoundsOK
  <1>15. ASSUME NEW c \in Consumers, GetTest(c) PROVE BoundsOK'
    <2>1. /\ DOMAIN cons = 0 .. NumConsumers - 1 /\ DOMAIN cons' = DOMAIN cons /\ c \in DOMAIN cons
          /\ \A x \in DOMAIN cons \ {c} : cons'[x] = cons[x]
      BY <1>15, <1>A DEF Types, GetTest, Producers, Consumers
    <2>2. cons'[c].at \in {"announce", "claim"} <=> cons[c].at \in {"announce", "claim"}
      BY <1>15, <1>A DEF Types, GetTest, ProdRegs, ConsRegs, Regs
    <2>3. Claiming(cons) \in Nat /\ Claiming(cons') = Claiming(cons)
      BY <2>1, <2>2, ClaimingCounts
    <2> QED BY <1>15, <1>A, <2>3 DEF Types, GetTest, Inv, BoundsOK
  <1>16. ASSUME NEW c \in Consumers, GetReadHead(c) PROVE BoundsOK'
    <2>1. /\ DOMAIN cons = 0 .. NumConsumers - 1 /\ DOMAIN cons' = DOMAIN cons /\ c \in DOMAIN cons
          /\ \A x \in DOMAIN cons \ {c} : cons'[x] = cons[x]
      BY <1>16, <1>A DEF Types, GetReadHead, Producers, Consumers
    <2>2. cons'[c].at \in {"announce", "claim"} <=> cons[c].at \in {"announce", "claim"}
      BY <1>16, <1>A DEF Types, GetReadHead, ProdRegs, ConsRegs, Regs
    <2>3. Claiming(cons) \in Nat /\ Claiming(cons') = Claiming(cons)
      BY <2>1, <2>2, ClaimingCounts
    <2> QED BY <1>16, <1>A, <2>3 DEF Types, GetReadHead, Inv, BoundsOK
  <1>17. ASSUME NEW c \in Consumers, GetScan(c) PROVE BoundsOK'
    <2>1. /\ DOMAIN cons = 0 .. NumConsumers - 1 /\ DOMAIN cons' = DOMAIN cons /\ c \in DOMAIN cons
          /\ \A x \in DOMAIN cons \ {c} : cons'[x] = cons[x]
      BY <1>17, <1>A DEF Types, GetScan, Producers, Consumers
    <2>2. cons'[c].at \in {"announce", "claim"} <=> cons[c].at \in {"announce", "claim"}
      BY <1>17, <1>A DEF Types, GetScan, ProdRegs, ConsRegs, Regs
    <2>3. Claiming(cons) \in Nat /\ Claiming(cons') = Claiming(cons)
      BY <2>1, <2>2, ClaimingCounts
    <2> QED BY <1>17, <1>A, <2>3 DEF Types, GetScan, Inv, BoundsOK
  <1>18. ASSUME NEW c \in Consumers, GetScanned(c) PROVE BoundsOK'
    <2>1. /\ DOMAIN cons = 0 .. NumConsumers - 1 /\ DOMAIN cons' = DOMAIN cons /\ c \in DOMAIN cons
          /\ \A x \in DOMAIN cons \ {c} : cons'[x] = cons[x]
      BY <1>18, <1>A DEF Types, GetScanned, Producers, Consumers
    <2>2. cons'[c].at \in {"announce", "claim"} <=> cons[c].at \in {"announce", "claim"}
      BY <1>18, <1>A DEF Types, GetScanned, ProdRegs, ConsRegs, Regs
    <2>3. Claiming(cons) \in Nat /\ Claiming(cons') = Claiming(cons)
      BY <2>1, <2>2, ClaimingCounts
    <2> QED BY <1>18, <1>A, <2>3 DEF Types, GetScanned, Inv, BoundsOK, ScansOK, HeadScans, TailScans
  <1>19. ASSUME NEW c \in Consumers, GetRead(c) PROVE BoundsOK'
    <2>1. /\ DOMAIN cons = 0 .. NumConsumers - 1 /\ DOMAIN cons' = DOMAIN cons /\ c \in DOMAIN cons
          /\ \A x \in DOMAIN cons \ {c} : cons'[x] = cons[x]
      BY <1>19, <1>A DEF Types, GetRead, Producers, Consumers
    <2>2. cons'[c].at \in {"announce", "claim"} <=> cons[c].at \in {"announce", "claim"}
      BY <1>19, <1>A DEF Types, GetRead, ProdRegs, ConsRegs, Regs
    <2>3. Claiming(cons) \in Nat /\ Claiming(cons') = Claiming(cons)
      BY <2>1, <2>2, ClaimingCounts
    <2> QED BY <1>19, <1>A, <2>3 DEF Types, GetRead, Inv, BoundsOK
  <1>20. ASSUME NEW c \in Consumers, GetDone(c) PROVE BoundsOK'
    <2>1. /\ DOMAIN cons = 0 .. NumConsumers - 1 /\ DOMAIN cons' = DOMAIN cons /\ c \in DOMAIN cons
          /\ \A x \in DOMAIN cons \ {c} : cons'[x] = cons[x]
      BY <1>20, <1>A DEF Types, GetDone, Producers, Consumers
    <2>2. cons'[c].at \in {"announce", "claim"} <=> cons[c].at \in {"announce", "claim"}
      BY <1>20, <1>A DEF Types, GetDone, Idle, ProdRegs, ConsRegs, Regs
    <2>3. Claiming(cons) \in Nat /\ Claiming(cons') = Claiming(cons)
      BY <2>1, <2>2, ClaimingCounts
    <2> QED BY <1>20, <1>A, <2>3 DEF Types, GetDone, Inv, BoundsOK
  <1> QED BY <1>1, <1>2, <1>3, <1>4, <1>5, <1>6, <1>7, <1>8, <1>9, <1>10, 
         <1>11, <1>12, <1>13, <1>14, <1>15, <1>16, <1>17, <1>18, <1>19, <1>20 DEF RingNext, PutStep, GetStep

(* An announcement lags behind the claim, and never runs ahead of it.      *)
LEMMA AnnouncedStep == LockFreeAssumption /\ Inv /\ RingNext => AnnouncedOK'
  <1> SUFFICES ASSUME LockFreeAssumption, Inv, RingNext PROVE AnnouncedOK'
    OBVIOUS
  <1> USE DEF LockFreeAssumption
  <1>A. Types /\ Nats
    BY Typed DEF Inv
  <1>1. ASSUME NEW p \in Producers, PutBegin(p) PROVE AnnouncedOK'
    BY <1>1, <1>A DEF Types, Nats, PutBegin, Idle, Inv, AnnouncedOK,
       PutsAnnounced, GetsAnnounced, Unwritten, Unread, ProdRegs, ConsRegs, Regs
  <1>2. ASSUME NEW p \in Producers, PutAnnounce(p) PROVE AnnouncedOK'
    BY <1>2, <1>A DEF Types, Nats, PutAnnounce, Inv, AnnouncedOK,
       PutsAnnounced, GetsAnnounced, Unwritten, Unread, ProdRegs, ConsRegs, Regs
  <1>3. ASSUME NEW p \in Producers, PutClaim(p) PROVE AnnouncedOK'
    <2>1. prod[p].at = "claim" /\ prod'[p].at = "store" /\ prod'[p].pos = head /\ head' = head + 1
      BY <1>3, <1>A DEF Types, PutClaim, ProdRegs, Regs
    <2>2. (\A x \in Producers \ {p} : prod'[x] = prod[x]) /\ UNCHANGED <<tail, lastHead, lastTail, clientHead, clientTail, cons>>
      BY <1>3, <1>A DEF Types, PutClaim
    <2> QED BY <1>A, <2>1, <2>2 DEF Nats, Inv, AnnouncedOK, PutsAnnounced, GetsAnnounced, Unwritten, Unread
  <1>4. ASSUME NEW p \in Producers, PutStore(p) PROVE AnnouncedOK'
    BY <1>4, <1>A, SMTT(30) DEF Types, Nats, PutStore, Inv, AnnouncedOK,
       PutsAnnounced, GetsAnnounced, Unwritten, Unread, ProdRegs, ConsRegs, Regs
  <1>5. ASSUME NEW p \in Producers, PutTest(p) PROVE AnnouncedOK'
    BY <1>5, <1>A, SMTT(30) DEF Types, Nats, PutTest, Inv, AnnouncedOK,
       PutsAnnounced, GetsAnnounced, Unwritten, Unread, ProdRegs, ConsRegs, Regs
  <1>6. ASSUME NEW p \in Producers, PutReadTail(p) PROVE AnnouncedOK'
    <2>1. prod'[p].at = "scan" /\ prod'[p].pos = prod[p].pos /\ prod[p].at = "readTail"
          /\ prod'[p].min = tail /\ prod'[p].i = 0
      BY <1>6, <1>A DEF Types, PutReadTail, ProdRegs, Regs
    <2>2. (\A x \in Producers \ {p} : prod'[x] = prod[x]) /\ UNCHANGED <<head, tail, lastHead, lastTail, clientHead, clientTail, cons>>
      BY <1>6, <1>A DEF Types, PutReadTail
    <2> QED BY <1>A, <2>1, <2>2 DEF Nats, Inv, AnnouncedOK, PutsAnnounced, GetsAnnounced, Unwritten, Unread
  <1>7. ASSUME NEW p \in Producers, PutScan(p) PROVE AnnouncedOK'
    BY <1>7, <1>A, ZenonT(60) DEF Types, Nats, PutScan, Inv, AnnouncedOK,
       PutsAnnounced, GetsAnnounced, Unwritten, Unread, ProdRegs, ConsRegs, Regs
  <1>8. ASSUME NEW p \in Producers, PutScanned(p) PROVE AnnouncedOK'
    <2>1. prod[p].at = "scan" /\ prod'[p].at = "test" /\ prod'[p].pos = prod[p].pos
          /\ prod[p].i = NumConsumers /\ lastTail' = prod[p].min
      BY <1>8, <1>A DEF Types, PutScanned, ProdRegs, Regs
    <2>2. (\A x \in Producers \ {p} : prod'[x] = prod[x]) /\ UNCHANGED <<head, tail, lastHead, clientHead, clientTail, cons>>
      BY <1>8, <1>A DEF Types, PutScanned
    <2> QED BY <1>A, <2>1, <2>2 DEF Nats, Inv, AnnouncedOK, PutsAnnounced, GetsAnnounced, Unwritten, Unread
  <1>9. ASSUME NEW p \in Producers, PutWrite(p) PROVE AnnouncedOK'
    BY <1>9, <1>A DEF Types, Nats, PutWrite, Inv, AnnouncedOK,
       PutsAnnounced, GetsAnnounced, Unwritten, Unread, ProdRegs, ConsRegs, Regs
  <1>10. ASSUME NEW p \in Producers, PutDone(p) PROVE AnnouncedOK'
    BY <1>10, <1>A DEF Types, Nats, PutDone, Idle, Inv, AnnouncedOK,
       PutsAnnounced, GetsAnnounced, Unwritten, Unread, ProdRegs, ConsRegs, Regs
  <1>11. ASSUME NEW c \in Consumers, GetBegin(c) PROVE AnnouncedOK'
    BY <1>11, <1>A DEF Types, Nats, GetBegin, Idle, Inv, AnnouncedOK,
       PutsAnnounced, GetsAnnounced, Unwritten, Unread, ProdRegs, ConsRegs, Regs
  <1>12. ASSUME NEW c \in Consumers, GetAnnounce(c) PROVE AnnouncedOK'
    BY <1>12, <1>A DEF Types, Nats, GetAnnounce, Inv, AnnouncedOK,
       PutsAnnounced, GetsAnnounced, Unwritten, Unread, ProdRegs, ConsRegs, Regs
  <1>13. ASSUME NEW c \in Consumers, GetClaim(c) PROVE AnnouncedOK'
    <2>1. cons[c].at = "claim" /\ cons'[c].at = "store" /\ cons'[c].pos = tail /\ tail' = tail + 1
      BY <1>13, <1>A DEF Types, GetClaim, ConsRegs, Regs
    <2>2. (\A x \in Consumers \ {c} : cons'[x] = cons[x]) /\ UNCHANGED <<head, lastHead, lastTail, clientHead, clientTail, prod>>
      BY <1>13, <1>A DEF Types, GetClaim
    <2> QED BY <1>A, <2>1, <2>2 DEF Nats, Inv, AnnouncedOK, PutsAnnounced, GetsAnnounced, Unwritten, Unread
  <1>14. ASSUME NEW c \in Consumers, GetStore(c) PROVE AnnouncedOK'
    BY <1>14, <1>A, SMTT(30) DEF Types, Nats, GetStore, Inv, AnnouncedOK,
       PutsAnnounced, GetsAnnounced, Unwritten, Unread, ProdRegs, ConsRegs, Regs
  <1>15. ASSUME NEW c \in Consumers, GetTest(c) PROVE AnnouncedOK'
    BY <1>15, <1>A DEF Types, Nats, GetTest, Inv, AnnouncedOK,
       PutsAnnounced, GetsAnnounced, Unwritten, Unread, ProdRegs, ConsRegs, Regs
  <1>16. ASSUME NEW c \in Consumers, GetReadHead(c) PROVE AnnouncedOK'
    <2>1. cons'[c].at = "scan" /\ cons'[c].pos = cons[c].pos /\ cons[c].at = "readHead"
          /\ cons'[c].min = head /\ cons'[c].i = 0
      BY <1>16, <1>A DEF Types, GetReadHead, ConsRegs, Regs
    <2>2. (\A x \in Consumers \ {c} : cons'[x] = cons[x]) /\ UNCHANGED <<head, tail, lastHead, lastTail, clientHead, clientTail, prod>>
      BY <1>16, <1>A DEF Types, GetReadHead
    <2> QED BY <1>A, <2>1, <2>2 DEF Nats, Inv, AnnouncedOK, PutsAnnounced, GetsAnnounced, Unwritten, Unread
  <1>17. ASSUME NEW c \in Consumers, GetScan(c) PROVE AnnouncedOK'
    BY <1>17, <1>A DEF Types, Nats, GetScan, Inv, AnnouncedOK,
       PutsAnnounced, GetsAnnounced, Unwritten, Unread, ProdRegs, ConsRegs, Regs
  <1>18. ASSUME NEW c \in Consumers, GetScanned(c) PROVE AnnouncedOK'
    <2>1. cons[c].at = "scan" /\ cons'[c].at = "test" /\ cons'[c].pos = cons[c].pos
          /\ cons[c].i = NumProducers /\ lastHead' = cons[c].min
      BY <1>18, <1>A DEF Types, GetScanned, ConsRegs, Regs
    <2>2. (\A x \in Consumers \ {c} : cons'[x] = cons[x]) /\ UNCHANGED <<head, tail, lastTail, clientHead, clientTail, prod>>
      BY <1>18, <1>A DEF Types, GetScanned
    <2> QED BY <1>A, <2>1, <2>2 DEF Nats, Inv, AnnouncedOK, PutsAnnounced, GetsAnnounced, Unwritten, Unread
  <1>19. ASSUME NEW c \in Consumers, GetRead(c) PROVE AnnouncedOK'
    BY <1>19, <1>A DEF Types, Nats, GetRead, Inv, AnnouncedOK,
       PutsAnnounced, GetsAnnounced, Unwritten, Unread, ProdRegs, ConsRegs, Regs
  <1>20. ASSUME NEW c \in Consumers, GetDone(c) PROVE AnnouncedOK'
    BY <1>20, <1>A DEF Types, Nats, GetDone, Idle, Inv, AnnouncedOK,
       PutsAnnounced, GetsAnnounced, Unwritten, Unread, ProdRegs, ConsRegs, Regs
  <1> QED BY <1>1, <1>2, <1>3, <1>4, <1>5, <1>6, <1>7, <1>8, <1>9, <1>10, 
         <1>11, <1>12, <1>13, <1>14, <1>15, <1>16, <1>17, <1>18, <1>19, <1>20 DEF RingNext, PutStep, GetStep

(* A scan misses no client: who claims behind its back claims above it.    *)
LEMMA ScansStep == LockFreeAssumption /\ Inv /\ RingNext => ScansOK'
  <1> SUFFICES ASSUME LockFreeAssumption, Inv, RingNext PROVE ScansOK'
    OBVIOUS
  <1> USE DEF LockFreeAssumption
  <1>A. Types /\ Nats
    BY Typed DEF Inv
  <1>1. ASSUME NEW p \in Producers, PutBegin(p) PROVE ScansOK'
    <2>4. HeadScans'
      BY <1>1, <1>A DEF Nats, Types, PutBegin, Idle, Inv, ScansOK, HeadScans, Unwritten, Unread, ProdRegs, ConsRegs, Regs
    <2>5. TailScans'
      BY <1>1, <1>A DEF Nats, Types, PutBegin, Idle, Inv, ScansOK, TailScans, Unwritten, Unread, ProdRegs, ConsRegs, Regs
    <2>6. LastScans'
      BY <1>1, <1>A DEF Nats, Types, PutBegin, Idle, Inv, ScansOK, LastScans, Unwritten, Unread, ProdRegs, ConsRegs, Regs
    <2> QED BY <2>4, <2>5, <2>6 DEF ScansOK
  <1>2. ASSUME NEW p \in Producers, PutAnnounce(p) PROVE ScansOK'
    <2>4. HeadScans'
      BY <1>2, <1>A, ZenonT(60) DEF Nats, Types, PutAnnounce, Inv, ScansOK, HeadScans, Unwritten, Unread, ProdRegs, ConsRegs, Regs
    <2>5. TailScans'
      BY <1>2, <1>A DEF Nats, Types, PutAnnounce, Inv, ScansOK, TailScans, Unwritten, Unread, ProdRegs, ConsRegs, Regs
    <2>6. LastScans'
      BY <1>2, <1>A DEF Nats, Types, PutAnnounce, Inv, ScansOK, LastScans, Unwritten, Unread, ProdRegs, ConsRegs, Regs
    <2> QED BY <2>4, <2>5, <2>6 DEF ScansOK
  <1>3. ASSUME NEW p \in Producers, PutClaim(p) PROVE ScansOK'
    <2>1. prod[p].at = "claim" /\ prod'[p].at = "store" /\ prod'[p].pos = head /\ head' = head + 1
      BY <1>3, <1>A DEF Types, PutClaim, ProdRegs, Regs
    <2>2. (\A x \in Producers \ {p} : prod'[x] = prod[x]) /\ UNCHANGED <<tail, lastHead, lastTail, clientHead, clientTail, cons>>
      BY <1>3, <1>A DEF Types, PutClaim
    <2>4. HeadScans'
      BY <1>A, <2>1, <2>2 DEF Nats, Inv, AnnouncedOK, PutsAnnounced, ScansOK, HeadScans, Unwritten, Lower
    <2>5. TailScans'
      BY <1>A, <2>1, <2>2 DEF Nats, Inv, AnnouncedOK, GetsAnnounced, ScansOK, TailScans, Unread, Lower
    <2>6. LastScans'
      BY <1>A, <2>1, <2>2 DEF Nats, Inv, BoundsOK, ScansOK, HeadScans, TailScans, LastScans, Unwritten, Unread
    <2> QED BY <2>4, <2>5, <2>6 DEF ScansOK
  <1>4. ASSUME NEW p \in Producers, PutStore(p) PROVE ScansOK'
    <2>4. HeadScans'
      BY <1>4, <1>A DEF Nats, Types, PutStore, Inv, ScansOK, HeadScans, Unwritten, Unread, ProdRegs, ConsRegs, Regs
    <2>5. TailScans'
      BY <1>4, <1>A DEF Nats, Types, PutStore, Inv, ScansOK, TailScans, Unwritten, Unread, ProdRegs, ConsRegs, Regs
    <2>6. LastScans'
      BY <1>4, <1>A DEF Nats, Types, PutStore, Inv, ScansOK, LastScans, Unwritten, Unread, ProdRegs, ConsRegs, Regs
    <2> QED BY <2>4, <2>5, <2>6 DEF ScansOK
  <1>5. ASSUME NEW p \in Producers, PutTest(p) PROVE ScansOK'
    <2>4. HeadScans'
      BY <1>5, <1>A DEF Nats, Types, PutTest, Inv, ScansOK, HeadScans, Unwritten, Unread, ProdRegs, ConsRegs, Regs
    <2>5. TailScans'
      BY <1>5, <1>A DEF Nats, Types, PutTest, Inv, ScansOK, TailScans, Unwritten, Unread, ProdRegs, ConsRegs, Regs
    <2>6. LastScans'
      BY <1>5, <1>A DEF Nats, Types, PutTest, Inv, ScansOK, LastScans, Unwritten, Unread, ProdRegs, ConsRegs, Regs
    <2> QED BY <2>4, <2>5, <2>6 DEF ScansOK
  <1>6. ASSUME NEW p \in Producers, PutReadTail(p) PROVE ScansOK'
    <2>1. prod'[p].at = "scan" /\ prod'[p].pos = prod[p].pos /\ prod[p].at = "readTail"
          /\ prod'[p].min = tail /\ prod'[p].i = 0
      BY <1>6, <1>A DEF Types, PutReadTail, ProdRegs, Regs
    <2>2. (\A x \in Producers \ {p} : prod'[x] = prod[x]) /\ UNCHANGED <<head, tail, lastHead, lastTail, clientHead, clientTail, cons>>
      BY <1>6, <1>A DEF Types, PutReadTail
    <2>4. HeadScans'
      BY <1>A, <2>1, <2>2 DEF Nats, Inv, AnnouncedOK, PutsAnnounced, ScansOK, HeadScans, Unwritten, Lower
    <2>5. TailScans'
      BY <1>A, <2>1, <2>2 DEF Nats, Inv, AnnouncedOK, GetsAnnounced, ScansOK, TailScans, Unread, Lower
    <2>6. LastScans'
      BY <1>A, <2>1, <2>2 DEF Nats, Inv, BoundsOK, ScansOK, HeadScans, TailScans, LastScans, Unwritten, Unread
    <2> QED BY <2>4, <2>5, <2>6 DEF ScansOK
  <1>7. ASSUME NEW p \in Producers, PutScan(p) PROVE ScansOK'
    <2>1. prod[p].at = "scan" /\ prod'[p].at = "scan" /\ prod'[p].pos = prod[p].pos
          /\ prod'[p].min = Lower(prod[p].min, clientTail[prod[p].i])
          /\ prod'[p].i = prod[p].i + 1 /\ prod[p].i < NumConsumers
      BY <1>7, <1>A DEF Types, PutScan, ProdRegs, Regs
    <2>2. (\A x \in Producers \ {p} : prod'[x] = prod[x]) /\ UNCHANGED <<head, tail, lastHead, lastTail, clientHead, clientTail, cons>>
      BY <1>7, <1>A DEF Types, PutScan
    <2>4. HeadScans'
      BY <1>A, <2>1, <2>2 DEF Nats, Inv, ScansOK, HeadScans, Unwritten
    <2>5. TailScans'
      <3>1. prod[p].i \in Consumers /\ clientTail[prod[p].i] \in Nat
        BY <1>A, <2>1 DEF Nats, Consumers
      <3>2. /\ prod'[p].min <= prod[p].min /\ prod'[p].min <= clientTail[prod[p].i]
            /\ prod'[p].min \in Nat
        BY <1>A, <2>1, <3>1 DEF Nats, Lower
      <3>3. ASSUME NEW c \in Consumers, Unread(c)
            PROVE  cons[c].pos >= prod'[p].min \/ c >= prod'[p].i
        <4>1. clientTail[c] <= cons[c].pos
          BY <3>3 DEF Inv, AnnouncedOK, GetsAnnounced
        <4>2. cons[c].pos >= prod[p].min \/ c >= prod[p].i
          BY <3>3, <2>1 DEF Inv, ScansOK, TailScans
        <4> QED BY <4>1, <4>2, <3>1, <3>2, <2>1, <1>A DEF Nats
      <3>4. prod[p].min <= tail
        BY <2>1 DEF Inv, ScansOK, TailScans
      <3>5. prod'[p].min <= tail /\ prod'[p].i <= NumConsumers
        BY <3>2, <3>4, <2>1, <1>A DEF Nats
      <3> QED BY <2>2, <3>3, <3>5 DEF Inv, ScansOK, TailScans, Unread
    <2>6. LastScans'
      BY <1>A, <2>1, <2>2 DEF Nats, Inv, ScansOK, LastScans, Unwritten, Unread
    <2> QED BY <2>4, <2>5, <2>6 DEF ScansOK
  <1>8. ASSUME NEW p \in Producers, PutScanned(p) PROVE ScansOK'
    <2>1. prod[p].at = "scan" /\ prod'[p].at = "test" /\ prod'[p].pos = prod[p].pos
          /\ prod[p].i = NumConsumers /\ lastTail' = prod[p].min
      BY <1>8, <1>A DEF Types, PutScanned, ProdRegs, Regs
    <2>2. (\A x \in Producers \ {p} : prod'[x] = prod[x]) /\ UNCHANGED <<head, tail, lastHead, clientHead, clientTail, cons>>
      BY <1>8, <1>A DEF Types, PutScanned
    <2>4. HeadScans'
      BY <1>A, <2>1, <2>2 DEF Nats, Inv, AnnouncedOK, PutsAnnounced, ScansOK, HeadScans, Unwritten, Lower
    <2>5. TailScans'
      BY <1>A, <2>1, <2>2 DEF Nats, Inv, AnnouncedOK, GetsAnnounced, ScansOK, TailScans, Unread, Lower
    <2>6. LastScans'
      BY <1>A, <2>1, <2>2 DEF Nats, Inv, BoundsOK, ScansOK, HeadScans, TailScans, LastScans, Unwritten, Unread
    <2> QED BY <2>4, <2>5, <2>6 DEF ScansOK
  <1>9. ASSUME NEW p \in Producers, PutWrite(p) PROVE ScansOK'
    <2>4. HeadScans'
      BY <1>9, <1>A, ZenonT(60) DEF Nats, Types, PutWrite, Inv, ScansOK, HeadScans, Unwritten, Unread, ProdRegs, ConsRegs, Regs
    <2>5. TailScans'
      BY <1>9, <1>A DEF Nats, Types, PutWrite, Inv, ScansOK, TailScans, Unwritten, Unread, ProdRegs, ConsRegs, Regs
    <2>6. LastScans'
      BY <1>9, <1>A DEF Nats, Types, PutWrite, Inv, ScansOK, LastScans, Unwritten, Unread, ProdRegs, ConsRegs, Regs
    <2> QED BY <2>4, <2>5, <2>6 DEF ScansOK
  <1>10. ASSUME NEW p \in Producers, PutDone(p) PROVE ScansOK'
    <2>4. HeadScans'
      BY <1>10, <1>A DEF Nats, Types, PutDone, Idle, Inv, ScansOK, HeadScans, Unwritten, Unread, ProdRegs, ConsRegs, Regs
    <2>5. TailScans'
      BY <1>10, <1>A DEF Nats, Types, PutDone, Idle, Inv, ScansOK, TailScans, Unwritten, Unread, ProdRegs, ConsRegs, Regs
    <2>6. LastScans'
      BY <1>10, <1>A DEF Nats, Types, PutDone, Idle, Inv, ScansOK, LastScans, Unwritten, Unread, ProdRegs, ConsRegs, Regs
    <2> QED BY <2>4, <2>5, <2>6 DEF ScansOK
  <1>11. ASSUME NEW c \in Consumers, GetBegin(c) PROVE ScansOK'
    <2>4. HeadScans'
      BY <1>11, <1>A DEF Nats, Types, GetBegin, Idle, Inv, ScansOK, HeadScans, Unwritten, Unread, ProdRegs, ConsRegs, Regs
    <2>5. TailScans'
      BY <1>11, <1>A DEF Nats, Types, GetBegin, Idle, Inv, ScansOK, TailScans, Unwritten, Unread, ProdRegs, ConsRegs, Regs
    <2>6. LastScans'
      BY <1>11, <1>A DEF Nats, Types, GetBegin, Idle, Inv, ScansOK, LastScans, Unwritten, Unread, ProdRegs, ConsRegs, Regs
    <2> QED BY <2>4, <2>5, <2>6 DEF ScansOK
  <1>12. ASSUME NEW c \in Consumers, GetAnnounce(c) PROVE ScansOK'
    <2>4. HeadScans'
      BY <1>12, <1>A DEF Nats, Types, GetAnnounce, Inv, ScansOK, HeadScans, Unwritten, Unread, ProdRegs, ConsRegs, Regs
    <2>5. TailScans'
      BY <1>12, <1>A, ZenonT(60) DEF Nats, Types, GetAnnounce, Inv, ScansOK, TailScans, Unwritten, Unread, ProdRegs, ConsRegs, Regs
    <2>6. LastScans'
      BY <1>12, <1>A DEF Nats, Types, GetAnnounce, Inv, ScansOK, LastScans, Unwritten, Unread, ProdRegs, ConsRegs, Regs
    <2> QED BY <2>4, <2>5, <2>6 DEF ScansOK
  <1>13. ASSUME NEW c \in Consumers, GetClaim(c) PROVE ScansOK'
    <2>1. cons[c].at = "claim" /\ cons'[c].at = "store" /\ cons'[c].pos = tail /\ tail' = tail + 1
      BY <1>13, <1>A DEF Types, GetClaim, ConsRegs, Regs
    <2>2. (\A x \in Consumers \ {c} : cons'[x] = cons[x]) /\ UNCHANGED <<head, lastHead, lastTail, clientHead, clientTail, prod>>
      BY <1>13, <1>A DEF Types, GetClaim
    <2>4. HeadScans'
      BY <1>A, <2>1, <2>2 DEF Nats, Inv, AnnouncedOK, PutsAnnounced, ScansOK, HeadScans, Unwritten, Lower
    <2>5. TailScans'
      BY <1>A, <2>1, <2>2 DEF Nats, Inv, AnnouncedOK, GetsAnnounced, ScansOK, TailScans, Unread, Lower
    <2>6. LastScans'
      BY <1>A, <2>1, <2>2 DEF Nats, Inv, BoundsOK, ScansOK, HeadScans, TailScans, LastScans, Unwritten, Unread
    <2> QED BY <2>4, <2>5, <2>6 DEF ScansOK
  <1>14. ASSUME NEW c \in Consumers, GetStore(c) PROVE ScansOK'
    <2>4. HeadScans'
      BY <1>14, <1>A DEF Nats, Types, GetStore, Inv, ScansOK, HeadScans, Unwritten, Unread, ProdRegs, ConsRegs, Regs
    <2>5. TailScans'
      BY <1>14, <1>A DEF Nats, Types, GetStore, Inv, ScansOK, TailScans, Unwritten, Unread, ProdRegs, ConsRegs, Regs
    <2>6. LastScans'
      BY <1>14, <1>A DEF Nats, Types, GetStore, Inv, ScansOK, LastScans, Unwritten, Unread, ProdRegs, ConsRegs, Regs
    <2> QED BY <2>4, <2>5, <2>6 DEF ScansOK
  <1>15. ASSUME NEW c \in Consumers, GetTest(c) PROVE ScansOK'
    <2>4. HeadScans'
      BY <1>15, <1>A DEF Nats, Types, GetTest, Inv, ScansOK, HeadScans, Unwritten, Unread, ProdRegs, ConsRegs, Regs
    <2>5. TailScans'
      BY <1>15, <1>A DEF Nats, Types, GetTest, Inv, ScansOK, TailScans, Unwritten, Unread, ProdRegs, ConsRegs, Regs
    <2>6. LastScans'
      BY <1>15, <1>A DEF Nats, Types, GetTest, Inv, ScansOK, LastScans, Unwritten, Unread, ProdRegs, ConsRegs, Regs
    <2> QED BY <2>4, <2>5, <2>6 DEF ScansOK
  <1>16. ASSUME NEW c \in Consumers, GetReadHead(c) PROVE ScansOK'
    <2>1. cons'[c].at = "scan" /\ cons'[c].pos = cons[c].pos /\ cons[c].at = "readHead"
          /\ cons'[c].min = head /\ cons'[c].i = 0
      BY <1>16, <1>A DEF Types, GetReadHead, ConsRegs, Regs
    <2>2. (\A x \in Consumers \ {c} : cons'[x] = cons[x]) /\ UNCHANGED <<head, tail, lastHead, lastTail, clientHead, clientTail, prod>>
      BY <1>16, <1>A DEF Types, GetReadHead
    <2>4. HeadScans'
      BY <1>A, <2>1, <2>2 DEF Nats, Inv, AnnouncedOK, PutsAnnounced, ScansOK, HeadScans, Unwritten, Lower
    <2>5. TailScans'
      BY <1>A, <2>1, <2>2 DEF Nats, Inv, AnnouncedOK, GetsAnnounced, ScansOK, TailScans, Unread, Lower
    <2>6. LastScans'
      BY <1>A, <2>1, <2>2 DEF Nats, Inv, BoundsOK, ScansOK, HeadScans, TailScans, LastScans, Unwritten, Unread
    <2> QED BY <2>4, <2>5, <2>6 DEF ScansOK
  <1>17. ASSUME NEW c \in Consumers, GetScan(c) PROVE ScansOK'
    <2>1. cons[c].at = "scan" /\ cons'[c].at = "scan" /\ cons'[c].pos = cons[c].pos
          /\ cons'[c].min = Lower(cons[c].min, clientHead[cons[c].i])
          /\ cons'[c].i = cons[c].i + 1 /\ cons[c].i < NumProducers
      BY <1>17, <1>A DEF Types, GetScan, ConsRegs, Regs
    <2>2. (\A x \in Consumers \ {c} : cons'[x] = cons[x]) /\ UNCHANGED <<head, tail, lastHead, lastTail, clientHead, clientTail, prod>>
      BY <1>17, <1>A DEF Types, GetScan
    <2>4. HeadScans'
      <3>1. cons[c].i \in Producers /\ clientHead[cons[c].i] \in Nat
        BY <1>A, <2>1 DEF Nats, Producers
      <3>2. /\ cons'[c].min <= cons[c].min /\ cons'[c].min <= clientHead[cons[c].i]
            /\ cons'[c].min \in Nat
        BY <1>A, <2>1, <3>1 DEF Nats, Lower
      <3>3. ASSUME NEW p \in Producers, Unwritten(p)
            PROVE  prod[p].pos >= cons'[c].min \/ p >= cons'[c].i
        <4>1. clientHead[p] <= prod[p].pos
          BY <3>3 DEF Inv, AnnouncedOK, PutsAnnounced
        <4>2. prod[p].pos >= cons[c].min \/ p >= cons[c].i
          BY <3>3, <2>1 DEF Inv, ScansOK, HeadScans
        <4> QED BY <4>1, <4>2, <3>1, <3>2, <2>1, <1>A DEF Nats
      <3>4. cons[c].min <= head
        BY <2>1 DEF Inv, ScansOK, HeadScans
      <3>5. cons'[c].min <= head /\ cons'[c].i <= NumProducers
        BY <3>2, <3>4, <2>1, <1>A DEF Nats
      <3> QED BY <2>2, <3>3, <3>5 DEF Inv, ScansOK, HeadScans, Unwritten
    <2>5. TailScans'
      BY <1>A, <2>1, <2>2 DEF Nats, Inv, ScansOK, TailScans, Unread
    <2>6. LastScans'
      BY <1>A, <2>1, <2>2 DEF Nats, Inv, ScansOK, LastScans, Unwritten, Unread
    <2> QED BY <2>4, <2>5, <2>6 DEF ScansOK
  <1>18. ASSUME NEW c \in Consumers, GetScanned(c) PROVE ScansOK'
    <2>1. cons[c].at = "scan" /\ cons'[c].at = "test" /\ cons'[c].pos = cons[c].pos
          /\ cons[c].i = NumProducers /\ lastHead' = cons[c].min
      BY <1>18, <1>A DEF Types, GetScanned, ConsRegs, Regs
    <2>2. (\A x \in Consumers \ {c} : cons'[x] = cons[x]) /\ UNCHANGED <<head, tail, lastTail, clientHead, clientTail, prod>>
      BY <1>18, <1>A DEF Types, GetScanned
    <2>4. HeadScans'
      BY <1>A, <2>1, <2>2 DEF Nats, Inv, AnnouncedOK, PutsAnnounced, ScansOK, HeadScans, Unwritten, Lower
    <2>5. TailScans'
      BY <1>A, <2>1, <2>2 DEF Nats, Inv, AnnouncedOK, GetsAnnounced, ScansOK, TailScans, Unread, Lower
    <2>6. LastScans'
      BY <1>A, <2>1, <2>2 DEF Nats, Inv, BoundsOK, ScansOK, HeadScans, TailScans, LastScans, Unwritten, Unread
    <2> QED BY <2>4, <2>5, <2>6 DEF ScansOK
  <1>19. ASSUME NEW c \in Consumers, GetRead(c) PROVE ScansOK'
    <2>4. HeadScans'
      BY <1>19, <1>A DEF Nats, Types, GetRead, Inv, ScansOK, HeadScans, Unwritten, Unread, ProdRegs, ConsRegs, Regs
    <2>5. TailScans'
      BY <1>19, <1>A DEF Nats, Types, GetRead, Inv, ScansOK, TailScans, Unwritten, Unread, ProdRegs, ConsRegs, Regs
    <2>6. LastScans'
      BY <1>19, <1>A DEF Nats, Types, GetRead, Inv, ScansOK, LastScans, Unwritten, Unread, ProdRegs, ConsRegs, Regs
    <2> QED BY <2>4, <2>5, <2>6 DEF ScansOK
  <1>20. ASSUME NEW c \in Consumers, GetDone(c) PROVE ScansOK'
    <2>4. HeadScans'
      BY <1>20, <1>A DEF Nats, Types, GetDone, Idle, Inv, ScansOK, HeadScans, Unwritten, Unread, ProdRegs, ConsRegs, Regs
    <2>5. TailScans'
      BY <1>20, <1>A DEF Nats, Types, GetDone, Idle, Inv, ScansOK, TailScans, Unwritten, Unread, ProdRegs, ConsRegs, Regs
    <2>6. LastScans'
      BY <1>20, <1>A DEF Nats, Types, GetDone, Idle, Inv, ScansOK, LastScans, Unwritten, Unread, ProdRegs, ConsRegs, Regs
    <2> QED BY <2>4, <2>5, <2>6 DEF ScansOK
  <1> QED BY <1>1, <1>2, <1>3, <1>4, <1>5, <1>6, <1>7, <1>8, <1>9, <1>10, 
         <1>11, <1>12, <1>13, <1>14, <1>15, <1>16, <1>17, <1>18, <1>19, <1>20 DEF RingNext, PutStep, GetStep

(* What a step may do to the written and the read positions: nothing, but  *)
(* that a Put writes its own and a Get reads its own.                      *)
LEMMA GrowsStep == LockFreeAssumption /\ Inv /\ RingNext => GrowsOnly
  <1> SUFFICES ASSUME LockFreeAssumption, Inv, RingNext PROVE GrowsOnly
    OBVIOUS
  <1> USE DEF LockFreeAssumption
  <1>A. Types /\ Nats
    BY Typed DEF Inv
  <1>1. ASSUME NEW p \in Producers, PutBegin(p) PROVE GrowsOnly
    BY <1>1, <1>A DEF Nats, Types, PutBegin, Idle, Written, Read, Unwritten, Unread, ProdRegs, ConsRegs, Regs, GrowsOnly
  <1>2. ASSUME NEW p \in Producers, PutAnnounce(p) PROVE GrowsOnly
    BY <1>2, <1>A DEF Nats, Types, PutAnnounce, Written, Read, Unwritten, Unread, ProdRegs, ConsRegs, Regs, GrowsOnly
  <1>3. ASSUME NEW p \in Producers, PutClaim(p) PROVE GrowsOnly
    <2>1. prod[p].at = "claim" /\ prod'[p].at = "store" /\ prod'[p].pos = head /\ head' = head + 1
      BY <1>3, <1>A DEF Types, PutClaim, ProdRegs, Regs
    <2>2. (\A x \in Producers \ {p} : prod'[x] = prod[x]) /\ UNCHANGED <<tail, lastHead, lastTail, clientHead, clientTail, cons>>
      BY <1>3, <1>A DEF Types, PutClaim
    <2> QED BY <1>A, <2>1, <2>2 DEF Nats, Inv, AnnouncedOK, PutsAnnounced, GetsAnnounced, GrowsOnly, Written, Read, Unwritten, Unread
  <1>4. ASSUME NEW p \in Producers, PutStore(p) PROVE GrowsOnly
    BY <1>4, <1>A, SMTT(30) DEF Nats, Types, PutStore, Written, Read, Unwritten, Unread, ProdRegs, ConsRegs, Regs, GrowsOnly
  <1>5. ASSUME NEW p \in Producers, PutTest(p) PROVE GrowsOnly
    BY <1>5, <1>A, ZenonT(60) DEF Nats, Types, PutTest, Written, Read, Unwritten, Unread, ProdRegs, ConsRegs, Regs, GrowsOnly
  <1>6. ASSUME NEW p \in Producers, PutReadTail(p) PROVE GrowsOnly
    <2>1. prod'[p].at = "scan" /\ prod'[p].pos = prod[p].pos /\ prod[p].at = "readTail"
          /\ prod'[p].min = tail /\ prod'[p].i = 0
      BY <1>6, <1>A DEF Types, PutReadTail, ProdRegs, Regs
    <2>2. (\A x \in Producers \ {p} : prod'[x] = prod[x]) /\ UNCHANGED <<head, tail, lastHead, lastTail, clientHead, clientTail, cons>>
      BY <1>6, <1>A DEF Types, PutReadTail
    <2> QED BY <1>A, <2>1, <2>2 DEF Nats, Inv, AnnouncedOK, PutsAnnounced, GetsAnnounced, GrowsOnly, Written, Read, Unwritten, Unread
  <1>7. ASSUME NEW p \in Producers, PutScan(p) PROVE GrowsOnly
    <2>1. prod[p].at = "scan" /\ prod'[p].at = "scan" /\ prod'[p].pos = prod[p].pos
          /\ prod'[p].min = Lower(prod[p].min, clientTail[prod[p].i])
          /\ prod'[p].i = prod[p].i + 1 /\ prod[p].i < NumConsumers
      BY <1>7, <1>A DEF Types, PutScan, ProdRegs, Regs
    <2>2. (\A x \in Producers \ {p} : prod'[x] = prod[x]) /\ UNCHANGED <<head, tail, lastHead, lastTail, clientHead, clientTail, cons>>
      BY <1>7, <1>A DEF Types, PutScan
    <2> QED BY <1>A, <2>1, <2>2 DEF Nats, Inv, AnnouncedOK, PutsAnnounced, GetsAnnounced, GrowsOnly, Written, Read, Unwritten, Unread
  <1>8. ASSUME NEW p \in Producers, PutScanned(p) PROVE GrowsOnly
    <2>1. prod[p].at = "scan" /\ prod'[p].at = "test" /\ prod'[p].pos = prod[p].pos
          /\ prod[p].i = NumConsumers /\ lastTail' = prod[p].min
      BY <1>8, <1>A DEF Types, PutScanned, ProdRegs, Regs
    <2>2. (\A x \in Producers \ {p} : prod'[x] = prod[x]) /\ UNCHANGED <<head, tail, lastHead, clientHead, clientTail, cons>>
      BY <1>8, <1>A DEF Types, PutScanned
    <2> QED BY <1>A, <2>1, <2>2 DEF Nats, Inv, AnnouncedOK, PutsAnnounced, GetsAnnounced, GrowsOnly, Written, Read, Unwritten, Unread
  <1>9. ASSUME NEW p \in Producers, PutWrite(p) PROVE GrowsOnly
    BY <1>9, <1>A, ZenonT(60) DEF Nats, Types, PutWrite, Written, Read, Unwritten, Unread, ProdRegs, ConsRegs, Regs, GrowsOnly
  <1>10. ASSUME NEW p \in Producers, PutDone(p) PROVE GrowsOnly
    BY <1>10, <1>A DEF Nats, Types, PutDone, Idle, Written, Read, Unwritten, Unread, ProdRegs, ConsRegs, Regs, GrowsOnly
  <1>11. ASSUME NEW c \in Consumers, GetBegin(c) PROVE GrowsOnly
    BY <1>11, <1>A DEF Nats, Types, GetBegin, Idle, Written, Read, Unwritten, Unread, ProdRegs, ConsRegs, Regs, GrowsOnly
  <1>12. ASSUME NEW c \in Consumers, GetAnnounce(c) PROVE GrowsOnly
    BY <1>12, <1>A DEF Nats, Types, GetAnnounce, Written, Read, Unwritten, Unread, ProdRegs, ConsRegs, Regs, GrowsOnly
  <1>13. ASSUME NEW c \in Consumers, GetClaim(c) PROVE GrowsOnly
    <2>1. cons[c].at = "claim" /\ cons'[c].at = "store" /\ cons'[c].pos = tail /\ tail' = tail + 1
      BY <1>13, <1>A DEF Types, GetClaim, ConsRegs, Regs
    <2>2. (\A x \in Consumers \ {c} : cons'[x] = cons[x]) /\ UNCHANGED <<head, lastHead, lastTail, clientHead, clientTail, prod>>
      BY <1>13, <1>A DEF Types, GetClaim
    <2> QED BY <1>A, <2>1, <2>2 DEF Nats, Inv, AnnouncedOK, PutsAnnounced, GetsAnnounced, GrowsOnly, Written, Read, Unwritten, Unread
  <1>14. ASSUME NEW c \in Consumers, GetStore(c) PROVE GrowsOnly
    BY <1>14, <1>A, SMTT(30) DEF Nats, Types, GetStore, Written, Read, Unwritten, Unread, ProdRegs, ConsRegs, Regs, GrowsOnly
  <1>15. ASSUME NEW c \in Consumers, GetTest(c) PROVE GrowsOnly
    BY <1>15, <1>A, ZenonT(60) DEF Nats, Types, GetTest, Written, Read, Unwritten, Unread, ProdRegs, ConsRegs, Regs, GrowsOnly
  <1>16. ASSUME NEW c \in Consumers, GetReadHead(c) PROVE GrowsOnly
    <2>1. cons'[c].at = "scan" /\ cons'[c].pos = cons[c].pos /\ cons[c].at = "readHead"
          /\ cons'[c].min = head /\ cons'[c].i = 0
      BY <1>16, <1>A DEF Types, GetReadHead, ConsRegs, Regs
    <2>2. (\A x \in Consumers \ {c} : cons'[x] = cons[x]) /\ UNCHANGED <<head, tail, lastHead, lastTail, clientHead, clientTail, prod>>
      BY <1>16, <1>A DEF Types, GetReadHead
    <2> QED BY <1>A, <2>1, <2>2 DEF Nats, Inv, AnnouncedOK, PutsAnnounced, GetsAnnounced, GrowsOnly, Written, Read, Unwritten, Unread
  <1>17. ASSUME NEW c \in Consumers, GetScan(c) PROVE GrowsOnly
    <2>1. cons[c].at = "scan" /\ cons'[c].at = "scan" /\ cons'[c].pos = cons[c].pos
          /\ cons'[c].min = Lower(cons[c].min, clientHead[cons[c].i])
          /\ cons'[c].i = cons[c].i + 1 /\ cons[c].i < NumProducers
      BY <1>17, <1>A DEF Types, GetScan, ConsRegs, Regs
    <2>2. (\A x \in Consumers \ {c} : cons'[x] = cons[x]) /\ UNCHANGED <<head, tail, lastHead, lastTail, clientHead, clientTail, prod>>
      BY <1>17, <1>A DEF Types, GetScan
    <2> QED BY <1>A, <2>1, <2>2 DEF Nats, Inv, AnnouncedOK, PutsAnnounced, GetsAnnounced, GrowsOnly, Written, Read, Unwritten, Unread
  <1>18. ASSUME NEW c \in Consumers, GetScanned(c) PROVE GrowsOnly
    <2>1. cons[c].at = "scan" /\ cons'[c].at = "test" /\ cons'[c].pos = cons[c].pos
          /\ cons[c].i = NumProducers /\ lastHead' = cons[c].min
      BY <1>18, <1>A DEF Types, GetScanned, ConsRegs, Regs
    <2>2. (\A x \in Consumers \ {c} : cons'[x] = cons[x]) /\ UNCHANGED <<head, tail, lastTail, clientHead, clientTail, prod>>
      BY <1>18, <1>A DEF Types, GetScanned
    <2> QED BY <1>A, <2>1, <2>2 DEF Nats, Inv, AnnouncedOK, PutsAnnounced, GetsAnnounced, GrowsOnly, Written, Read, Unwritten, Unread
  <1>19. ASSUME NEW c \in Consumers, GetRead(c) PROVE GrowsOnly
    BY <1>19, <1>A DEF Nats, Types, GetRead, Written, Read, Unwritten, Unread, ProdRegs, ConsRegs, Regs, GrowsOnly
  <1>20. ASSUME NEW c \in Consumers, GetDone(c) PROVE GrowsOnly
    BY <1>20, <1>A DEF Nats, Types, GetDone, Idle, Written, Read, Unwritten, Unread, ProdRegs, ConsRegs, Regs, GrowsOnly
  <1> QED BY <1>1, <1>2, <1>3, <1>4, <1>5, <1>6, <1>7, <1>8, <1>9, <1>10, 
         <1>11, <1>12, <1>13, <1>14, <1>15, <1>16, <1>17, <1>18, <1>19, <1>20 DEF RingNext, PutStep, GetStep

(* A step changes the registers of the one client that takes it ...        *)
LEMMA OneClient ==
    ASSUME LockFreeAssumption, Inv, RingNext
    PROVE  /\ \A p \in Producers : prod'[p] = prod[p] \/ PutBegin(p) \/ PutStep(p)
           /\ \A c \in Consumers : cons'[c] = cons[c] \/ GetBegin(c) \/ GetStep(c)
  <1>0. Types
    BY Typed DEF Inv
  <1>1. ASSUME NEW q \in Producers, PutBegin(q) \/ PutStep(q)
        PROVE  (\A p \in Producers : p # q => prod'[p] = prod[p]) /\ cons' = cons
    BY <1>0, <1>1 DEF Types, PutStep, PutBegin, PutAnnounce, PutClaim, PutStore, PutTest, PutReadTail,
       PutScan, PutScanned, PutWrite, PutDone
  <1>2. ASSUME NEW q \in Consumers, GetBegin(q) \/ GetStep(q)
        PROVE  (\A c \in Consumers : c # q => cons'[c] = cons[c]) /\ prod' = prod
    BY <1>0, <1>2 DEF Types, GetStep, GetBegin, GetAnnounce, GetClaim, GetStore, GetTest, GetReadHead,
       GetScan, GetScanned, GetRead, GetDone
  <1> QED BY <1>1, <1>2 DEF RingNext

(* ... and a slot, or a result, only when it is PutWrite, or GetRead.      *)
LEMMA OnlyWritten ==
    ASSUME RingNext
    PROVE  /\ ~(\E p \in Producers : PutWrite(p)) => data' = data
           /\ ~(\E c \in Consumers : GetRead(c)) => got' = got
  <1>1. ASSUME NEW p \in Producers, PutBegin(p) \/ PutStep(p)
        PROVE  got' = got /\ (data' = data \/ PutWrite(p))
    BY <1>1 DEF PutStep, PutBegin, PutAnnounce, PutClaim, PutStore, PutTest, PutReadTail,
       PutScan, PutScanned, PutWrite, PutDone
  <1>2. ASSUME NEW c \in Consumers, GetBegin(c) \/ GetStep(c)
        PROVE  data' = data /\ (got' = got \/ GetRead(c))
    BY <1>2 DEF GetStep, GetBegin, GetAnnounce, GetClaim, GetStore, GetTest, GetReadHead,
       GetScan, GetScanned, GetRead, GetDone
  <1> QED BY <1>1, <1>2 DEF RingNext

(* A Get is let through to a written position, a Put to a slot of which    *)
(* every earlier round has been read; what has been let through stays so.  *)
LEMMA PassedStep == LockFreeAssumption /\ Inv /\ RingNext => PassedOK'
  <1> SUFFICES ASSUME LockFreeAssumption, Inv, RingNext PROVE PassedOK'
    OBVIOUS
  <1> USE DEF LockFreeAssumption
  <1>A. Types /\ Nats
    BY Typed DEF Inv
  <1>B. GrowsOnly
    BY GrowsStep
  <1>1. ASSUME NEW c \in Consumers, cons'[c].at = "read" PROVE Written(cons[c].pos)'
    <2>1. cons'[c].pos = cons[c].pos /\ (cons[c].at = "read" \/ cons[c].pos < lastHead)
      <3>1. CASE cons[c] = cons'[c]
        BY <3>1, <1>1
      <3>2. CASE GetBegin(c) \/ GetStep(c)
        <4>1. CASE GetTest(c)
          BY <4>1, <1>1, <1>A, SMTT(30) DEF GetTest, Types, Nats, ConsRegs, Regs
        <4>2. CASE GetBegin(c)
          BY <4>2, <1>1, <1>A DEF GetBegin, Idle, Types, ConsRegs, Regs
        <4>3. CASE GetAnnounce(c)
          BY <4>3, <1>1, <1>A DEF GetAnnounce, Types, ConsRegs, Regs
        <4>4. CASE GetClaim(c)
          BY <4>4, <1>1, <1>A DEF GetClaim, Types, ConsRegs, Regs
        <4>5. CASE GetStore(c)
          BY <4>5, <1>1, <1>A DEF GetStore, Types, ConsRegs, Regs
        <4>6. CASE GetReadHead(c)
          BY <4>6, <1>1, <1>A DEF GetReadHead, Types, ConsRegs, Regs
        <4>7. CASE GetScan(c)
          BY <4>7, <1>1, <1>A DEF GetScan, Types, ConsRegs, Regs
        <4>8. CASE GetScanned(c)
          BY <4>8, <1>1, <1>A DEF GetScanned, Types, ConsRegs, Regs
        <4>9. CASE GetRead(c)
          BY <4>9, <1>1, <1>A DEF GetRead, Types, ConsRegs, Regs
        <4>10. CASE GetDone(c)
          BY <4>10, <1>1, <1>A DEF GetDone, Idle, Types, ConsRegs, Regs
        <4> QED BY <3>2, <4>1, <4>2, <4>3, <4>4, <4>5, <4>6, <4>7, <4>8, <4>9, <4>10 DEF GetStep
      <3> QED BY <3>1, <3>2, OneClient
    <2>2. Written(cons[c].pos)
      <3>1. CASE cons[c].at = "read"
        BY <3>1 DEF Inv, PassedOK
      <3>2. CASE cons[c].pos < lastHead
        BY <3>2, <1>A DEF Inv, BoundsOK, ScansOK, LastScans, Written, Nats
      <3> QED BY <2>1, <3>1, <3>2
    <2>3. cons[c].pos \in Nat
      BY <1>A DEF Nats
    <2> QED BY <2>1, <2>2, <2>3, <1>B DEF GrowsOnly, Written
  <1>2. ASSUME NEW p \in Producers, prod'[p].at = "write",
               NEW j \in Positions, j <= prod'[p].pos - QSize
        PROVE  Read(j)'
    <2>1. prod'[p].pos = prod[p].pos
          /\ (prod[p].at = "write" \/ prod[p].pos < lastTail + QSize)
      <3>1. CASE prod[p] = prod'[p]
        BY <3>1, <1>2
      <3>2. CASE PutBegin(p) \/ PutStep(p)
        <4>1. CASE PutTest(p)
          BY <4>1, <1>2, <1>A, SMTT(30) DEF PutTest, Types, Nats, ProdRegs, Regs
        <4>2. CASE PutBegin(p)
          BY <4>2, <1>2, <1>A DEF PutBegin, Idle, Types, ProdRegs, Regs
        <4>3. CASE PutAnnounce(p)
          BY <4>3, <1>2, <1>A DEF PutAnnounce, Types, ProdRegs, Regs
        <4>4. CASE PutClaim(p)
          BY <4>4, <1>2, <1>A DEF PutClaim, Types, ProdRegs, Regs
        <4>5. CASE PutStore(p)
          BY <4>5, <1>2, <1>A DEF PutStore, Types, ProdRegs, Regs
        <4>6. CASE PutReadTail(p)
          BY <4>6, <1>2, <1>A DEF PutReadTail, Types, ProdRegs, Regs
        <4>7. CASE PutScan(p)
          BY <4>7, <1>2, <1>A DEF PutScan, Types, ProdRegs, Regs
        <4>8. CASE PutScanned(p)
          BY <4>8, <1>2, <1>A DEF PutScanned, Types, ProdRegs, Regs
        <4>9. CASE PutWrite(p)
          BY <4>9, <1>2, <1>A DEF PutWrite, Types, ProdRegs, Regs
        <4>10. CASE PutDone(p)
          BY <4>10, <1>2, <1>A DEF PutDone, Idle, Types, ProdRegs, Regs
        <4> QED BY <3>2, <4>1, <4>2, <4>3, <4>4, <4>5, <4>6, <4>7, <4>8, <4>9, <4>10 DEF PutStep
      <3> QED BY <3>1, <3>2, OneClient
    <2>2. j \in Nat
      BY DEF Positions
    <2>3. Read(j)
      <3>1. CASE prod[p].at = "write"
        BY <3>1, <2>1, <1>2 DEF Inv, PassedOK
      <3>2. CASE prod[p].pos < lastTail + QSize
        <4>1. j < lastTail
          BY <3>2, <2>1, <2>2, <1>2, <1>A DEF Nats
        <4> QED BY <4>1, <2>2, <1>A DEF Inv, BoundsOK, ScansOK, LastScans, Read, Nats
      <3> QED BY <2>1, <3>1, <3>2
    <2> QED BY <2>2, <2>3, <1>B DEF GrowsOnly
  <1> QED BY <1>1, <1>2 DEF PassedOK

(* The ring: a Put overwrites only what has been read, and a Get takes out *)
(* what the Put of its position has written.                               *)
LEMMA RingStep == LockFreeAssumption /\ Inv /\ RingNext => RingOK'
  <1> SUFFICES ASSUME LockFreeAssumption, Inv, RingNext, NEW k \in Positions
               PROVE  /\ Written(k)' => \A j \in Positions : j <= k - QSize => Read(j)'
                      /\ Written(k)' /\ ~Read(k)' => data'[Slot(k)] = k
                      /\ Read(k)' => Written(k)' /\ got'[k] # Empty
    BY DEF RingOK, Positions
  <1> USE DEF LockFreeAssumption
  <1>A. Types /\ Nats
    BY Typed DEF Inv
  <1>B. GrowsOnly
    BY GrowsStep
  <1>C. k \in Nat /\ Positions \subseteq Nat /\ k \in 0 .. MaxOps - 1
    BY DEF Positions
  <1>1. Written(k)' => \A j \in Positions : j <= k - QSize => Read(j)'
    <2> SUFFICES ASSUME Written(k)', NEW j \in Positions, j <= k - QSize PROVE Read(j)'
      OBVIOUS
    <2>1. CASE Written(k)
      BY <2>1, <1>B, <1>C DEF Inv, RingOK, GrowsOnly
    <2>2. CASE \E p \in Producers : PutWrite(p) /\ prod[p].pos = k
      BY <2>2, <1>B, <1>C DEF Inv, PassedOK, PutWrite, GrowsOnly
    <2> QED BY <2>1, <2>2, <1>B, <1>C DEF GrowsOnly
  <1>2. ASSUME Written(k)', ~Read(k)' PROVE data'[Slot(k)] = k
    <2>0. Slot(k) \in 0 .. QSize - 1
      BY <1>A, <1>C, SlotType DEF Nats
    <2>1. ASSUME NEW p \in Producers, PutWrite(p) PROVE data'[Slot(k)] = k
      <3> DEFINE m == prod[p].pos
      <3>1. m \in Positions /\ ~Written(m)
        BY <2>1, <1>A, SMTT(30) DEF Inv, AnnouncedOK, PutsAnnounced, Unwritten, Written, PutWrite, Types, Positions
      <3>2. Slot(m) \in 0 .. QSize - 1 /\ data' = [data EXCEPT ![Slot(m)] = m]
        BY <2>1, <1>A, SlotType DEF Nats, PutWrite
      <3>3. \A j \in Positions : j <= m - QSize => Read(j)
        BY <2>1 DEF Inv, PassedOK, PutWrite
      <3>4. Written(k) \/ k = m
        <4>1. ASSUME NEW q \in Producers, PutWrite(q), prod[q].pos = k PROVE k = m
          <5>1. prod[p].at = "write" /\ prod'[p].at = "done"
            BY <2>1, <1>A DEF PutWrite, Types, ProdRegs, Regs
          <5>2. p # q => prod'[p] = prod[p]
            BY <4>1, <1>A DEF PutWrite, Types
          <5> QED BY <4>1, <5>1, <5>2
        <4> QED BY <4>1, <1>2, <1>B, <1>C DEF GrowsOnly
      <3> HIDE DEF m
      <3>5. CASE k = m
        BY <3>5, <3>2, <1>A DEF Types
      <3>6. CASE k # m /\ Written(k)
        <4>1. ~Read(k)
          BY <1>2, <1>B, <1>C DEF GrowsOnly
        <4>2. data[Slot(k)] = k
          BY <4>1, <3>6 DEF Inv, RingOK
        <4>3. ~(k <= m - QSize)
          BY <4>1, <3>3
        <4>4. ~(m <= k - QSize)
          BY <3>1, <3>6 DEF Inv, RingOK
        <4>5. Slot(k) # Slot(m)
          <5>1. m \in Nat /\ QSize \in Nat \ {0}
            BY <3>1, <1>A, <1>C DEF Nats
          <5> QED BY <5>1, <4>3, <4>4, <3>6, <1>C, SlotApart
        <4> QED BY <4>2, <4>5, <3>2, <2>0, <1>A DEF Types
      <3> QED BY <3>4, <3>5, <3>6
    <2>2. CASE ~\E p \in Producers : PutWrite(p)
      <3>1. data' = data
        BY <2>2, OnlyWritten
      <3>2. Written(k) /\ ~Read(k)
        BY <2>2, <1>2, <1>B, <1>C DEF GrowsOnly
      <3> QED BY <3>1, <3>2 DEF Inv, RingOK
    <2> QED BY <2>1, <2>2
  <1>3. ASSUME Read(k)' PROVE Written(k)' /\ got'[k] # Empty
    <2>1. ASSUME NEW c \in Consumers, GetRead(c) PROVE Written(k)' /\ got'[k] # Empty
      <3> DEFINE m == cons[c].pos
      <3>1. m \in Positions /\ Written(m) /\ ~Read(m)
        BY <2>1, <1>A, SMTT(30) DEF Inv, AnnouncedOK, GetsAnnounced, PassedOK, Unread, Read, GetRead, Types, Positions
      <3>2. data[Slot(m)] = m
        BY <3>1 DEF Inv, RingOK
      <3>3. got' = [got EXCEPT ![m] = data[Slot(m)]]
        BY <2>1 DEF GetRead
      <3>4. Read(k) \/ k = m
        <4>1. ASSUME NEW d \in Consumers, GetRead(d), cons[d].pos = k PROVE k = m
          <5>1. cons[c].at = "read" /\ cons'[c].at = "done"
            BY <2>1, <1>A DEF GetRead, Types, ConsRegs, Regs
          <5>2. c # d => cons'[c] = cons[c]
            BY <4>1, <1>A DEF GetRead, Types
          <5> QED BY <4>1, <5>1, <5>2
        <4> QED BY <4>1, <1>3, <1>B, <1>C DEF GrowsOnly
      <3> HIDE DEF m
      <3>5. CASE k = m
        <4>1. got'[k] = k /\ k # Empty
          BY <3>2, <3>3, <3>5, <1>A, <1>C DEF Types, Empty
        <4> QED BY <4>1, <3>1, <3>5, <1>B, <1>C DEF GrowsOnly
      <3>6. CASE k # m /\ Read(k)
        <4>1. got'[k] = got[k]
          BY <3>3, <3>6, <1>A, <1>C DEF Types
        <4> QED BY <4>1, <3>6, <1>B, <1>C DEF GrowsOnly, Inv, RingOK
      <3> QED BY <3>4, <3>5, <3>6
    <2>2. CASE ~\E c \in Consumers : GetRead(c)
      <3>1. got' = got
        BY <2>2, OnlyWritten
      <3>2. Read(k)
        BY <2>2, <1>3, <1>B, <1>C DEF GrowsOnly
      <3> QED BY <3>1, <3>2, <1>B, <1>C DEF Inv, RingOK, GrowsOnly
    <2> QED BY <2>1, <2>2
  <1> QED BY <1>1, <1>2, <1>3

(* Every step keeps the invariant.                                         *)
LEMMA StepInv == LockFreeAssumption /\ Inv /\ [RingNext]_ringVars => Inv'
  <1>1. ASSUME LockFreeAssumption, Inv, RingNext PROVE Inv'
    BY <1>1, TypeStep, BoundsStep, AnnouncedStep, ScansStep, PassedStep, RingStep DEF Inv
  <1>2. ASSUME Inv, UNCHANGED ringVars PROVE Inv'
    BY <1>2 DEF ringVars, Inv, RingTypeOK, BoundsOK, AnnouncedOK, PutsAnnounced, GetsAnnounced, ScansOK,
       HeadScans, TailScans, LastScans, PassedOK, RingOK, Unwritten, Unread, Written, Read, Claiming
  <1> QED BY <1>1, <1>2

-----------------------------------------------------------------------------
(* Put and Get of the ring keep every register, announcement and slot in   *)
(* its range, in every behaviour of the queue.                             *)
THEOREM TypeCorrect == LockFreeAssumption => (RingSpec => []RingTypeOK)
  <1> SUFFICES ASSUME LockFreeAssumption PROVE RingSpec => []RingTypeOK
    OBVIOUS
  <1>1. RingInit => Inv
    BY InitInv
  <1>2. Inv /\ [RingNext]_ringVars => Inv'
    BY StepInv
  <1>3. Inv => RingTypeOK
    BY DEF Inv
  <1> QED BY <1>1, <1>2, <1>3, PTL DEF RingSpec

(* A Get of the ring that is past its wait finds in its slot the pointer   *)
(* of the Put with the same position, however the scans interleave.        *)
THEOREM GetReadsItsPut == LockFreeAssumption => (RingSpec => []ReadsOwnPosition)
  <1> SUFFICES ASSUME LockFreeAssumption PROVE RingSpec => []ReadsOwnPosition
    OBVIOUS
  <1>1. RingInit => Inv
    BY InitInv
  <1>2. Inv /\ [RingNext]_ringVars => Inv'
    BY StepInv
  <1>3. Inv => ReadsOwnPosition
    <2> SUFFICES ASSUME Inv, NEW c \in Consumers, cons[c].at = "read"
                 PROVE  data[Slot(cons[c].pos)] = cons[c].pos
      BY DEF ReadsOwnPosition
    <2>1. cons[c].pos \in Positions
      <3>1. Types
        BY Typed DEF Inv
      <3> QED BY <3>1 DEF Inv, AnnouncedOK, GetsAnnounced, Unread, Types, Positions, LockFreeAssumption
    <2>2. Written(cons[c].pos) /\ ~Read(cons[c].pos)
      BY DEF Inv, PassedOK, Read, Unread
    <2> QED BY <2>1, <2>2 DEF Inv, RingOK
  <1> QED BY <1>1, <1>2, <1>3, PTL DEF RingSpec

(* A Put of the ring that is past its wait finds that the pointer of the   *)
(* previous round has been taken out of its slot.                          *)
THEOREM PutOverwritesOnlyRead == LockFreeAssumption => (RingSpec => []NeverOverwritesUnread)
  <1> SUFFICES ASSUME LockFreeAssumption PROVE RingSpec => []NeverOverwritesUnread
    OBVIOUS
  <1>1. RingInit => Inv
    BY InitInv
  <1>2. Inv /\ [RingNext]_ringVars => Inv'
    BY StepInv
  <1>3. Inv => NeverOverwritesUnread
    <2> SUFFICES ASSUME Inv, NEW p \in Producers, prod[p].at = "write", prod[p].pos >= QSize
                 PROVE  got[prod[p].pos - QSize] # Empty
      BY DEF NeverOverwritesUnread
    <2>1. prod[p].pos - QSize \in Positions
      <3>1. Types
        BY Typed DEF Inv
      <3> QED BY <3>1 DEF Inv, AnnouncedOK, PutsAnnounced, Unwritten, Types, Positions, LockFreeAssumption
    <2>2. Read(prod[p].pos - QSize)
      <3> DEFINE j == prod[p].pos - QSize
      <3>1. j \in Positions /\ j <= prod[p].pos - QSize
        BY <2>1 DEF Positions, LockFreeAssumption
      <3> QED BY <3>1 DEF Inv, PassedOK
    <2> QED BY <2>1, <2>2 DEF Inv, RingOK
  <1> QED BY <1>1, <1>2, <1>3, PTL DEF RingSpec
=============================================================================
