--------------------------- MODULE LockFreeQueue ---------------------------
(***************************************************************************)
(* synch::LockFreeProducerConsumerQueue<C> (x86_64 Linux): a ring of       *)
(* q_size_ slots.  Put and Get claim a position with a fetch-and-add of    *)
(* head_ or tail_, announce it in clients_[id], and wait until the scans   *)
(* of the other side's announcements show that the slot is free or filled. *)
(*                                                                         *)
(* One step is one access to shared memory.  Each clients_ field has one   *)
(* writer, plain stores of a thread become visible in program order and    *)
(* the fetch-and-add is a full barrier (x86 TSO), so a delayed store can   *)
(* only leave an older, smaller announcement visible for longer: the same  *)
(* as the store happening later here.  The compiler is assumed to keep the *)
(* order of the two stores that end Put and of the two that end Get.       *)
(***************************************************************************)
EXTENDS Integers, FiniteSets

CONSTANTS
    NumProducers,   \* num_producers_
    NumConsumers,   \* num_consumers_
    QSizeArg,       \* the constructor's q_size
    MaxOps          \* bound: how many Puts, and how many Gets, are made

VARIABLES
    head, tail,           \* head_, tail_
    lastHead, lastTail,   \* last_head_, last_tail_: results of the last scans
    clientHead,           \* clients_[i].head_
    clientTail,           \* clients_[i].tail_
    data,                 \* data_: which Put's pointer each slot holds
    prod,                 \* registers of each producer in Put
    cons,                 \* registers of each consumer in Get
    got                   \* history: position -> the Put it returned

ringVars == <<head, tail, lastHead, lastTail, clientHead, clientTail, data, prod, cons, got>>

-----------------------------------------------------------------------------
Producers == 0 .. NumProducers - 1
Consumers == 0 .. NumConsumers - 1

\* NextPow2(q_size): the smallest power of two that is not less.
QSize == CHOOSE p \in {2 ^ k : k \in 0 .. QSizeArg} :
            /\ p >= QSizeArg
            /\ \A k \in 0 .. QSizeArg : 2 ^ k >= QSizeArg => p <= 2 ^ k

\* The last conjunct is about NextPow2: the power of two it looks for exists.
LockFreeAssumption ==
    /\ NumProducers \in Nat \ {0} /\ NumConsumers \in Nat \ {0}
    /\ QSizeArg \in Nat \ {0}
    /\ MaxOps \in Nat
    /\ QSize \in Nat \ {0}

Slot(pos) == pos % QSize                    \* pos & q_mask_

ULONG_MAX == MaxOps + QSize + 1             \* above every position reached

Empty == -1                                 \* uninitialized data_ slot

\* if (tmp < pos_min) pos_min = tmp
Lower(x, y) == IF y < x THEN y ELSE x

Idle == [at |-> "idle", pos |-> 0, min |-> 0, i |-> 0]

RingInit ==
    /\ head = 0 /\ tail = 0
    /\ lastHead = 0 /\ lastTail = 0
    /\ clientHead = [p \in Producers |-> ULONG_MAX]
    /\ clientTail = [c \in Consumers |-> ULONG_MAX]
    /\ data = [s \in 0 .. QSize - 1 |-> Empty]
    /\ prod = [p \in Producers |-> Idle]
    /\ cons = [c \in Consumers |-> Idle]
    /\ got = [k \in 0 .. MaxOps - 1 |-> Empty]

-----------------------------------------------------------------------------
\* Puts and Gets already past the start and not yet counted in head_, tail_.
Claiming(regs) == Cardinality({x \in DOMAIN regs : regs[x].at \in {"announce", "claim"}})

(* Put: reads head_ ...                                                    *)
PutBegin(p) ==
    /\ prod[p].at = "idle"
    /\ head + Claiming(prod) < MaxOps
    /\ prod' = [prod EXCEPT ![p] = [Idle EXCEPT !.at = "announce", !.pos = head]]
    /\ UNCHANGED <<head, tail, lastHead, lastTail, clientHead, clientTail, data, cons, got>>

(* ... and stores it in clients_[producer_id].head_.                       *)
PutAnnounce(p) ==
    /\ prod[p].at = "announce"
    /\ clientHead' = [clientHead EXCEPT ![p] = prod[p].pos]
    /\ prod' = [prod EXCEPT ![p].at = "claim"]
    /\ UNCHANGED <<head, tail, lastHead, lastTail, clientTail, data, cons, got>>

(* Put: __sync_fetch_and_add(&head_, 1)                                    *)
PutClaim(p) ==
    /\ prod[p].at = "claim"
    /\ head' = head + 1
    /\ prod' = [prod EXCEPT ![p].at = "store", ![p].pos = head]
    /\ UNCHANGED <<tail, lastHead, lastTail, clientHead, clientTail, data, cons, got>>

(* Put: clients_[producer_id].head_ = the claimed position                 *)
PutStore(p) ==
    /\ prod[p].at = "store"
    /\ clientHead' = [clientHead EXCEPT ![p] = prod[p].pos]
    /\ prod' = [prod EXCEPT ![p].at = "test"]
    /\ UNCHANGED <<head, tail, lastHead, lastTail, clientTail, data, cons, got>>

\* Variant: off by one at the full ring.
PutTestOffByOne(p) ==
    /\ prod[p].at = "test"
    /\ prod' = [prod EXCEPT ![p].at = IF prod[p].pos > lastTail + QSize
                                      THEN "readTail" ELSE "write"]
    /\ UNCHANGED <<head, tail, lastHead, lastTail, clientHead, clientTail, data, cons, got>>

(* Put: the loop condition, and the same test after a scan.                *)
PutTest(p) ==
    /\ prod[p].at = "test"
    /\ prod' = [prod EXCEPT ![p].at = IF prod[p].pos >= lastTail + QSize
                                      THEN "readTail" ELSE "write"]
    /\ UNCHANGED <<head, tail, lastHead, lastTail, clientHead, clientTail, data, cons, got>>

(* Put: pos_min = tail_                                                    *)
PutReadTail(p) ==
    /\ prod[p].at = "readTail"
    /\ prod' = [prod EXCEPT ![p].at = "scan", ![p].min = tail, ![p].i = 0]
    /\ UNCHANGED <<head, tail, lastHead, lastTail, clientHead, clientTail, data, cons, got>>

(* Put: one clients_[i].tail_ of the scan                                  *)
PutScan(p) ==
    /\ prod[p].at = "scan"
    /\ prod[p].i < NumConsumers
    /\ prod' = [prod EXCEPT ![p].min = Lower(@, clientTail[prod[p].i]), ![p].i = @ + 1]
    /\ UNCHANGED <<head, tail, lastHead, lastTail, clientHead, clientTail, data, cons, got>>

(* Put: last_tail_ = pos_min                                               *)
PutScanned(p) ==
    /\ prod[p].at = "scan"
    /\ prod[p].i = NumConsumers
    /\ lastTail' = prod[p].min
    /\ prod' = [prod EXCEPT ![p].at = "test", ![p].min = 0, ![p].i = 0]
    /\ UNCHANGED <<head, tail, lastHead, clientHead, clientTail, data, cons, got>>

(* Put: the pointer goes into its slot.  It is named by its position.      *)
PutWrite(p) ==
    /\ prod[p].at = "write"
    /\ data' = [data EXCEPT ![Slot(prod[p].pos)] = prod[p].pos]
    /\ prod' = [prod EXCEPT ![p].at = "done"]
    /\ UNCHANGED <<head, tail, lastHead, lastTail, clientHead, clientTail, cons, got>>

\* Variant: the producer never withdraws its announcement.
PutDoneKeepsHead(p) ==
    /\ prod[p].at = "done"
    /\ prod' = [prod EXCEPT ![p] = Idle]
    /\ UNCHANGED <<head, tail, lastHead, lastTail, clientHead, clientTail, data, cons, got>>

(* Put: clients_[producer_id].head_ = ULONG_MAX                            *)
PutDone(p) ==
    /\ prod[p].at = "done"
    /\ clientHead' = [clientHead EXCEPT ![p] = ULONG_MAX]
    /\ prod' = [prod EXCEPT ![p] = Idle]
    /\ UNCHANGED <<head, tail, lastHead, lastTail, clientTail, data, cons, got>>

-----------------------------------------------------------------------------
(* Get mirrors Put on tail_, with no q_size_ in its tests.                 *)
GetBegin(c) ==
    /\ cons[c].at = "idle"
    /\ tail + Claiming(cons) < MaxOps
    /\ cons' = [cons EXCEPT ![c] = [Idle EXCEPT !.at = "announce", !.pos = tail]]
    /\ UNCHANGED <<head, tail, lastHead, lastTail, clientHead, clientTail, data, prod, got>>

GetAnnounce(c) ==
    /\ cons[c].at = "announce"
    /\ clientTail' = [clientTail EXCEPT ![c] = cons[c].pos]
    /\ cons' = [cons EXCEPT ![c].at = "claim"]
    /\ UNCHANGED <<head, tail, lastHead, lastTail, clientHead, data, prod, got>>

GetClaim(c) ==
    /\ cons[c].at = "claim"
    /\ tail' = tail + 1
    /\ cons' = [cons EXCEPT ![c].at = "store", ![c].pos = tail]
    /\ UNCHANGED <<head, lastHead, lastTail, clientHead, clientTail, data, prod, got>>

GetStore(c) ==
    /\ cons[c].at = "store"
    /\ clientTail' = [clientTail EXCEPT ![c] = cons[c].pos]
    /\ cons' = [cons EXCEPT ![c].at = "test"]
    /\ UNCHANGED <<head, tail, lastHead, lastTail, clientHead, data, prod, got>>

GetTest(c) ==
    /\ cons[c].at = "test"
    /\ cons' = [cons EXCEPT ![c].at = IF cons[c].pos >= lastHead THEN "readHead" ELSE "read"]
    /\ UNCHANGED <<head, tail, lastHead, lastTail, clientHead, clientTail, data, prod, got>>

GetReadHead(c) ==
    /\ cons[c].at = "readHead"
    /\ cons' = [cons EXCEPT ![c].at = "scan", ![c].min = head, ![c].i = 0]
    /\ UNCHANGED <<head, tail, lastHead, lastTail, clientHead, clientTail, data, prod, got>>

GetScan(c) ==
    /\ cons[c].at = "scan"
    /\ cons[c].i < NumProducers
    /\ cons' = [cons EXCEPT ![c].min = Lower(@, clientHead[cons[c].i]), ![c].i = @ + 1]
    /\ UNCHANGED <<head, tail, lastHead, lastTail, clientHead, clientTail, data, prod, got>>

\* Variant: last_head_ = head_, without regard to unfinished producers.
GetScannedHead(c) ==
    /\ cons[c].at = "scan"
    /\ cons[c].i = NumProducers
    /\ lastHead' = head
    /\ cons' = [cons EXCEPT ![c].at = "test", ![c].min = 0, ![c].i = 0]
    /\ UNCHANGED <<head, tail, lastTail, clientHead, clientTail, data, prod, got>>

GetScanned(c) ==
    /\ cons[c].at = "scan"
    /\ cons[c].i = NumProducers
    /\ lastHead' = cons[c].min
    /\ cons' = [cons EXCEPT ![c].at = "test", ![c].min = 0, ![c].i = 0]
    /\ UNCHANGED <<head, tail, lastTail, clientHead, clientTail, data, prod, got>>

(* Get: C* ret = data_[...]                                                *)
GetRead(c) ==
    /\ cons[c].at = "read"
    /\ got' = [got EXCEPT ![cons[c].pos] = data[Slot(cons[c].pos)]]
    /\ cons' = [cons EXCEPT ![c].at = "done"]
    /\ UNCHANGED <<head, tail, lastHead, lastTail, clientHead, clientTail, data, prod>>

GetDone(c) ==
    /\ cons[c].at = "done"
    /\ clientTail' = [clientTail EXCEPT ![c] = ULONG_MAX]
    /\ cons' = [cons EXCEPT ![c] = Idle]
    /\ UNCHANGED <<head, tail, lastHead, lastTail, clientHead, data, prod, got>>

-----------------------------------------------------------------------------
PutStep(p) == \/ PutAnnounce(p) \/ PutClaim(p) \/ PutStore(p) \/ PutTest(p)
              \/ PutReadTail(p) \/ PutScan(p) \/ PutScanned(p) \/ PutWrite(p) \/ PutDone(p)

GetStep(c) == \/ GetAnnounce(c) \/ GetClaim(c) \/ GetStore(c) \/ GetTest(c)
              \/ GetReadHead(c) \/ GetScan(c) \/ GetScanned(c) \/ GetRead(c) \/ GetDone(c)

RingNext == \/ \E p \in Producers : PutBegin(p) \/ PutStep(p)
            \/ \E c \in Consumers : GetBegin(c) \/ GetStep(c)

(* A thread inside Put or Get keeps running (it spins or sleeps a fixed    *)
(* time, it never waits to be woken).  Nobody has to call.                 *)
RingSpec == RingInit /\ [][RingNext]_ringVars
FairRingSpec ==
    /\ RingSpec
    /\ \A p \in Producers : WF_ringVars(PutStep(p))
    /\ \A c \in Consumers : WF_ringVars(GetStep(c))

-----------------------------------------------------------------------------
Regs(places) == [at : places, pos : 0 .. MaxOps, min : 0 .. MaxOps, i : 0 .. NumProducers + NumConsumers]

(* Type invariant; every announced position is one that was handed out, or *)
(* ULONG_MAX.                                                              *)
RingTypeOK ==
    /\ head \in 0 .. MaxOps /\ tail \in 0 .. MaxOps
    /\ lastHead \in 0 .. MaxOps /\ lastTail \in 0 .. MaxOps
    /\ clientHead \in [Producers -> 0 .. MaxOps \cup {ULONG_MAX}]
    /\ clientTail \in [Consumers -> 0 .. MaxOps \cup {ULONG_MAX}]
    /\ data \in [0 .. QSize - 1 -> 0 .. MaxOps \cup {Empty}]
    /\ prod \in [Producers -> Regs({"idle", "announce", "claim", "store", "test",
                                    "readTail", "scan", "write", "done"})]
    /\ cons \in [Consumers -> Regs({"idle", "announce", "claim", "store", "test",
                                    "readHead", "scan", "read", "done"})]
    /\ got \in [0 .. MaxOps - 1 -> 0 .. MaxOps \cup {Empty}]

(* A Get is about to read its slot only when the slot holds the pointer of *)
(* the Put with the same position: never one not yet written, never one of *)
(* the next round of the ring.  So each pointer is returned once, in the   *)
(* order in which the Puts claimed their positions.                        *)
ReadsOwnPosition ==
    \A c \in Consumers : cons[c].at = "read" => data[Slot(cons[c].pos)] = cons[c].pos

(* A Put is about to write its slot only when the pointer of the previous  *)
(* round has been read.                                                    *)
NeverOverwritesUnread ==
    \A p \in Producers : prod[p].at = "write" /\ prod[p].pos >= QSize =>
        got[prod[p].pos - QSize] # Empty

(* A Get whose Put has been made returns, however the scans of the other   *)
(* consumers interfere.                                                    *)
GetReturns == \A c \in Consumers :
    (cons[c].at \in {"test", "readHead", "scan"} /\ cons[c].pos < head)
        ~> (cons[c].at = "idle")
=============================================================================
