----------------------------- MODULE RaftServer -----------------------------
(***************************************************************************)
(* raft::Server: elections, log replication, commit and the Save call of   *)
(* the clients, with RPCs that are lost, repeated or late, and servers     *)
(* that crash and restart.                                                 *)
(*                                                                         *)
(* Every handler runs under mutex_, so it is one step.  A log position is  *)
(* the number of the record: each record is flushed into blocks of its     *)
(* own, so LogWriter::Tell() is Len(log), and the reader stands at p + 1   *)
(* after it has read the record at p (positions within one log file; the   *)
(* file boundary belongs to logio).  The null LogPos is -1.                *)
(*                                                                         *)
(* Whatever SaveStateLocked writes is in srv too: at the end of a handler  *)
(* the state file and the members agree, so a crash between handlers keeps *)
(* exactly the persistent members.  CrashInSave and CrashInAppend are the  *)
(* crashes inside a handler, after the log and before the state file.      *)
(***************************************************************************)
EXTENDS Integers, Sequences, FiniteSets, SequencesExt

CONSTANTS
    Servers,       \* the nodes of the group
    Values,        \* what clients save
    UninitVotes,   \* what the uninitialized candidate_votes_out_ may hold
    MaxTerm,       \* bound: no election is started from this term on
    MaxLog,        \* bound: no Save at a leader with so many records
    MaxEntries,    \* the records that fill max_entries_size_
    MaxFailures,   \* bound: RPCs that fail at the caller
    MaxRetries,    \* bound: RPCs that are executed once more
    MaxCrashes,    \* bound: crashes
    CrashPoints    \* where the crashes happen: "idle", "save", "append"

ASSUME RaftAssumption ==
    /\ IsFiniteSet(Servers)
    /\ UninitVotes \subseteq Int /\ UninitVotes # {}
    /\ MaxTerm \in Nat /\ MaxLog \in Nat /\ MaxEntries \in Nat \ {0}
    /\ MaxFailures \in Nat /\ MaxRetries \in Nat /\ MaxCrashes \in Nat
    /\ CrashPoints \subseteq {"idle", "save", "append"}

VARIABLES
    srv,           \* the members of each Server
    calls,         \* the RPCs under way
    acked,         \* history: <<server, pos, value>> of Saves answered committed
    budget         \* what is left of the failures, retries and crashes

vars == <<srv, calls, acked, budget>>

-----------------------------------------------------------------------------
Null == -1                                  \* io::LogPos()
NoOne == "none"                             \* voted_for_ and leader_id_ of -1
NoResp == [answered |-> FALSE]

ASSUME NoOneAssumption == NoOne \notin Servers

Tell(s) == Len(s.log)                       \* log_writer_->Tell()
Record(s, p) == s.log[p + 1]                \* the record at position p

\* The record PullNext reads after Seek(p); Seek of the null position rewinds.
PullPos(p) == IF p = Null THEN 0 ELSE p
CanPull(s, p) == PullPos(p) < Tell(s)

NewNode == [next |-> Null, last |-> Null, lastTerm |-> 0, match |-> Null,
            inTransfer |-> FALSE]

\* What the constructor and Initialize leave of the volatile members.
Restarted(s, votes) ==
    [s EXCEPT !.up = TRUE, !.role = "follower", !.leaderId = NoOne,
              !.votes = {}, !.votesOut = votes, !.waiters = {},
              !.node = [j \in Servers |-> NewNode]]

\* A result of a handler: the new members and the RPCs it started.
Just(s) == [s |-> s, sent |-> {}]

\* CHECK failed: the process aborts.
Abort(s) == Just([s EXCEPT !.up = FALSE, !.aborted = TRUE])

Call(kind, i, j, req) ==
    [kind |-> kind, from |-> i, to |-> j, req |-> req, resp |-> NoResp, live |-> TRUE]

Init ==
    /\ srv \in [Servers ->
         {[up |-> TRUE, aborted |-> FALSE, term |-> 0, votedFor |-> NoOne,
           lastPos |-> Null, lastTerm |-> 0, commit |-> Null, log |-> << >>,
           role |-> "follower", leaderId |-> NoOne, votes |-> {},
           votesOut |-> n, waiters |-> {},
           node |-> [j \in Servers |-> NewNode]] : n \in UninitVotes}]
    /\ calls = {}
    /\ acked = {}
    /\ budget = [fail |-> MaxFailures, retry |-> MaxRetries, crash |-> MaxCrashes]

-----------------------------------------------------------------------------
\* Where the loop that fills a request from position p on ends: at the end of
\* the log or with the record that reaches max_entries_size_.
SendsUpTo(s, p) == IF Tell(s) <= p + MaxEntries THEN Tell(s) ELSE p + MaxEntries

(* SendAppendEntriesToNodeLocked(node, false, max_entries_size_): the      *)
(* records from next_log_pos_ on, as many as fit.                          *)
SendAppendEntries(s, i, j) ==
    LET n == s.node[j]
        upTo == SendsUpTo(s, n.next)
        entries == SubSeq(s.log, n.next + 1, upTo)
        req == [term |-> s.term, leader |-> i, lastTerm |-> n.lastTerm,
                lastPos |-> n.last, commit |-> s.commit, entries |-> entries]
        moved == IF entries = << >> THEN n
                 ELSE [n EXCEPT !.next = upTo, !.last = Last(entries).pos,
                                !.lastTerm = Last(entries).term]
    IN  IF n.inTransfer THEN Just(s)
        ELSE [s |-> [s EXCEPT !.node[j] = [moved EXCEPT !.inTransfer = TRUE]],
              sent |-> {Call("append", i, j, req)}]

(* SendAppendEntriesToNodeLocked(node, true, 1): only the record at p.     *)
SendFilledEntry(s, i, j, p) ==
    LET e == Record(s, p)
        req == [term |-> s.term, leader |-> i, lastTerm |-> e.prevTerm,
                lastPos |-> e.prevPos, commit |-> s.commit, entries |-> <<e>>]
    IN  [s |-> [s EXCEPT !.node[j] = [@ EXCEPT !.next = p + 1, !.last = e.pos,
                                               !.lastTerm = e.term, !.inTransfer = TRUE]],
         sent |-> {Call("append", i, j, req)}]

(* The sends to every other node of SendHeartbeatToFollowersLocked, and of *)
(* the loop in Save for the nodes in Js.                                   *)
SendToAll(s, i, Js) ==
    LET one(j) == SendAppendEntries(s, i, j)
    IN  [s |-> [s EXCEPT !.node = [j \in Servers |->
                     IF j \in Js \ {i} THEN one(j).s.node[j] ELSE s.node[j]]],
         sent |-> UNION {one(j).sent : j \in Js \ {i}}]

SendHeartbeatToFollowers(s, i) == SendToAll(s, i, Servers)

(* BecomeFollowerLocked                                                    *)
BecomeFollower(s, leader) ==
    [s EXCEPT !.role = "follower", !.votedFor = leader, !.leaderId = leader]

(* UpdateCurrentTermLocked                                                 *)
UpdateCurrentTerm(s, term, leader) ==
    LET t == [s EXCEPT !.term = term]
    IN  IF s.role # "follower" THEN BecomeFollower(t, leader) ELSE t

(* SendRequestVoteLocked: one request to every other node; the receivers   *)
(* never look at its last_log_term.                                        *)
SendRequestVote(s, i) ==
    LET req == [term |-> s.term, lastPos |-> s.lastPos]
    IN  {Call("vote", i, j, req) : j \in Servers \ {i}}

(* BecomeCandidateLocked; ++candidate_votes_out_ for every request.        *)
BecomeCandidate(s, i) ==
    LET c == [s EXCEPT !.role = "candidate", !.votedFor = i, !.leaderId = NoOne,
                       !.votes = {i}, !.term = @ + 1,
                       !.votesOut = @ + Cardinality(Servers) - 1]
    IN  [s |-> c, sent |-> SendRequestVote(c, i)]

(* BecomeLeaderLocked                                                      *)
BecomeLeader(s, i) ==
    LET next == IF s.lastPos = Null THEN 0 ELSE s.lastPos + 1
        start(j) == [s.node[j] EXCEPT
                        !.next = next, !.last = s.lastPos, !.lastTerm = s.lastTerm,
                        !.match = IF j = i THEN s.lastPos ELSE Null]
        l == [s EXCEPT !.role = "leader", !.votedFor = i, !.leaderId = i,
                       !.node = [j \in Servers |-> start(j)]]
    IN  IF s.lastPos # Null /\ ~CanPull(s, s.lastPos) THEN Abort(s)
        ELSE SendHeartbeatToFollowers(l, i)

-----------------------------------------------------------------------------
\* Variant: voted_for_ is not looked at.
GrantsVoted(s, req) ==
    \/ s.term < req.term /\ req.lastPos >= s.commit
    \/ ~(req.term < s.term \/ req.lastPos < s.lastPos)

(* Vote: whether the request is granted.                                   *)
Grants(s, req) ==
    \/ s.term < req.term /\ req.lastPos >= s.commit
    \/ ~(req.term < s.term \/ s.votedFor # NoOne \/ req.lastPos < s.lastPos)

(* Vote: the members after it.                                             *)
Vote(s, i, c) ==
    IF Grants(s, c.req)
    THEN [s EXCEPT !.votedFor = c.from, !.term = c.req.term]
    ELSE s

VoteResponse(s, req) ==
    [answered |-> TRUE, granted |-> Grants(s, req),
     term |-> IF Grants(s, req) THEN req.term ELSE s.term]

(* ProcessRequestVoteResponse.  The count of the votes assigns             *)
(* votes_for_me_ = true to every node.                                     *)
ProcessVoteResponse(s, i, c, failed) ==
    LET elected == ~failed /\ s.role = "candidate" /\ c.resp.granted
        votes == Servers
        r == IF elected /\ Cardinality(votes) >= (Cardinality(Servers) \div 2) + 1
             THEN BecomeLeader([s EXCEPT !.votes = votes], i)
             ELSE Just(s)
        out == [r.s EXCEPT !.votesOut = @ - 1]
    IN  [s |-> IF out.up /\ out.votesOut = 0 /\ out.role = "candidate"
               THEN BecomeFollower(out, NoOne) ELSE out,
         sent |-> r.sent]

-----------------------------------------------------------------------------
(* MaybeTrucateLogAfterLocked: whether it succeeds, and what it leaves.    *)
IsFirstPos(s, prev) == Tell(s) = prev /\ Tell(s) = 0

\* Where the reader stands after the checks: behind prev_pos or at the start.
ReaderPos(s, prev) == IF prev = Null \/ IsFirstPos(s, prev) THEN 0 ELSE prev + 1

MayTruncate(s, prevTerm, prev) ==
    /\ Tell(s) > prev \/ IsFirstPos(s, prev)
    /\ (prev # Null /\ ~IsFirstPos(s, prev)) => Record(s, prev).term = prevTerm
    /\ Tell(s) > ReaderPos(s, prev) => ReaderPos(s, prev) >= s.commit

\* Variant: the new entries are added behind the old ones, nothing is cut off.
KeptWhole(s, prev) == [s EXCEPT !.lastPos = prev]

Truncated(s, prev) ==
    [s EXCEPT !.lastPos = prev, !.log = SubSeq(s.log, 1, ReaderPos(s, prev))]

(* AppendRequestEntriesLocked                                              *)
WithEntries(s, entries) ==
    [s EXCEPT !.log = s.log \o entries,
              !.lastPos = Tell(s) + Len(entries) - 1,
              !.lastTerm = Last(entries).term]

(* Append: the term and leader part.                                       *)
FollowTerm(s, req) ==
    IF req.term > s.term THEN UpdateCurrentTerm(s, req.term, req.leader)
    ELSE IF s.role = "candidate" THEN BecomeFollower(s, req.leader)
    ELSE [s EXCEPT !.leaderId = req.leader]

(* Append: success is that a heartbeat's position is ours, or that the     *)
(* log could be cut back to it and the entries written.                    *)
AppendSucceeds(s, req) ==
    IF req.entries = << >>
    THEN s.lastPos = req.lastPos /\ s.lastTerm = req.lastTerm
    ELSE MayTruncate(s, req.lastTerm, req.lastPos)

\* Variant: the follower takes over whatever commit position it is told.
CommittedAny(s, req) == [s EXCEPT !.commit = req.commit]

(* Append: the commit position follows the leader's.                       *)
Committed(s, req) ==
    [s EXCEPT !.commit = IF req.commit > s.commit /\ req.commit <= s.lastPos
                         THEN req.commit ELSE @]

(* Append: the members after it.                                           *)
Append_(s, i, c) ==
    LET req == c.req
        f == FollowTerm(s, req)
        w == IF req.entries = << >> THEN f
             ELSE WithEntries(Truncated(f, req.lastPos), req.entries)
    IN  IF req.term < s.term THEN s
        ELSE IF AppendSucceeds(f, req) THEN Committed(w, req)
        ELSE f

AppendResponse(s, i, c) ==
    LET after == Append_(s, i, c)
    IN  [answered |-> TRUE, term |-> after.term, commit |-> after.commit,
         current |-> c.req.term >= s.term,
         success |-> c.req.term >= s.term /\ AppendSucceeds(FollowTerm(s, c.req), c.req)]

-----------------------------------------------------------------------------
\* Variant: the leader's own position is not put among the others.
MatchPosNoSelf(s, i) == [j \in Servers |-> s.node[j].match]

(* MaybeAdvanceCommitLocked: the middle of the sorted match positions.     *)
MatchPos(s, i) == [j \in Servers |-> IF j = i THEN s.lastPos ELSE s.node[j].match]

\* Variant: the greatest of the match positions.
CanCommitGreatest(s, i) ==
    CHOOSE p \in Range(MatchPos(s, i)) : \A j \in Servers : MatchPos(s, i)[j] <= p

CanCommit(s, i) ==
    LET pos == MatchPos(s, i)
        mid == (Cardinality(Servers) - 1) \div 2
    IN  CHOOSE p \in Range(pos) :
            /\ Cardinality({j \in Servers : pos[j] < p}) <= mid
            /\ mid < Cardinality({j \in Servers : pos[j] <= p})

(* With AdvanceWaitersLocked: the waiters at or below it are answered.     *)
MaybeAdvanceCommit(s, i) ==
    IF CanCommit(s, i) <= s.commit THEN s
    ELSE [s EXCEPT !.commit = CanCommit(s, i),
                   !.waiters = {w \in @ : w[1] > CanCommit(s, i)}]

(* DegradeNodeLocked                                                       *)
DegradeNode(s, i, j, c) ==
    LET p == c.req.lastPos
        back == c.resp.commit
        from(q) == [s EXCEPT !.node[j] =
                       [@ EXCEPT !.next = PullPos(q) + 1, !.last = Record(s, PullPos(q)).pos,
                                 !.lastTerm = Record(s, PullPos(q)).term]]
    IN  IF p = Null
        THEN SendAppendEntries([s EXCEPT !.node[j] =
                 [@ EXCEPT !.next = 0, !.last = Null, !.lastTerm = 0]], i, j)
        ELSE IF c.resp.current /\ back < p
        THEN IF CanPull(s, back) THEN SendAppendEntries(from(back), i, j) ELSE Abort(s)
        ELSE IF CanPull(s, p) THEN SendFilledEntry(s, i, j, p) ELSE Abort(s)

\* Variant: in_transfer_ is reset only when there is an answer.
ProcessAppendResponseKeepsFlag(s0, i, c, failed) ==
    LET j == c.to
        s == [s0 EXCEPT !.node[j].inTransfer = failed]
        e == Last(c.req.entries)
        matched == [s EXCEPT !.node[j] =
                       [@ EXCEPT !.match = e.pos, !.last = e.pos, !.lastTerm = e.term]]
        advanced == MaybeAdvanceCommit(matched, i)
    IN  IF failed \/ s.role # "leader" THEN Just(s)
        ELSE IF c.resp.term > s.term THEN Just(UpdateCurrentTerm(s, c.resp.term, NoOne))
        ELSE IF ~c.resp.success THEN DegradeNode(s, i, j, c)
        ELSE IF c.req.entries = << >> THEN Just(s)
        ELSE IF s.node[j].match > s.node[j].next THEN Abort(s)
        ELSE IF Tell(s) > s.node[j].next THEN SendAppendEntries(advanced, i, j)
        ELSE Just(advanced)

(* ProcessAppendEntriesResponse                                            *)
ProcessAppendResponse(s0, i, c, failed) ==
    LET j == c.to
        s == [s0 EXCEPT !.node[j].inTransfer = FALSE]
        e == Last(c.req.entries)
        matched == [s EXCEPT !.node[j] =
                       [@ EXCEPT !.match = e.pos, !.last = e.pos, !.lastTerm = e.term]]
        advanced == MaybeAdvanceCommit(matched, i)
    IN  IF failed \/ s.role # "leader" THEN Just(s)
        ELSE IF c.resp.term > s.term THEN Just(UpdateCurrentTerm(s, c.resp.term, NoOne))
        ELSE IF ~c.resp.success THEN DegradeNode(s, i, j, c)
        ELSE IF c.req.entries = << >> THEN Just(s)
        ELSE IF s.node[j].match > s.node[j].next THEN Abort(s)
        ELSE IF Tell(s) > s.node[j].next THEN SendAppendEntries(advanced, i, j)
        ELSE Just(advanced)

-----------------------------------------------------------------------------
\* The RPCs that outlive the process of i: nobody waits for its own any more.
Orphaned(C, i) ==
    {[c EXCEPT !.live = c.live /\ c.from # i] :
        c \in {d \in C : d.from # i \/ ~d.resp.answered}}

\* A handler of server i ran with result r: note the waiters it answered.
Done(i, r, gone, new) ==
    /\ srv' = [srv EXCEPT ![i] = r.s]
    /\ calls' = LET C == (calls \ gone) \cup r.sent \cup new
                IN  IF r.s.up THEN C ELSE Orphaned(C, i)
    /\ acked' = acked \cup {<<i, w[1], w[2]>> :
                   w \in {x \in srv[i].waiters : x \notin r.s.waiters /\ r.s.up}}

(* PeriodicCheck of a leader: heartbeat_elapsed_ns_ has passed.            *)
Heartbeat(i) ==
    /\ srv[i].up /\ srv[i].role = "leader"
    /\ Done(i, SendHeartbeatToFollowers(srv[i], i), {}, {})
    /\ UNCHANGED budget

(* PeriodicCheck of the others: election_timeout_elapsed_ns_ has passed.   *)
ElectionTimeout(i) ==
    /\ srv[i].up /\ srv[i].role # "leader"
    /\ srv[i].term < MaxTerm
    /\ Done(i, BecomeCandidate(srv[i], i), {}, {})
    /\ UNCHANGED budget

(* Save at a leader; anywhere else it only answers with the leader's name. *)
Save(i, v, wait) ==
    LET s == srv[i]
        e == [pos |-> Tell(s), prevPos |-> s.lastPos, term |-> s.term,
              prevTerm |-> s.lastTerm, val |-> v]
        w == [s EXCEPT !.log = Append(s.log, e), !.lastPos = Tell(s), !.lastTerm = s.term]
        ready == {j \in Servers : ~w.node[j].inTransfer /\ w.node[j].next = w.lastPos}
        r == SendToAll(w, i, ready)
        \* std::map::insert leaves an older waiter for the position alone.
        waiters == IF wait /\ \A x \in s.waiters : x[1] # Tell(s)
                   THEN s.waiters \cup {<<Tell(s), v>>} ELSE s.waiters
    IN  /\ s.up /\ s.role = "leader"
        /\ Tell(s) < MaxLog
        /\ Done(i, [r EXCEPT !.s.waiters = waiters], {}, {})
        /\ UNCHANGED budget

\* c has been executed at its target and answered; a caller that gave up is gone.
Answer(c, resp) == IF c.live THEN {[c EXCEPT !.resp = resp]} ELSE {}

(* A Vote or Append request is executed, a retried one once more.          *)
Execute(c) ==
    LET i == c.to s == srv[i] IN
    /\ s.up
    /\ \/ ~c.resp.answered /\ UNCHANGED budget
       \/ /\ c.resp.answered /\ c.live
          /\ budget.retry > 0
          /\ budget' = [budget EXCEPT !.retry = @ - 1]
    /\ \/ /\ c.kind = "vote"
          /\ Done(i, Just(Vote(s, i, c)), {c}, Answer(c, VoteResponse(s, c.req)))
       \/ /\ c.kind = "append"
          /\ Done(i, Just(Append_(s, i, c)), {c}, Answer(c, AppendResponse(s, i, c)))

\* What the caller's response handler does.
Process(c, failed) ==
    IF c.kind = "vote" THEN ProcessVoteResponse(srv[c.from], c.from, c, failed)
                       ELSE ProcessAppendResponse(srv[c.from], c.from, c, failed)

(* The answer of an RPC reaches its caller.                                *)
Reply(c) ==
    /\ srv[c.from].up
    /\ c.live /\ c.resp.answered
    /\ Done(c.from, Process(c, FALSE), {c}, {})
    /\ UNCHANGED budget

(* An RPC fails at its caller (timeout, broken connection); the request    *)
(* may still be executed later.                                            *)
Fail(c) ==
    /\ srv[c.from].up
    /\ c.live
    /\ budget.fail > 0
    /\ budget' = [budget EXCEPT !.fail = @ - 1]
    /\ Done(c.from, Process(c, TRUE), {c},
            IF c.resp.answered THEN {} ELSE {[c EXCEPT !.live = FALSE]})

\* The process of i dies with s as its durable state.
Die(i, s) ==
    /\ budget.crash > 0
    /\ budget' = [budget EXCEPT !.crash = @ - 1]
    /\ srv' = [srv EXCEPT ![i] = [s EXCEPT !.up = FALSE]]
    /\ calls' = Orphaned(calls, i)
    /\ UNCHANGED acked

Crash(i) ==
    /\ "idle" \in CrashPoints
    /\ srv[i].up
    /\ Die(i, srv[i])

(* A crash in Save, after WriteRecord and Flush, before SaveStateLocked.   *)
CrashInSave(i, v) ==
    LET s == srv[i]
        e == [pos |-> Tell(s), prevPos |-> s.lastPos, term |-> s.term,
              prevTerm |-> s.lastTerm, val |-> v]
    IN  /\ "save" \in CrashPoints
        /\ s.up /\ s.role = "leader"
        /\ Tell(s) < MaxLog
        /\ Die(i, [s EXCEPT !.log = Append(s.log, e)])

(* A crash in Append after the first n entries were flushed, before the    *)
(* SaveStateLocked at its end; the one before the truncation is done.  Or  *)
(* a crash right after that one, with nothing cut off yet.                 *)
CrashInAppend(c, n) ==
    LET i == c.to
        f == FollowTerm(srv[i], c.req)
        t == Truncated(f, c.req.lastPos)
    IN  /\ "append" \in CrashPoints
        /\ c.kind = "append" /\ srv[i].up
        /\ c.resp.answered => c.live /\ budget.retry > 0
        /\ c.req.term >= srv[i].term
        /\ c.req.entries # << >> /\ AppendSucceeds(f, c.req)
        /\ n <= Len(c.req.entries)
        /\ \/ Die(i, [t EXCEPT !.log = @ \o SubSeq(c.req.entries, 1, n),
                               !.lastPos = IF Tell(t) < Tell(f) THEN @ ELSE f.lastPos])
           \/ n = 0 /\ Tell(t) < Tell(f) /\ Die(i, [t EXCEPT !.log = f.log])

(* A new process: the constructor, LoadStateLocked and Initialize.         *)
Restart(i) ==
    /\ ~srv[i].up
    /\ \E n \in UninitVotes : srv' = [srv EXCEPT ![i] = Restarted(srv[i], n)]
    /\ UNCHANGED <<calls, acked, budget>>

Next ==
    \/ \E i \in Servers :
          \/ Heartbeat(i) \/ ElectionTimeout(i) \/ Crash(i) \/ Restart(i)
          \/ \E v \in Values : CrashInSave(i, v) \/ \E wait \in BOOLEAN : Save(i, v, wait)
    \/ \E c \in calls :
          \/ Execute(c) \/ Reply(c) \/ Fail(c)
          \/ \E n \in 0 .. MaxLog : CrashInAppend(c, n)

Spec == Init /\ [][Next]_vars

(* The alarm of PeriodicCheck is set again every time, requests are        *)
(* executed, and every RPC ends: answered, or failed by its timeout.       *)
Fairness ==
    /\ \A i \in Servers : WF_vars(Heartbeat(i))
    /\ WF_vars(\E c \in calls : c.live /\ ~c.resp.answered /\ Execute(c))
    /\ WF_vars(\E c \in calls : Reply(c))

FairSpec == Spec /\ Fairness

-----------------------------------------------------------------------------
Positions == Nat \cup {Null}
Terms == 0 .. MaxTerm
Entries == [pos : Positions, prevPos : Positions, term : Terms, prevTerm : Terms,
            val : Values]
Nodes == [next : Positions, last : Positions, lastTerm : Terms, match : Positions,
          inTransfer : BOOLEAN]

(* Type invariant of the servers and of the RPCs.                          *)
TypeOK ==
    /\ \A i \in Servers :
          /\ srv[i].up \in BOOLEAN /\ srv[i].aborted \in BOOLEAN
          /\ srv[i].term \in Terms /\ srv[i].lastTerm \in Terms
          /\ srv[i].votedFor \in Servers \cup {NoOne}
          /\ srv[i].leaderId \in Servers \cup {NoOne}
          /\ srv[i].lastPos \in Positions /\ srv[i].commit \in Positions
          /\ \A k \in DOMAIN srv[i].log : srv[i].log[k] \in Entries
          /\ srv[i].role \in {"follower", "candidate", "leader"}
          /\ srv[i].votes \subseteq Servers /\ srv[i].votesOut \in Int
          /\ srv[i].waiters \subseteq Positions \X Values
          /\ srv[i].node \in [Servers -> Nodes]
    /\ \A c \in calls : /\ c.kind \in {"vote", "append"} /\ c.from # c.to
                         /\ c.live \in BOOLEAN /\ c.req.term \in Terms

(* commit_pos_ never goes back, through every handler and every crash.     *)
CommitNeverDecreases ==
    [][\A i \in Servers : srv'[i].commit >= srv[i].commit]_vars

(* in_transfer_ of a node is exactly that one AppendEntries to it waits    *)
(* for its answer: the CHECK(!in_transfer_) of SendAppendLocked holds, and *)
(* no failure, late answer or change of role leaves the flag behind (which *)
(* would stop replication to the node for ever).                           *)
OneAppendInTransfer ==
    \A i, j \in Servers : srv[i].up =>
        Cardinality({c \in calls : c.kind = "append" /\ c.live /\ c.from = i /\ c.to = j})
            = (IF srv[i].node[j].inTransfer THEN 1 ELSE 0)

(* The servers agree on every record that both hold as committed.          *)
CommittedAgree ==
    \A i, j \in Servers : \A p \in 0 .. MaxLog :
        /\ p <= srv[i].commit /\ p < Tell(srv[i])
        /\ p <= srv[j].commit /\ p < Tell(srv[j])
        => Record(srv[i], p) = Record(srv[j], p)

(* What a leader has committed is in the logs of more than half of the     *)
(* servers, at the same place.                                             *)
CommitsOnMajority ==
    \A i \in Servers : srv[i].role = "leader" => \A p \in 0 .. srv[i].commit :
        2 * Cardinality({j \in Servers : /\ p < Tell(srv[i]) /\ p < Tell(srv[j])
                                         /\ Record(srv[j], p) = Record(srv[i], p)})
            > Cardinality(Servers)

(* What a leader has written is committed, in the end, at that leader: no  *)
(* loss of an RPC stops the replication of a record for good.              *)
SavedIsCommitted ==
    \A i \in Servers : \A p \in 0 .. MaxLog - 1 :
        (srv[i].role = "leader" /\ p < Tell(srv[i])) ~> (srv[i].commit >= p)

(* Two servers do not lead the same term.                                  *)
OneLeaderPerTerm ==
    \A i, j \in Servers :
        srv[i].role = "leader" /\ srv[j].role = "leader" /\ srv[i].term = srv[j].term
        => i = j

(* was_committed: "Whether or not the entry was committed".  A Save that   *)
(* was answered so finds its data at its position.                         *)
AckedDataKept ==
    \A a \in acked : a[2] < Len(srv[a[1]].log) /\ Record(srv[a[1]], a[2]).val = a[3]
=============================================================================
