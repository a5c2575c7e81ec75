---------------------------- MODULE MCRaftFaults ----------------------------
(***************************************************************************)
(* Two small instances of RaftServer for TLC: one with failed and repeated *)
(* RPCs and crashes, and one without them, in which what is saved must be  *)
(* committed.                                                              *)
(***************************************************************************)
EXTENDS RaftServer

VARIABLE part      \* which of the two instances runs

Reliable == INSTANCE RaftServer WITH
    UninitVotes <- {0, 1}, MaxTerm <- 1, MaxLog <- 2, MaxEntries <- 1,
    MaxFailures <- 0, MaxRetries <- 0, MaxCrashes <- 0, CrashPoints <- {}

all == <<part, vars>>

FaultsInit == \/ part = "faults" /\ Init
              \/ part = "reliable" /\ Reliable!Init

FaultsNext ==
    /\ UNCHANGED part
    /\ \/ part = "faults" /\ Next
       \/ part = "reliable" /\ Reliable!Next

\* The fairness of RaftServer, in the instance without failures.
FaultsFairness ==
    /\ \A i \in Servers : WF_vars(part = "reliable" /\ Reliable!Heartbeat(i))
    /\ WF_vars(\E c \in calls : /\ part = "reliable" /\ c.live /\ ~c.resp.answered
                                /\ Reliable!Execute(c))
    /\ WF_vars(\E c \in calls : part = "reliable" /\ Reliable!Reply(c))

FaultsSpec == FaultsInit /\ [][FaultsNext]_all /\ FaultsFairness

(* Without failures what a leader writes is committed in the end.          *)
ReliableCommits == (part = "reliable") => Reliable!SavedIsCommitted
=============================================================================
