-------------------------------- MODULE MCNet --------------------------------
(***************************************************************************)
(* Small instances of the components of whisperlib/net and whisperlib/http *)
(* for TLC.  They share no variables: a behaviour belongs to one of them,  *)
(* the others stay as they were made.                                      *)
(***************************************************************************)
EXTENDS Selector, DnsResolver, TcpConnection, HttpClientProtocol

CONSTANTS
    Retried, Urgent, NumServers, NumRetries,    \* FailSafeClient
    MaxPerServer, KeepAlives, MaxResets

VARIABLES
    part,       \* the component that runs
    failsafe, resets

Failsafe == INSTANCE FailSafeClient
    WITH f <- failsafe, Requests <- Retried, MaxConcurrent <- MaxPerServer

ASSUME HttpParameters

failsafeVars == <<failsafe, resets>>
all == <<part, vars, dnsVars, tcpVars, httpVars, failsafeVars>>

NetInit ==
    /\ part \in {"selector", "dns", "tcp", "http", "failsafe"}
    /\ Init /\ DnsInit /\ TcpInit /\ HttpInit /\ Failsafe!Init
    /\ part # "selector" => \A a \in Alarms : timeout_[a] = CHOOSE t \in Timeouts : TRUE
    /\ part # "failsafe" => failsafe.keepAlive

NetNext ==
    \/ /\ part = "selector" /\ (Next \/ Terminating)
       /\ UNCHANGED <<part, dnsVars, tcpVars, httpVars, failsafeVars>>
    \/ /\ part = "dns" /\ (DnsNext \/ AllQuiet)
       /\ UNCHANGED <<part, vars, tcpVars, httpVars, failsafeVars>>
    \/ /\ part = "tcp" /\ (TcpNext \/ Finished)
       /\ UNCHANGED <<part, vars, dnsVars, httpVars, failsafeVars>>
    \/ /\ part = "http" /\ (HttpNext \/ AllSent)
       /\ UNCHANGED <<part, vars, dnsVars, tcpVars, failsafeVars>>
    \/ /\ part = "failsafe" /\ (Failsafe!Next \/ Failsafe!Stopped)
       /\ UNCHANGED <<part, vars, dnsVars, tcpVars, httpVars>>

\* The fairness of each component's own specification, where it runs.
NetFairness ==
    /\ WF_vars(part = "selector" /\ LoopStep) /\ WF_vars(part = "selector" /\ Tick)
    /\ \A t \in Threads : WF_vars(part = "selector" /\ SendWakeSignal(t))
    /\ WF_tcpVars(part = "tcp" /\ Loop) /\ SF_tcpVars(part = "tcp" /\ HandleTimeoutEvent)
    /\ WF_tcpVars(part = "tcp" /\ HandleDnsResult)
    /\ WF_tcpVars(part = "tcp" /\ PeerTakes) /\ WF_tcpVars(part = "tcp" /\ PeerAccepts)
    /\ WF_httpVars(part = "http" /\ Read) /\ WF_httpVars(part = "http" /\ RunScheduled)
    /\ WF_httpVars(part = "http" /\ NotifyConnected)
    /\ \A q \in Requests : WF_httpVars(part = "http" /\ Answer(q))
    /\ WF_failsafeVars(part = "failsafe" /\ Failsafe!RequeuePendingAlarm)
    /\ \A q \in Retried : /\ WF_failsafeVars(part = "failsafe" /\ Failsafe!ClientStep(q))
                           /\ WF_failsafeVars(part = "failsafe" /\ Failsafe!RequestExpires(q))

NetSpec == NetInit /\ [][NetNext]_all /\ NetFairness

-----------------------------------------------------------------------------
(* The properties of the failsafe client, as they are stated there; those   *)
(* of the extended modules are checked directly.                            *)

(* The failsafe client neither loses nor duplicates a request.              *)
RequestInOnePlace == Failsafe!RequestInOnePlace
(* A request of the failsafe client is completed.                           *)
RequestCompletes == Failsafe!RequestCompletes
=============================================================================
