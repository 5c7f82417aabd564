----------------------------- MODULE SPServers -----------------------------
(***************************************************************************)
(* An application that is written for one of the two servers.  They share  *)
(* the number of cores; their instances, flags and descriptors are apart.  *)
(***************************************************************************)
EXTENDS SPTcpServer, SPSockUdp

ASSUME CoresAssumption == SOCKETS = HARDWARE

VARIABLE server            \* "tcp" or "udp", the one this application uses

vars == <<server, tcpVars, udpVars>>

Init ==
    /\ server \in {"tcp", "udp"}
    /\ TcpInit
    /\ UdpInit

Next ==
    \/ server = "tcp" /\ TcpNext /\ UNCHANGED <<server, udpVars>>
    \/ server = "udp" /\ UdpNext /\ UNCHANGED <<server, tcpVars>>

Spec == Init /\ [][Next]_vars /\ UdpFairness

\* The types of both servers' state: whatever fails, descriptors, buffers and
\* program counters stay in the sets the code of SPSockTcp and SPSockUdp can reach.
TypeOK == TcpTypeOK /\ UdpTypeOK
=============================================================================
