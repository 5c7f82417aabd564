---------------------------- MODULE MCSPServers ----------------------------
(***************************************************************************)
(* SPServers on five cores.  A ratio of 60% gives the TCP server two I/O   *)
(* threads, so that CreateIOEventLoop can fail half-way; 90% is 4.5        *)
(* workers, which may round to every core.  The UDP server has five        *)
(* sockets.  Three connections need more than one block of two pairs.      *)
(***************************************************************************)
EXTENDS SPServers
=============================================================================
