------------------------------ MODULE MCPresence ------------------------------
(***************************************************************************)
(* Presence for TLC: the cfg names the devices, sockets and requests.      *)
(***************************************************************************)
EXTENDS Presence

CONSTANTS p, q, s1, s2, s3, r1

\* One device with two connections, a second with one.
Connections == [s \in Sockets |-> IF s = s3 THEN q ELSE p]
===============================================================================
