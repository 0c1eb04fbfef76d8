------------------------------- MODULE MCOutbox -------------------------------
(***************************************************************************)
(* Outbox for TLC: the cfg names the entries and instances.                *)
(***************************************************************************)
EXTENDS Outbox

CONSTANTS m, x, y, o1, o2
===============================================================================
