-------------------------------- MODULE MCSync --------------------------------
(***************************************************************************)
(* SyncEngine for TLC: the cfg names the items and engines.                *)
(***************************************************************************)
EXTENDS SyncEngine, TLC

CONSTANTS a, b, e1, e2, none

\* The requests the device makes in a run.
NoRequests == {}
SomeRequests == {<<"post", b>>, <<"delete", a>>, <<"asleep", a>>}

\* The instances play the same role and a run without temporal properties may
\* exchange them.
EngineSymmetry == Permutations(Engines)
===============================================================================
