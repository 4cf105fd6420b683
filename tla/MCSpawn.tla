-------------------------------- MODULE MCSpawn --------------------------------
(* Instances of Spawn for TLC: the manager calls without a limit, a script's  *)
(* worker with one.                                                           *)
EXTENDS Spawn

CONSTANTS manager, script

Limit == {script}
Both  == {manager, script}
=============================================================================
