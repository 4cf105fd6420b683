--------------------------------- MODULE MCPmon --------------------------------
(* Instances of Pmon for TLC.                                                *)
EXTENDS Pmon

Short == {1, 2}
=============================================================================
