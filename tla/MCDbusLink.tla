------------------------------ MODULE MCDbusLink ------------------------------
(* DbusLink for TLC: an int is two bytes, a long four.                     *)
EXTENDS DbusLink

Asked == {"DevicePath", "Version", "GetTimeout"}

\* The path of the first service is longer than that of the next.
Lengths == [m \in Asked |->
              CASE m = "DevicePath" -> [s \in Services |-> IF s = 1 THEN 4 ELSE 3]
                [] m = "Version"    -> [s \in Services |-> 4]
                [] m = "GetTimeout" -> [s \in Services |-> 2]]
Sizes == [m \in Asked |-> IF m = "DevicePath" THEN 6 ELSE 4]
=============================================================================
