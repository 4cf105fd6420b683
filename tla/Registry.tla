-------------------------------- MODULE Registry --------------------------------
(***************************************************************************)
(* What the process monitor of the D-Bus interface promises: a client that *)
(* registers gets an id nobody has, is refused only if every id is taken,  *)
(* and raises the alarm exactly if its id was neither refreshed nor given  *)
(* up for its whole period.                                                *)
(***************************************************************************)
EXTENDS Integers

CONSTANTS Ids, Periods

VARIABLES
    used,       \* the ids in use
    deadline,   \* the ticks left before the alarm; Off where there is none
    period,     \* the period each id was registered with
    reply,      \* the answer to the last registration: the id, or Refused
    alarm       \* has there been an alarm?

vars == <<used, deadline, period, reply, alarm>>

Off     == -1
Refused == -1

Init ==
    /\ used = {}
    /\ deadline = [id \in Ids |-> Off]
    /\ period = [id \in Ids |-> 0]
    /\ reply = Refused
    /\ alarm = FALSE

Register(id, t) ==
    /\ id \notin used
    /\ used' = used \cup {id}
    /\ deadline' = [deadline EXCEPT ![id] = t]
    /\ period' = [period EXCEPT ![id] = t]
    /\ reply' = id
    /\ UNCHANGED alarm

Refuse ==
    /\ used = Ids
    /\ reply' = Refused
    /\ UNCHANGED <<used, deadline, period, alarm>>

\* An id whose alarm was raised stays without a deadline.
Refresh(id) ==
    /\ id \in used /\ deadline[id] # Off
    /\ deadline' = [deadline EXCEPT ![id] = period[id]]
    /\ UNCHANGED <<used, period, reply, alarm>>

GiveUp(id) ==
    /\ id \in used
    /\ used' = used \ {id}
    /\ deadline' = [deadline EXCEPT ![id] = Off]
    /\ UNCHANGED <<period, reply, alarm>>

Expire(id) ==
    /\ deadline[id] = 0
    /\ deadline' = [deadline EXCEPT ![id] = Off]
    /\ alarm' = TRUE
    /\ UNCHANGED <<used, period, reply>>

Tick ==
    /\ deadline' = [id \in Ids |-> IF deadline[id] > 0 THEN deadline[id] - 1
                                                       ELSE deadline[id]]
    /\ UNCHANGED <<used, period, reply, alarm>>

Next ==
    \/ Refuse \/ Tick
    \/ \E id \in Ids :
         \/ \E t \in Periods : Register(id, t)
         \/ Refresh(id) \/ GiveUp(id) \/ Expire(id)

Spec == Init /\ [][Next]_vars
=============================================================================
