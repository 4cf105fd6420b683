---------------------------------- MODULE Pmon ----------------------------------
(***************************************************************************)
(* The process monitor of the D-Bus process (dbusapi.cpp): a table of      *)
(* timers, one for each client, with a counter for the ids that were never *)
(* given and a stack of those that were given back.                        *)
(*                                                                         *)
(* The name a ping or a removal is compared with belongs to a message that *)
(* no longer exists: the comparison may go either way, and a request that  *)
(* is turned down changes nothing.                                         *)
(***************************************************************************)
EXTENDS Integers, FiniteSets

CONSTANTS
    MaxClientId,   \* MAX_CLIENT_ID, the length of the table (4096)
    Periods        \* the periods clients ask for, in ticks

ASSUME TableAssumption == MaxClientId \in Nat \ {0} /\ Periods \subseteq Nat

Ids == 0..MaxClientId - 1

VARIABLES
    clients,           \* the ids whose entry is not NULL
    enabled,           \* those whose timer is enabled: a timer fires once
    left,              \* the ticks before each timer's time
    clientTimeout,
    lastAllocatedId,
    openSlots,
    freeIds, lastFreedSlot,
    reply,             \* PmonInit's last answer, -1 for none
    asked,             \* has DBUSHUTDOWN been written?
    state              \* "serving", for ever in the loop of Timeout ("writing")
                       \* or past the end of the table ("overrun")

table == <<clients, clientTimeout, lastAllocatedId, openSlots, freeIds, lastFreedSlot>>
vars  == <<table, enabled, left, reply, asked, state>>

Init ==
    /\ clients = {} /\ enabled = {}
    /\ left = [id \in Ids |-> 0]
    /\ clientTimeout = [id \in Ids |-> 0]
    /\ lastAllocatedId = 0
    /\ openSlots = MaxClientId
    /\ freeIds = [i \in Ids |-> IF i = 0 THEN -1 ELSE 0] /\ lastFreedSlot = -1
    /\ reply = -1
    /\ asked = FALSE
    /\ state = "serving"
-----------------------------------------------------------------------------
\* Slip: the period of the last owner of the id stays.
AddTimeOldPeriod(id, time) ==
    /\ clients' = clients \cup {id}
    /\ enabled' = enabled \cup {id}
    /\ left' = [left EXCEPT ![id] = time]
    /\ clientTimeout' = IF clientTimeout[id] = 0
                        THEN [clientTimeout EXCEPT ![id] = time] ELSE clientTimeout
    /\ openSlots' = openSlots - 1
    /\ reply' = id

\* sd_event_add_time and the answer.
AddTime(id, time) ==
    /\ clients' = clients \cup {id}
    /\ enabled' = enabled \cup {id}
    /\ left' = [left EXCEPT ![id] = time]
    /\ clientTimeout' = [clientTimeout EXCEPT ![id] = time]
    /\ openSlots' = openSlots - 1
    /\ reply' = id

PmonInitFull ==
    /\ openSlots = 0
    /\ reply' = -1
    /\ UNCHANGED <<table, enabled, left, asked, state>>

PmonInitNext(time) ==
    /\ openSlots # 0
    /\ lastAllocatedId < MaxClientId /\ lastAllocatedId \notin clients
    /\ AddTime(lastAllocatedId, time)
    /\ lastAllocatedId' = lastAllocatedId + 1
    /\ UNCHANGED <<freeIds, lastFreedSlot, asked, state>>

\* Once every id was given, what is read is past the end of the table; where it
\* is not NULL, an id is taken from the stack.
PmonInitReuse(time) ==
    /\ openSlots # 0
    /\ lastAllocatedId < MaxClientId => lastAllocatedId \in clients
    /\ AddTime(freeIds[lastFreedSlot], time)
    /\ lastFreedSlot' = lastFreedSlot - 1
    /\ UNCHANGED <<lastAllocatedId, freeIds, asked, state>>

\* Where it is NULL, the timer is stored there; what follows is undefined.
PmonInitOverrun ==
    /\ openSlots # 0 /\ lastAllocatedId = MaxClientId
    /\ state' = "overrun"
    /\ UNCHANGED <<table, enabled, left, reply, asked>>

\* Slip: the id is stored where the last one is.
PmonRemoveOverwrites(id) ==
    /\ id \in clients
    /\ clients' = clients \ {id}
    /\ enabled' = enabled \ {id}
    /\ lastFreedSlot' = lastFreedSlot + 1
    /\ openSlots' = openSlots + 1
    /\ freeIds' = [freeIds EXCEPT ![IF lastFreedSlot < 0 THEN 0 ELSE lastFreedSlot] = id]
    /\ UNCHANGED <<left, clientTimeout, lastAllocatedId, reply, asked, state>>

PmonRemove(id) ==
    /\ id \in clients
    /\ clients' = clients \ {id}
    /\ enabled' = enabled \ {id}
    /\ lastFreedSlot' = lastFreedSlot + 1
    /\ openSlots' = openSlots + 1
    /\ freeIds' = [freeIds EXCEPT ![lastFreedSlot + 1] = id]
    /\ UNCHANGED <<left, clientTimeout, lastAllocatedId, reply, asked, state>>

\* A timer that has fired is given a time, but is not enabled again.
PmonPing(id) ==
    /\ id \in clients
    /\ left' = [left EXCEPT ![id] = clientTimeout[id]]
    /\ UNCHANGED <<table, enabled, reply, asked, state>>

\* Slip: the request is not written where errno is not 0.
TimeoutSilent(id) ==
    /\ id \in enabled /\ left[id] = 0
    /\ enabled' = enabled \ {id}
    /\ \/ asked' = TRUE /\ UNCHANGED state
       \/ state' = "writing" /\ UNCHANGED asked
    /\ UNCHANGED <<table, left, reply>>

\* The request is written until errno is 0: a write that succeeds does not set
\* it, so that where it was not 0 before, it is written for ever.
Timeout(id) ==
    /\ id \in enabled /\ left[id] = 0
    /\ enabled' = enabled \ {id}
    /\ asked' = TRUE
    /\ state' \in {"serving", "writing"}
    /\ UNCHANGED <<table, left, reply>>

Tick ==
    /\ left' = [id \in Ids |-> IF left[id] > 0 THEN left[id] - 1 ELSE 0]
    /\ UNCHANGED <<table, enabled, reply, asked, state>>

PmonInit ==
    \/ PmonInitFull \/ PmonInitOverrun
    \/ \E time \in Periods : PmonInitNext(time) \/ PmonInitReuse(time)

Next ==
    /\ state = "serving"
    /\ \/ PmonInit \/ Tick
       \/ \E id \in Ids : PmonRemove(id) \/ PmonPing(id) \/ Timeout(id)

Spec == Init /\ [][Next]_vars

\* Time goes on, and the event loop comes to every timer that stays due.
Fairness ==
    /\ WF_vars(state = "serving" /\ Tick)
    /\ \A id \in Ids : WF_vars(state = "serving" /\ Timeout(id))

FairSpec == Spec /\ Fairness
-----------------------------------------------------------------------------
(* Properties.                                                             *)

\* The variables have the types the code gives them; the stack and the counters
\* stay within the table.
TypeOK ==
    /\ clients \subseteq Ids /\ enabled \subseteq clients
    /\ left \in [Ids -> Nat] /\ clientTimeout \in [Ids -> Nat]
    /\ lastAllocatedId \in 0..MaxClientId
    /\ openSlots \in 0..MaxClientId
    /\ freeIds \in [Ids -> Ids \cup {-1}]
    /\ lastFreedSlot \in -1..MaxClientId - 1
    /\ reply \in Ids \cup {-1}
    /\ asked \in BOOLEAN
    /\ state \in {"serving", "writing", "overrun"}

Stacked == {freeIds[i] : i \in 0..lastFreedSlot}

\* The counter, the stack and the table say the same: what was given is in use or
\* on the stack, never both, and no id is on the stack twice.
StackFree ==
    /\ \A i, j \in 0..lastFreedSlot : freeIds[i] = freeIds[j] => i = j
    /\ clients = (0..lastAllocatedId - 1) \ Stacked
    /\ Stacked \subseteq 0..lastAllocatedId - 1

\* openSlots, by which a client is refused, is the number of the free entries.
SlotsCounted ==
    /\ Cardinality(clients) = lastAllocatedId - lastFreedSlot - 1
    /\ openSlots = MaxClientId - Cardinality(clients)

IInv == TypeOK /\ StackFree /\ SlotsCounted

Abstract == INSTANCE Registry WITH
    used     <- clients,
    deadline <- [id \in Ids |-> IF id \in enabled THEN left[id] ELSE -1],
    period   <- clientTimeout,
    alarm    <- asked

\* The table does what Registry promises: ids are not shared, a refusal means a
\* full table, and a shutdown is asked for exactly when a period has passed.
Implements == Abstract!Spec

\* A client that neither pings nor leaves is noticed: unless the process is lost,
\* an enabled timer that is due leads to a request for a shutdown, where none was
\* made yet, to a removal or to another ping.
SilenceNoticed ==
    \A id \in Ids :
        id \in enabled /\ left[id] = 0
            ~> asked \/ id \notin clients \/ left[id] > 0 \/ state = "overrun"
=============================================================================
