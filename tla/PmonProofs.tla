------------------------------- MODULE PmonProofs -------------------------------
(***************************************************************************)
(* Proofs about Pmon, for a table of any length and any periods: the       *)
(* table, the stack and the counter agree, Pmon implements Registry, and   *)
(* no client goes unwatched.                                               *)
(***************************************************************************)
EXTENDS Pmon, FiniteSetTheorems, TLAPS

\* The ids in use are finitely many, and at least one if there is one.
LEMMA ClientsFinite ==
    ASSUME TypeOK
    PROVE  /\ IsFiniteSet(clients) /\ Cardinality(clients) \in Nat
           /\ \A id \in clients : Cardinality(clients) > 0
<1>1. IsFiniteSet(Ids)
  BY TableAssumption, FS_Interval DEF Ids
<1>2. IsFiniteSet(clients)
  BY <1>1, FS_Subset DEF TypeOK
<1>3. Cardinality(clients) \in Nat
  BY <1>2, FS_CardinalityType
<1>4. ASSUME NEW id \in clients PROVE Cardinality(clients) > 0
  BY <1>2, <1>3, FS_EmptySet
<1> QED BY <1>2, <1>3, <1>4

\* The table starts empty.
LEMMA InitTable == Init => IInv
<1> SUFFICES ASSUME Init PROVE IInv
  OBVIOUS
<1>1. asked \in BOOLEAN
  BY Zenon DEF Init
<1>2. /\ left \in [Ids -> Nat] /\ clientTimeout \in [Ids -> Nat]
      /\ freeIds \in [Ids -> Ids \cup {-1}]
  BY TableAssumption DEF Init, Ids
<1>3. TypeOK
  BY <1>1, <1>2, TableAssumption DEF Init, TypeOK
<1>4. Stacked = {}
  BY DEF Init, Stacked
<1>5. StackFree
  BY <1>4 DEF Init, StackFree
<1>6. SlotsCounted
  BY FS_EmptySet, TableAssumption DEF Init, SlotsCounted
<1> QED BY <1>3, <1>5, <1>6 DEF IInv

\* A registration with an id that was not in use takes one entry.
LEMMA AddTimeCounts ==
    ASSUME IInv, NEW id \in Ids, id \notin clients, NEW time \in Periods,
           AddTime(id, time)
    PROVE  /\ clients' \subseteq Ids /\ enabled' \subseteq clients'
           /\ left' \in [Ids -> Nat] /\ clientTimeout' \in [Ids -> Nat]
           /\ reply' \in Ids
           /\ Cardinality(clients') = Cardinality(clients) + 1
           /\ openSlots' = openSlots - 1
<1>1. time \in Nat
  BY TableAssumption
<1>2. Cardinality(clients') = Cardinality(clients) + 1
  BY ClientsFinite, FS_AddElement DEF AddTime, IInv
<1> QED BY <1>1, <1>2 DEF AddTime, IInv, TypeOK

\* The next id that was never given is not in use.
LEMMA NextKeeps ==
    ASSUME IInv, NEW time \in Periods, PmonInitNext(time)
    PROVE  /\ IInv' /\ lastAllocatedId \in Ids \ clients
<1> USE DEF IInv
<1>1. lastAllocatedId \in Ids \ clients
  BY TableAssumption DEF PmonInitNext, TypeOK, Ids
<1>2. /\ AddTime(lastAllocatedId, time)
      /\ lastAllocatedId' = lastAllocatedId + 1 /\ lastAllocatedId < MaxClientId
      /\ UNCHANGED <<freeIds, lastFreedSlot, asked, state>>
      /\ openSlots # 0
  BY DEF PmonInitNext
<1>3. /\ clients' \subseteq Ids /\ enabled' \subseteq clients'
      /\ left' \in [Ids -> Nat] /\ clientTimeout' \in [Ids -> Nat]
      /\ reply' \in Ids
      /\ Cardinality(clients') = Cardinality(clients) + 1
      /\ openSlots' = openSlots - 1
  BY <1>1, <1>2, AddTimeCounts
<1>4. TypeOK'
  BY <1>2, <1>3, TableAssumption DEF TypeOK
<1>5. Stacked' = Stacked
  BY <1>2 DEF Stacked
<1>6. clients' = clients \cup {lastAllocatedId}
  BY <1>2 DEF AddTime
<1>7. 0..lastAllocatedId' - 1 = (0..lastAllocatedId - 1) \cup {lastAllocatedId}
  BY <1>2 DEF TypeOK
<1>8. StackFree'
  <2>1. lastAllocatedId \notin Stacked
    BY DEF StackFree, TypeOK
  <2>2. clients' = (0..lastAllocatedId' - 1) \ Stacked'
    BY <1>5, <1>6, <1>7, <2>1 DEF StackFree
  <2>3. Stacked' \subseteq 0..lastAllocatedId' - 1
    BY <1>5, <1>7 DEF StackFree
  <2> QED BY <1>2, <2>2, <2>3 DEF StackFree
<1>9. SlotsCounted'
  BY <1>2, <1>3, ClientsFinite, TableAssumption DEF SlotsCounted, TypeOK
<1> QED BY <1>1, <1>4, <1>8, <1>9

\* When every id was given once, the stack holds one as long as openSlots is not
\* 0, and what it holds is not in use.
LEMMA ReuseKeeps ==
    ASSUME IInv, NEW time \in Periods, PmonInitReuse(time)
    PROVE  /\ IInv' /\ freeIds[lastFreedSlot] \in Ids \ clients
<1> USE DEF IInv
<1> DEFINE id == freeIds[lastFreedSlot]
<1>1. lastFreedSlot \in 0..MaxClientId - 1
  <2>1. lastAllocatedId = MaxClientId
    BY TableAssumption DEF PmonInitReuse, StackFree, TypeOK
  <2>2. openSlots = lastFreedSlot + 1
    BY <2>1, ClientsFinite, TableAssumption DEF SlotsCounted, TypeOK
  <2> QED BY <2>2 DEF PmonInitReuse, TypeOK
<1>2. id \in Stacked
  BY <1>1 DEF Stacked
<1>3. id \in Ids \ clients
  BY <1>1, <1>2, TableAssumption DEF StackFree, TypeOK, Ids
<1>4. /\ AddTime(id, time) /\ lastFreedSlot' = lastFreedSlot - 1
      /\ UNCHANGED <<lastAllocatedId, freeIds, asked, state>>
      /\ openSlots # 0
  BY DEF PmonInitReuse
<1>5. /\ clients' \subseteq Ids /\ enabled' \subseteq clients'
      /\ left' \in [Ids -> Nat] /\ clientTimeout' \in [Ids -> Nat]
      /\ reply' \in Ids
      /\ Cardinality(clients') = Cardinality(clients) + 1
      /\ openSlots' = openSlots - 1
  BY <1>3, <1>4, AddTimeCounts
<1>6. TypeOK'
  BY <1>1, <1>4, <1>5, TableAssumption DEF TypeOK
<1>7. Stacked' = Stacked \ {id}
  <2>1. Stacked' = {freeIds[i] : i \in 0..lastFreedSlot - 1}
    BY <1>4 DEF Stacked
  <2>2. \A i \in 0..lastFreedSlot - 1 : i \in 0..lastFreedSlot /\ freeIds[i] # id
    BY <1>1 DEF StackFree
  <2>3. \A i \in 0..lastFreedSlot : i \in 0..lastFreedSlot - 1 \/ i = lastFreedSlot
    BY <1>1
  <2> QED BY <2>1, <2>2, <2>3 DEF Stacked
<1>8. clients' = clients \cup {id}
  BY <1>4 DEF AddTime
<1>9. StackFree'
  <2>1. clients' = (0..lastAllocatedId' - 1) \ Stacked'
    BY <1>2, <1>4, <1>7, <1>8 DEF StackFree
  <2>2. Stacked' \subseteq 0..lastAllocatedId' - 1
    BY <1>4, <1>7 DEF StackFree
  <2>3. \A i, j \in 0..lastFreedSlot' : freeIds'[i] = freeIds'[j] => i = j
    BY <1>1, <1>4 DEF StackFree
  <2> QED BY <2>1, <2>2, <2>3 DEF StackFree
<1>10. SlotsCounted'
  BY <1>1, <1>4, <1>5, ClientsFinite, TableAssumption DEF SlotsCounted, TypeOK
<1> QED BY <1>3, <1>6, <1>9, <1>10

\* A removal puts an id that was in use on a stack that has room for it.
LEMMA RemoveKeeps ==
    ASSUME IInv, NEW id \in Ids, PmonRemove(id)
    PROVE  IInv'
<1> USE DEF IInv
<1>1. /\ id \in clients
      /\ clients' = clients \ {id} /\ enabled' = enabled \ {id}
      /\ lastFreedSlot' = lastFreedSlot + 1 /\ openSlots' = openSlots + 1
      /\ freeIds' = [freeIds EXCEPT ![lastFreedSlot + 1] = id]
      /\ UNCHANGED <<left, clientTimeout, lastAllocatedId, reply, asked, state>>
  BY DEF PmonRemove
<1>2. Cardinality(clients) > 0 /\ Cardinality(clients) \in Nat
  BY <1>1, ClientsFinite
<1>3. Cardinality(clients') = Cardinality(clients) - 1
  BY <1>1, ClientsFinite, FS_RemoveElement
<1>4. lastFreedSlot + 1 \in 0..MaxClientId - 1
  BY <1>2, TableAssumption DEF SlotsCounted, TypeOK
<1>5. TypeOK'
  <2>1. openSlots + 1 \in 0..MaxClientId
    BY <1>2, TableAssumption DEF SlotsCounted, TypeOK
  <2>2. freeIds' \in [Ids -> Ids \cup {-1}]
    BY <1>1 DEF TypeOK
  <2> QED BY <1>1, <1>4, <2>1, <2>2 DEF TypeOK
<1>6. /\ freeIds'[lastFreedSlot + 1] = id
      /\ \A i \in 0..lastFreedSlot : freeIds'[i] = freeIds[i]
  BY <1>1, <1>4 DEF TypeOK, Ids
<1>7. 0..lastFreedSlot' = (0..lastFreedSlot) \cup {lastFreedSlot + 1}
  BY <1>1, <1>4, TableAssumption DEF TypeOK
<1>8. Stacked' = Stacked \cup {id}
  <2>1. Stacked' = {freeIds'[i] : i \in 0..lastFreedSlot'}
    BY DEF Stacked
  <2> QED BY <1>6, <1>7, <2>1 DEF Stacked
<1>9. StackFree'
  <2>1. id \notin Stacked /\ id \in 0..lastAllocatedId - 1
    BY <1>1 DEF StackFree
  <2>2. \A i \in 0..lastFreedSlot : freeIds'[i] \in Stacked
    BY <1>6 DEF Stacked
  <2>3. \A i, j \in 0..lastFreedSlot' : freeIds'[i] = freeIds'[j] => i = j
    BY <1>6, <1>7, <2>1, <2>2 DEF StackFree
  <2>4. clients' = (0..lastAllocatedId' - 1) \ Stacked'
    BY <1>1, <1>8 DEF StackFree
  <2>5. Stacked' \subseteq 0..lastAllocatedId' - 1
    BY <1>1, <1>8, <2>1 DEF StackFree
  <2> QED BY <2>3, <2>4, <2>5 DEF StackFree
<1>10. SlotsCounted'
  BY <1>1, <1>2, <1>3, <1>4, TableAssumption DEF SlotsCounted, TypeOK
<1> QED BY <1>5, <1>9, <1>10

\* What leaves the table alone leaves the invariant.
LEMMA TableKept ==
    ASSUME IInv, UNCHANGED table, enabled' \subseteq enabled,
           left' \in [Ids -> Nat], reply' \in Ids \cup {-1}, asked' \in BOOLEAN,
           state' \in {"serving", "writing", "overrun"}
    PROVE  IInv'
<1>1. TypeOK'
  BY DEF IInv, TypeOK, table
<1>2. StackFree' /\ SlotsCounted'
  BY DEF IInv, StackFree, Stacked, SlotsCounted, table
<1> QED BY <1>1, <1>2 DEF IInv

\* Every step keeps the invariant.
LEMMA StepKeeps == IInv /\ [Next]_vars => IInv'
<1> SUFFICES ASSUME IInv, [Next]_vars PROVE IInv'
  OBVIOUS
<1>0. TypeOK
  BY DEF IInv
<1>1. CASE PmonInitFull
  BY <1>0, <1>1, TableKept DEF PmonInitFull, TypeOK
<1>2. CASE PmonInitOverrun
  BY <1>0, <1>2, TableKept DEF PmonInitOverrun, TypeOK
<1>3. ASSUME NEW time \in Periods, PmonInitNext(time) PROVE IInv'
  BY <1>3, NextKeeps
<1>4. ASSUME NEW time \in Periods, PmonInitReuse(time) PROVE IInv'
  BY <1>4, ReuseKeeps
<1>5. ASSUME NEW id \in Ids, PmonRemove(id) PROVE IInv'
  BY <1>5, RemoveKeeps
<1>6. ASSUME NEW id \in Ids, PmonPing(id) PROVE IInv'
  <2>1. left' \in [Ids -> Nat]
    BY <1>0, <1>6 DEF PmonPing, TypeOK
  <2> QED BY <1>0, <1>6, <2>1, TableKept DEF PmonPing, TypeOK
<1>7. ASSUME NEW id \in Ids, Timeout(id) PROVE IInv'
  BY <1>0, <1>7, TableKept DEF Timeout, TypeOK
<1>8. CASE Tick
  <2>1. left' \in [Ids -> Nat]
    BY <1>0, <1>8 DEF Tick, TypeOK
  <2> QED BY <1>0, <1>8, <2>1, TableKept DEF Tick, TypeOK
<1>9. CASE UNCHANGED vars
  BY <1>0, <1>9, TableKept DEF vars, TypeOK
<1> QED
  BY <1>1, <1>2, <1>3, <1>4, <1>5, <1>6, <1>7, <1>8, <1>9 DEF Next, PmonInit

\* The table, the stack of the freed ids and the counter agree at all times, for
\* a table of any length: the stack never runs over or under.
THEOREM TableSound == Spec => []IInv
<1> QED BY InitTable, StepKeeps, PTL DEF Spec
-----------------------------------------------------------------------------
(* The refinement.                                                         *)

Deadline == [id \in Ids |-> IF id \in enabled THEN left[id] ELSE -1]

\* Each step of the table is a step of the registry, or changes nothing of it.
LEMMA StepImplements ==
    IInv /\ [Next]_vars => [Abstract!Next]_(Abstract!vars)
<1> SUFFICES ASSUME IInv, [Next]_vars
             PROVE  Abstract!Next \/ UNCHANGED Abstract!vars
  OBVIOUS
<1> USE DEF IInv
<1>1. CASE PmonInitFull
  <2>1. clients = Ids
    <3>1. lastAllocatedId = MaxClientId /\ lastFreedSlot = -1
      BY <1>1, ClientsFinite, TableAssumption
         DEF PmonInitFull, SlotsCounted, TypeOK
    <3>2. Stacked = {}
      BY <3>1 DEF Stacked
    <3> QED BY <3>1, <3>2 DEF StackFree, Ids
  <2>2. Abstract!Refuse
    BY <1>1, <2>1 DEF PmonInitFull, table, Abstract!Refuse, Abstract!Refused
  <2> QED BY <2>2 DEF Abstract!Next
<1>2. CASE PmonInitOverrun
  BY <1>2 DEF PmonInitOverrun, table, Abstract!vars
<1>3. ASSUME NEW id \in Ids \ clients, NEW time \in Periods, AddTime(id, time),
             asked' = asked
      PROVE  Abstract!Next
  <2>1. Deadline' = [Deadline EXCEPT ![id] = time]
    BY <1>3 DEF AddTime, Deadline, TypeOK
  <2>2. Abstract!Register(id, time)
    BY <1>3, <2>1 DEF AddTime, Deadline, Abstract!Register
  <2> QED BY <2>2 DEF Abstract!Next
<1>4. ASSUME NEW time \in Periods, PmonInitNext(time) PROVE Abstract!Next
  BY <1>3, <1>4, NextKeeps DEF PmonInitNext
<1>5. ASSUME NEW time \in Periods, PmonInitReuse(time) PROVE Abstract!Next
  BY <1>3, <1>5, ReuseKeeps DEF PmonInitReuse
<1>6. ASSUME NEW id \in Ids, PmonRemove(id) PROVE Abstract!Next
  <2>1. Deadline' = [Deadline EXCEPT ![id] = -1]
    BY <1>6 DEF PmonRemove, Deadline
  <2>2. Abstract!GiveUp(id)
    BY <1>6, <2>1 DEF PmonRemove, Deadline, Abstract!GiveUp, Abstract!Off
  <2> QED BY <2>2 DEF Abstract!Next
<1>7. ASSUME NEW id \in Ids, PmonPing(id)
      PROVE  Abstract!Next \/ UNCHANGED Abstract!vars
  <2>1. CASE id \in enabled
    <3>1. Deadline' = [Deadline EXCEPT ![id] = clientTimeout[id]]
      BY <1>7, <2>1 DEF PmonPing, Deadline, TypeOK
    <3>2. Deadline[id] # -1
      BY <2>1 DEF Deadline, TypeOK
    <3>3. Abstract!Refresh(id)
      BY <1>7, <3>1, <3>2 DEF PmonPing, table, Deadline, Abstract!Refresh, Abstract!Off
    <3> QED BY <3>3 DEF Abstract!Next
  <2>2. CASE id \notin enabled
    <3>1. Deadline' = Deadline
      BY <1>7, <2>2 DEF PmonPing, Deadline, TypeOK
    <3> QED BY <1>7, <3>1 DEF PmonPing, table, Deadline, Abstract!vars
  <2> QED BY <2>1, <2>2
<1>8. ASSUME NEW id \in Ids, Timeout(id) PROVE Abstract!Next
  <2>1. Deadline' = [Deadline EXCEPT ![id] = -1] /\ Deadline[id] = 0
    BY <1>8 DEF Timeout, Deadline
  <2>2. Abstract!Expire(id)
    BY <1>8, <2>1 DEF Timeout, table, Deadline, Abstract!Expire, Abstract!Off
  <2> QED BY <2>2 DEF Abstract!Next
<1>9. CASE Tick
  <2>1. Deadline' = [id \in Ids |-> IF Deadline[id] > 0 THEN Deadline[id] - 1
                                                       ELSE Deadline[id]]
    BY <1>9 DEF Tick, Deadline, TypeOK
  <2>2. Abstract!Tick
    BY <1>9, <2>1 DEF Tick, table, Deadline, Abstract!Tick
  <2> QED BY <2>2 DEF Abstract!Next
<1>10. CASE UNCHANGED vars
  BY <1>10 DEF vars, table, Abstract!vars
<1> QED
  BY <1>1, <1>2, <1>4, <1>5, <1>6, <1>7, <1>8, <1>9, <1>10 DEF Next, PmonInit

\* The table implements the registry, for any length of it and any periods: no
\* two clients share an id, one is refused only by a full table, and a shutdown
\* is asked for only when a whole period has passed in silence.
THEOREM PmonImplementsRegistry == Spec => Implements
<1>1. Init => Abstract!Init
  <2> SUFFICES ASSUME Init PROVE Abstract!Init
    OBVIOUS
  <2>1. Deadline = [id \in Ids |-> -1]
    BY DEF Init, Deadline
  <2> QED BY <2>1 DEF Init, Deadline, Abstract!Init, Abstract!Off, Abstract!Refused
<1> QED BY <1>1, TableSound, StepImplements, PTL DEF Spec, Implements, Abstract!Spec
-----------------------------------------------------------------------------
(* That silence is noticed: the part of SilenceNoticed without fairness.   *)

\* A client whose timer is not enabled any more has had the shutdown asked for, and
\* a timer never has more than the period of the client that owns it now, also where
\* the id was another's before.
Watched ==
    /\ clients # enabled => asked
    /\ \A id \in enabled : clientTimeout[id] \in Periods /\ left[id] <= clientTimeout[id]

\* Once asked for, a shutdown stays asked for; a client that was watched is, unless
\* it gives up its id, or its timer fires and asks; and as long as it does not ping,
\* time brings it nearer to that.
WatchKept ==
    /\ asked => asked'
    /\ \A id \in enabled :
         \/ id \notin clients'
         \/ id \notin enabled' /\ left[id] = 0 /\ asked'
         \/ id \in enabled' /\ (PmonPing(id) \/ left'[id] <= left[id])
    /\ Tick => \A id \in enabled : left[id] > 0 => left'[id] < left[id]

\* A registration starts a timer with the period of its own.
LEMMA RegisterWatches ==
    ASSUME IInv, Watched, NEW id \in Ids \ clients, NEW time \in Periods,
           AddTime(id, time), asked' = asked
    PROVE  Watched' /\ \A i \in enabled : i \in enabled' /\ left'[i] = left[i]
<1>1. time \in Nat /\ TypeOK
  BY TableAssumption DEF IInv
<1>2. left'[id] = time /\ clientTimeout'[id] = time
  BY <1>1 DEF AddTime, TypeOK
<1>3. ASSUME NEW i \in enabled
      PROVE  i # id /\ left'[i] = left[i] /\ clientTimeout'[i] = clientTimeout[i]
  BY <1>1 DEF AddTime, TypeOK
<1>4. clients' # enabled' => asked'
  BY <1>1 DEF AddTime, TypeOK, Watched
<1> QED BY <1>1, <1>2, <1>3, <1>4 DEF AddTime, Watched

LEMMA WatchedStep ==
    ASSUME IInv, Watched, Next
    PROVE  Watched' /\ WatchKept
<1>0. TypeOK /\ Periods \subseteq Nat
  BY TableAssumption DEF IInv
<1>1. CASE PmonInitFull \/ PmonInitOverrun
  <2>1. UNCHANGED <<clients, clientTimeout, enabled, left, asked>>
    BY <1>1 DEF PmonInitFull, PmonInitOverrun, table
  <2>2. ~Tick \/ \A id \in enabled : ~(left[id] > 0)
    BY <1>0, <2>1 DEF Tick, TypeOK
  <2> QED BY <1>0, <2>1, <2>2 DEF Watched, WatchKept, TypeOK
<1>2. ASSUME NEW time \in Periods, PmonInitNext(time) \/ PmonInitReuse(time)
      PROVE  Watched' /\ WatchKept
  <2>1. PICK id \in Ids \ clients : AddTime(id, time)
    BY <1>2, NextKeeps, ReuseKeeps DEF PmonInitNext, PmonInitReuse
  <2>2. UNCHANGED asked /\ ~Tick
    BY <1>2, <2>1 DEF PmonInitNext, PmonInitReuse, Tick, AddTime, table
  <2>3. Watched' /\ \A i \in enabled : i \in enabled' /\ left'[i] = left[i]
    BY <2>1, <2>2, RegisterWatches
  <2> QED BY <1>0, <2>2, <2>3 DEF WatchKept, TypeOK
<1>3. ASSUME NEW id \in Ids, PmonRemove(id) PROVE Watched' /\ WatchKept
  BY <1>0, <1>3 DEF PmonRemove, Tick, Watched, WatchKept, TypeOK, table
<1>4. ASSUME NEW id \in Ids, PmonPing(id) PROVE Watched' /\ WatchKept
  <2>1. UNCHANGED <<clients, clientTimeout, enabled, asked>>
    BY <1>4 DEF PmonPing, table
  <2>2. /\ left'[id] = clientTimeout[id]
        /\ \A i \in Ids \ {id} : left'[i] = left[i]
    BY <1>0, <1>4 DEF PmonPing, TypeOK
  <2>3. Watched'
    BY <1>0, <2>1, <2>2 DEF Watched, TypeOK
  <2>4. CASE Tick
    <3>1. \A i \in Ids : left'[i] <= left[i] /\ (left[i] > 0 => left'[i] < left[i])
      BY <1>0, <2>4 DEF Tick, TypeOK
    <3> QED BY <1>0, <2>1, <2>3, <3>1 DEF WatchKept, TypeOK
  <2>5. CASE ~Tick
    BY <1>0, <1>4, <2>1, <2>2, <2>3, <2>5 DEF WatchKept, TypeOK
  <2> QED BY <2>4, <2>5
<1>5. ASSUME NEW id \in Ids, Timeout(id) PROVE Watched' /\ WatchKept
  <2>1. /\ id \in enabled /\ left[id] = 0 /\ enabled' = enabled \ {id} /\ asked' = TRUE
        /\ UNCHANGED <<clients, clientTimeout, left>>
    BY <1>5 DEF Timeout, table
  <2>2. ~Tick
    BY <2>1 DEF Tick
  <2>3. Watched'
    BY <2>1 DEF Watched
  <2>4. \A i \in enabled : left[i] \in Nat
    BY <1>0 DEF TypeOK
  <2> QED BY <2>1, <2>2, <2>3, <2>4 DEF WatchKept
<1>6. CASE Tick
  <2>1. UNCHANGED <<clients, clientTimeout, enabled, asked>>
    BY <1>6 DEF Tick, table
  <2>2. \A i \in Ids : left'[i] <= left[i] /\ (left[i] > 0 => left'[i] < left[i])
    BY <1>0, <1>6 DEF Tick, TypeOK
  <2>3. left' \in [Ids -> Nat]
    BY <1>0, <1>6 DEF Tick, TypeOK
  <2> QED BY <1>0, <2>1, <2>2, <2>3 DEF Watched, WatchKept, TypeOK
<1> QED BY <1>1, <1>2, <1>3, <1>4, <1>5, <1>6 DEF Next, PmonInit

\* No client goes unwatched, for any number of clients and periods: until a shutdown
\* is asked for each has a timer that is enabled, with no more than its own period
\* left, and only a ping gives it more.
THEOREM ClientsWatched == Spec => []Watched /\ [][WatchKept]_vars
<1>1. Init => Watched
  BY DEF Init, Watched
<1>2. IInv /\ Watched /\ [Next]_vars => Watched'
  <2>1. UNCHANGED vars /\ Watched => Watched'
    BY DEF vars, table, Watched
  <2> QED BY <2>1, WatchedStep
<1>3. IInv /\ Watched /\ [Next]_vars => [WatchKept]_vars
  BY WatchedStep
<1> QED BY <1>1, <1>2, <1>3, TableSound, PTL DEF Spec
=============================================================================
