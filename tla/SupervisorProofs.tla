---------------------------- MODULE SupervisorProofs ----------------------------
(***************************************************************************)
(* Proofs about Supervisor, for any number of signals and of services: the *)
(* types, that no service is forgotten and no death missed, and that one   *)
(* service lives at a time, with its pid file, as long as no reload took   *)
(* another signal for a SIGCHLD.  Of what must happen in the end: that the *)
(* signal, the news or the order to stop it waits for is never lost.       *)
(***************************************************************************)
EXTENDS Supervisor, TLAPS

\* The processes start with the types the code gives them.
LEMMA InitTyped == Init => TypeOK
<1> SUFFICES ASSUME Init PROVE TypeOK
  OBVIOUS
<1>1. daemon \in BOOLEAN /\ crossed \in BOOLEAN
  BY Zenon DEF Init
<1>2. pending \in [{"shell", "super"} -> SUBSET Signals]
  BY DEF Init
<1>3. service \in [Services -> {"none", "forked", "starting", "serving", "left",
                                "dead"}]
  BY DEF Init
<1>4. /\ named \in 0..MaxStarts /\ ready \in Nat
      /\ reloads \in 0..MaxReloads /\ ends \in 0..MaxEnds
  BY BoundAssumption DEF Init, MaxStarts
<1> QED BY <1>1, <1>2, <1>3, <1>4 DEF Init, TypeOK

\* Reading and sending keep the sets of signals; one of each:
LEMMA ReadAndSendType ==
    ASSUME pending \in [{"shell", "super"} -> SUBSET Signals],
           NEW p \in {"shell", "super"}, NEW q \in {"shell", "super"},
           NEW sig, NEW what \in Signals, ReadAndSend(p, sig, q, what)
    PROVE  pending' \in [{"shell", "super"} -> SUBSET Signals]
BY DEF ReadAndSend

\* a signal is read,
LEMMA ReadType ==
    ASSUME pending \in [{"shell", "super"} -> SUBSET Signals],
           NEW p \in {"shell", "super"}, NEW sig, Read(p, sig)
    PROVE  pending' \in [{"shell", "super"} -> SUBSET Signals]
BY DEF Read

\* a signal is sent.
LEMMA SendType ==
    ASSUME pending \in [{"shell", "super"} -> SUBSET Signals],
           NEW q \in {"shell", "super"}, NEW what \in Signals, Send(q, what)
    PROVE  pending' \in [{"shell", "super"} -> SUBSET Signals]
BY DEF Send

\* A step of the shell's child, the supervisor or the D-Bus process keeps the
\* types.
LEMMA ProcessesTyped ==
    ASSUME TypeOK, ShellStep \/ SuperStep \/ DbusStep \/ AskReload
    PROVE  TypeOK'
<1> USE DEF TypeOK, outside
<1>1. CASE ForwardEnd
  <2>1. pending' \in [{"shell", "super"} -> SUBSET Signals]
    BY <1>1, ReadAndSendType DEF ForwardEnd, Signals
  <2> QED BY <1>1, <2>1 DEF ForwardEnd
<1>2. CASE ForwardHup
  <2>1. pending' \in [{"shell", "super"} -> SUBSET Signals]
    BY <1>2, ReadAndSendType DEF ForwardHup, Signals
  <2> QED BY <1>2, <2>1 DEF ForwardHup
<1>3. CASE ShellLeaves
  BY <1>3, ReadType DEF ShellLeaves
<1>4. CASE StartService
  <2>1. named + 1 \in 0..MaxStarts /\ named + 1 # 0
    BY <1>4, BoundAssumption DEF StartService, MaxStarts
  <2> QED BY <1>4, <2>1 DEF StartService
<1>5. CASE ReadUsr1
  <2>1. pending' \in [{"shell", "super"} -> SUBSET Signals]
    BY <1>5, ReadType, ReadAndSendType DEF ReadUsr1, Signals
  <2> QED BY <1>5, <2>1 DEF ReadUsr1
<1>6. CASE ReadHup
  <2>1. pending' \in [{"shell", "super"} -> SUBSET Signals]
    BY <1>6, ReadType DEF ReadHup
  <2>2. named \in Services
    BY <1>6, BoundAssumption DEF ReadHup, Services
  <2> QED BY <1>6, <2>1, <2>2 DEF ReadHup
<1>7. CASE ReadSecond
  <2>1. pending' \in [{"shell", "super"} -> SUBSET Signals]
    BY <1>7, ReadType, ReadAndSendType DEF ReadSecond
  <2>2. crossed' \in BOOLEAN
    BY <1>7, Zenon DEF ReadSecond
  <2> QED BY <1>7, <2>1, <2>2 DEF ReadSecond
<1>8. CASE ReadEnd
  <2>1. pending' \in [{"shell", "super"} -> SUBSET Signals]
    BY <1>8, ReadAndSendType DEF ReadEnd, Signals
  <2>2. named \in Services
    BY <1>8, BoundAssumption DEF ReadEnd, Services
  <2> QED BY <1>8, <2>1, <2>2 DEF ReadEnd
<1>9. CASE BlockHup
  BY <1>9 DEF BlockHup
<1>10. CASE DbusStarts
  BY <1>10 DEF DbusStarts
<1>11. CASE AnswerReload
  BY <1>11 DEF AnswerReload
<1>12. CASE DbusEnds
  BY <1>12 DEF DbusEnds
<1>13. CASE AskReload
  <2>1. pending' \in [{"shell", "super"} -> SUBSET Signals]
    BY <1>13, SendType DEF AskReload, Signals
  <2>2. reloads' \in 0..MaxReloads /\ ends' \in 0..MaxEnds
    BY <1>13, BoundAssumption DEF AskReload
  <2> QED BY <1>13, <2>1, <2>2 DEF AskReload
<1> QED
  BY <1>1, <1>2, <1>3, <1>4, <1>5, <1>6, <1>7, <1>8, <1>9, <1>10, <1>11, <1>12, <1>13
     DEF ShellStep, SuperStep, DbusStep

\* So does a step of a service, and a signal from outside.
LEMMA ServicesTyped ==
    ASSUME TypeOK,
           \/ \E s \in Services : ServiceStep(s) \/ Fails(s)
           \/ \E p \in {"shell", "super"}, sig \in {"HUP", "INT", "TERM"} :
                Signalled(p, sig)
    PROVE  TypeOK'
<1> USE DEF TypeOK, outside
<1>1. ASSUME NEW s \in Services, Configure(s) PROVE TypeOK'
  <2>1. pending' \in [{"shell", "super"} -> SUBSET Signals]
    BY <1>1, SendType DEF Configure, Signals
  <2>2. pidfile' \in {"none", "ours", "dead", "other"}
    BY <1>1 DEF Configure, Opened
  <2> QED BY <1>1, <2>1, <2>2 DEF Configure, Moves
<1>2. ASSUME NEW s \in Services, Serve(s) PROVE TypeOK'
  BY <1>2 DEF Serve, Moves
<1>3. ASSUME NEW s \in Services, Leave(s) PROVE TypeOK'
  BY <1>3 DEF Leave, Moves
<1>4. ASSUME NEW s \in Services, Dies(s) PROVE TypeOK'
  <2>1. pending' \in [{"shell", "super"} -> SUBSET Signals]
    BY <1>4, SendType DEF Dies, Signals
  <2> QED BY <1>4, <2>1 DEF Dies
<1>5. ASSUME NEW p \in {"shell", "super"}, NEW sig \in {"HUP", "INT", "TERM"},
             Signalled(p, sig)
      PROVE  TypeOK'
  <2>1. pending' \in [{"shell", "super"} -> SUBSET Signals]
    BY <1>5, SendType DEF Signalled, Signals
  <2>2. reloads' \in 0..MaxReloads /\ ends' \in 0..MaxEnds
    BY <1>5, BoundAssumption DEF Signalled
  <2> QED BY <1>5, <2>1, <2>2 DEF Signalled
<1> QED
  BY <1>1, <1>2, <1>3, <1>4, <1>5 DEF ServiceStep, Ends, Fails

\* Every step keeps the types.
LEMMA TypeStep == TypeOK /\ [Next]_vars => TypeOK'
<1> SUFFICES ASSUME TypeOK, [Next]_vars PROVE TypeOK'
  OBVIOUS
<1>1. CASE Next
  BY <1>1, ProcessesTyped, ServicesTyped DEF Next
<1>2. CASE UNCHANGED vars
  BY <1>2 DEF TypeOK, vars, outside
<1> QED BY <1>1, <1>2

\* Every process of main() keeps its types, whatever signals come and whichever
\* services fail.
THEOREM TypeCorrect == Spec => []TypeOK
BY InitTyped, TypeStep, PTL DEF Spec
-----------------------------------------------------------------------------
(* What the steps do to SIGCHLD and to the services.                       *)

Kept == "CHLD" \in pending["super"] => "CHLD" \in pending'["super"]

\* The shell's child, the D-Bus process and the signals from outside leave the
\* services and SIGCHLD alone.
LEMMA BystandersFrame ==
    ASSUME TypeOK,
           \/ ShellStep \/ DbusStep \/ AskReload
           \/ \E p \in {"shell", "super"}, sig \in {"HUP", "INT", "TERM"} :
                Signalled(p, sig)
    PROVE  /\ UNCHANGED <<daemon, super, named, service, told, pidfile, crossed>>
           /\ "CHLD" \in pending'["super"] <=> "CHLD" \in pending["super"]
<1> USE DEF TypeOK, outside
<1>1. CASE ShellStep
  BY <1>1 DEF ShellStep, ForwardEnd, ForwardHup, ShellLeaves, ReadAndSend, Read
<1>2. CASE DbusStep
  BY <1>2 DEF DbusStep, BlockHup, DbusStarts, AnswerReload, DbusEnds
<1>3. CASE AskReload
  BY <1>3 DEF AskReload, Send
<1>4. ASSUME NEW p \in {"shell", "super"}, NEW sig \in {"HUP", "INT", "TERM"},
             Signalled(p, sig)
      PROVE  /\ UNCHANGED <<daemon, super, named, service, told, pidfile, crossed>>
             /\ "CHLD" \in pending'["super"] <=> "CHLD" \in pending["super"]
  BY <1>4 DEF Signalled, Send
<1> QED BY <1>1, <1>2, <1>3, <1>4

\* A service that takes a step lives before it, changes nobody else, and sends
\* SIGCHLD when, and only when, it dies.
LEMMA ServiceFrame ==
    ASSUME TypeOK, NEW s \in Services, ServiceStep(s) \/ Fails(s)
    PROVE  /\ UNCHANGED <<daemon, super, named, told, crossed>>
           /\ Live(s)
           /\ \A t \in Services \ {s} : service'[t] = service[t]
           /\ service'[s] # "none"
           /\ "CHLD" \in pending["super"] => "CHLD" \in pending'["super"]
           /\ service'[s] = "dead" => "CHLD" \in pending'["super"]
           /\ "CHLD" \in pending'["super"]
                => "CHLD" \in pending["super"] \/ service'[s] = "dead"
<1> USE DEF TypeOK, outside, Live
<1>1. CASE Configure(s)
  BY <1>1 DEF Configure, Moves, Send
<1>2. CASE Serve(s)
  BY <1>2 DEF Serve, Moves
<1>3. CASE Leave(s)
  BY <1>3 DEF Leave, Moves
<1>4. CASE Ends(s) \/ Fails(s)
  <2>1. Dies(s) /\ service[s] \in {"forked", "starting", "serving", "left"}
    BY <1>4 DEF Ends, Fails
  <2> QED BY <2>1 DEF Dies, Send
<1> QED BY <1>1, <1>2, <1>3, <1>4 DEF ServiceStep
-----------------------------------------------------------------------------
(* No service is forgotten, and no death missed.                           *)

\* A number above the last that was given is that of no service yet.
Unborn == \A s \in Services : s > named => service[s] = "none"

LEMMA UnbornStep == TypeOK /\ Unborn /\ [Next]_vars => Unborn'
<1> SUFFICES ASSUME TypeOK, Unborn, [Next]_vars PROVE Unborn'
  OBVIOUS
<1> USE DEF TypeOK, Unborn, outside
<1>0. named \in Nat /\ Services \subseteq Nat
  BY BoundAssumption DEF MaxStarts, Services
<1>1. CASE \/ ShellStep \/ DbusStep \/ AskReload
           \/ \E p \in {"shell", "super"}, sig \in {"HUP", "INT", "TERM"} :
                Signalled(p, sig)
  BY <1>1, BystandersFrame
<1>2. CASE StartService
  BY <1>0, <1>2 DEF StartService
<1>3. CASE ReadUsr1 \/ ReadHup \/ ReadSecond \/ ReadEnd
  BY <1>3 DEF ReadUsr1, ReadHup, ReadSecond, ReadEnd
<1>4. ASSUME NEW s \in Services, ServiceStep(s) \/ Fails(s) PROVE Unborn'
  BY <1>4, ServiceFrame DEF Live
<1>5. CASE UNCHANGED vars
  BY <1>5 DEF vars
<1> QED BY <1>1, <1>2, <1>3, <1>4, <1>5 DEF Next, SuperStep

\* The steps of the supervisor keep both: it names a service when it starts it,
\* whether the fork succeeds or not, and tells it to stop before it leaves the
\* loop.
LEMMA SupervisorKnows ==
    ASSUME TypeOK, Unborn, NoOrphan, DeathNoticed, SuperStep
    PROVE  NoOrphan' /\ DeathNoticed'
<1> USE DEF TypeOK, outside, Unborn, NoOrphan, DeathNoticed, Live
<1>1. CASE StartService
  <2>1. named + 1 \in Services
    BY <1>1, BoundAssumption DEF StartService, MaxStarts, Services
  <2>2. service[named + 1] = "none"
    BY <2>1 DEF Services
  <2>3. service'[named + 1] \in {"none", "forked"}
    BY <1>1, <2>1, <2>2 DEF StartService
  <2>4. \A s \in Services : s # named + 1 => service'[s] = service[s]
    BY <1>1, <2>1 DEF StartService
  <2>5. /\ named' = named + 1 /\ super = "init" /\ super' = "reads"
        /\ UNCHANGED <<told, pending>>
    BY <1>1 DEF StartService
  <2>6. NoOrphan'
    BY <2>1, <2>3, <2>4, <2>5
  <2>7. DeathNoticed'
    BY <2>1, <2>3, <2>5
  <2> QED BY <2>6, <2>7
<1>2. CASE ReadUsr1
  <2>1. Kept /\ super' = super /\ UNCHANGED <<named, service, told>>
    BY <1>2 DEF ReadUsr1, ReadAndSend, Read, Kept
  <2> QED BY <2>1 DEF Kept
<1>3. CASE ReadHup
  BY <1>3 DEF ReadHup
<1>4. CASE ReadSecond
  BY <1>4 DEF ReadSecond
<1>5. CASE ReadEnd
  BY <1>5 DEF ReadEnd
<1> QED BY <1>1, <1>2, <1>3, <1>4, <1>5 DEF SuperStep

\* The invariant: what both rest on is what a number was given for.
Knowing == TypeOK /\ Unborn /\ NoOrphan /\ DeathNoticed

LEMMA KnowingKept == Spec => []Knowing
<1>1. Init => Knowing
  <2> SUFFICES ASSUME Init PROVE Knowing
    OBVIOUS
  <2> QED BY InitTyped DEF Init, Knowing, Unborn, NoOrphan, DeathNoticed, Live
<1>2. Knowing /\ [Next]_vars => Knowing'
  <2> SUFFICES ASSUME Knowing, [Next]_vars
               PROVE  NoOrphan' /\ DeathNoticed'
    BY TypeStep, UnbornStep DEF Knowing
  <2>1. CASE \/ ShellStep \/ DbusStep \/ AskReload
             \/ \E p \in {"shell", "super"}, sig \in {"HUP", "INT", "TERM"} :
                  Signalled(p, sig)
    BY <2>1, BystandersFrame DEF Knowing, NoOrphan, DeathNoticed, Live
  <2>2. CASE SuperStep
    BY <2>2, SupervisorKnows DEF Knowing
  <2>3. ASSUME NEW s \in Services, ServiceStep(s) \/ Fails(s)
        PROVE  NoOrphan' /\ DeathNoticed'
    BY <2>3, ServiceFrame DEF Knowing, NoOrphan, DeathNoticed, Live
  <2>4. CASE UNCHANGED vars
    BY <2>4 DEF Knowing, NoOrphan, DeathNoticed, Live, vars, outside
  <2> QED BY <2>1, <2>2, <2>3, <2>4 DEF Next
<1> QED BY <1>1, <1>2, PTL DEF Spec

\* A service that lives untold is the supervisor's own, and the death of the last
\* one is on record unless the last fork failed: for any number of signals and
\* services.
THEOREM NothingForgotten == Spec => [](NoOrphan /\ DeathNoticed)
<1>1. Knowing => NoOrphan /\ DeathNoticed
  BY DEF Knowing
<1> QED BY <1>1, KnowingKept, PTL

\* The death of the last service is never lost, however SIGCHLDs merge and
\* whichever signal a reload takes for one: the supervisor waits with no service
\* and no SIGCHLD only where its last fork gave it no child.
THEOREM DeathOnRecord == Spec => []DeathNoticed
<1> QED BY NothingForgotten, PTL
-----------------------------------------------------------------------------
(* One service at a time.                                                  *)

\* The strengthening: a SIGCHLD that is still to be read is that of the only
\* service, and init is reached without one.
OneInv ==
    /\ TypeOK
    /\ OneAtATime
    /\ ~crossed /\ "CHLD" \in pending["super"] => \A s \in Services : ~Live(s)
    /\ ~crossed /\ super = "init"
         => "CHLD" \notin pending["super"] /\ \A s \in Services : ~Live(s)

\* The supervisor starts a service when it has read the SIGCHLD of the last.
LEMMA SupervisorWaits ==
    ASSUME OneInv, SuperStep
    PROVE  OneInv'
<1>0. TypeOK'
  BY ProcessesTyped DEF OneInv
<1> USE DEF OneInv, TypeOK, outside, OneAtATime, Live
<1>1. CASE StartService
  <2>1. \A s \in Services : s # named + 1 => service'[s] = service[s]
    BY <1>1 DEF StartService
  <2>2. ~crossed => \A s \in Services : ~Live(s)
    BY <1>1 DEF StartService
  <2>3. UNCHANGED <<crossed, pending>> /\ super = "init" /\ super' = "reads"
    BY <1>1 DEF StartService
  <2>4. ~crossed => \A s, t \in Services : Live(s)' /\ Live(t)' => s = t
    BY <2>1, <2>2
  <2>5. ~crossed => "CHLD" \notin pending["super"]
    BY <2>3
  <2> QED BY <1>0, <2>3, <2>4, <2>5
<1>2. CASE ReadUsr1
  BY <1>0, <1>2 DEF ReadUsr1, ReadAndSend, Read
<1>3. CASE ReadHup
  BY <1>0, <1>3 DEF ReadHup, Read
<1>4. CASE ReadSecond
  <2>1. CASE Read("super", "CHLD") /\ UNCHANGED crossed
    BY <1>0, <1>4, <2>1 DEF ReadSecond, Read, IsNext
  <2>2. CASE crossed' = TRUE
    BY <1>0, <2>2
  <2> QED BY <1>4, <2>1, <2>2 DEF ReadSecond
<1>5. CASE ReadEnd
  BY <1>0, <1>5 DEF ReadEnd, ReadAndSend
<1> QED BY <1>1, <1>2, <1>3, <1>4, <1>5 DEF SuperStep

\* Every step keeps the strengthening.
LEMMA OneStep == OneInv /\ [Next]_vars => OneInv'
<1> SUFFICES ASSUME OneInv, [Next]_vars PROVE OneInv'
  OBVIOUS
<1>0. TypeOK /\ TypeOK'
  BY TypeStep DEF OneInv
<1>1. CASE \/ ShellStep \/ DbusStep \/ AskReload
           \/ \E p \in {"shell", "super"}, sig \in {"HUP", "INT", "TERM"} :
                Signalled(p, sig)
  BY <1>0, <1>1, BystandersFrame DEF OneInv, OneAtATime, Live
<1>2. CASE SuperStep
  BY <1>2, SupervisorWaits
<1>3. ASSUME NEW s \in Services, ServiceStep(s) \/ Fails(s) PROVE OneInv'
  BY <1>0, <1>3, ServiceFrame DEF OneInv, OneAtATime, Live
<1>4. CASE UNCHANGED vars
  BY <1>0, <1>4 DEF OneInv, OneAtATime, Live, vars, outside
<1> QED BY <1>1, <1>2, <1>3, <1>4 DEF Next

\* The supervisor starts with the strengthening.
LEMMA OneInit == Init => OneInv
<1> SUFFICES ASSUME Init PROVE OneInv
  OBVIOUS
<1> QED BY InitTyped DEF Init, OneInv, OneAtATime, Live

\* Never do two services live, as long as every reload was followed by the
\* SIGCHLD of the service it stopped.
THEOREM OneService == Spec => []OneAtATime
<1>1. OneInv => OneAtATime
  BY DEF OneInv
<1> QED BY OneInit, OneStep, <1>1, PTL DEF Spec
-----------------------------------------------------------------------------
(* The pid file.                                                           *)

\* The strengthening: the file is there from the start of a service, before it
\* serves.
FileKept ==
    daemon /\ ~crossed =>
        \A s \in Services :
            service[s] \in {"starting", "serving"} => pidfile \in {"ours", "other"}

\* The supervisor leaves the file alone, and has at most one service forked.
LEMMA SupervisorFrame ==
    ASSUME TypeOK, SuperStep
    PROVE  /\ UNCHANGED <<daemon, pidfile>>
           /\ crossed => crossed'
           /\ \A s \in Services :
                service'[s] = service[s] \/ service'[s] = "forked"
<1> USE DEF TypeOK, outside
<1>1. CASE StartService
  BY <1>1 DEF StartService
<1>2. CASE ReadUsr1 \/ ReadHup \/ ReadEnd
  BY <1>2 DEF ReadUsr1, ReadHup, ReadEnd
<1>3. CASE ReadSecond
  <2>1. UNCHANGED <<daemon, pidfile, service>>
    BY <1>3 DEF ReadSecond
  <2>2. crossed' = crossed \/ crossed' = TRUE
    BY <1>3 DEF ReadSecond
  <2> QED BY <2>1, <2>2
<1> QED BY <1>1, <1>2, <1>3 DEF SuperStep

\* A service that makes the file finds it or makes it; the one that removes it is
\* the only one that lives.
LEMMA ServiceFile ==
    ASSUME OneInv, FileKept, NEW s \in Services, ServiceStep(s) \/ Fails(s)
    PROVE  FileKept'
<1> USE DEF OneInv, TypeOK, FileKept, outside
<1>1. CASE Configure(s)
  BY <1>1 DEF Configure, Moves, Opened
<1>2. CASE Serve(s)
  BY <1>2 DEF Serve, Moves
<1>3. CASE Leave(s)
  BY <1>3 DEF Leave, Moves, OneAtATime, Live
<1>4. CASE Ends(s) \/ Fails(s)
  BY <1>4 DEF Ends, Fails, Dies
<1> QED BY <1>1, <1>2, <1>3, <1>4 DEF ServiceStep

\* A daemon that serves has its pid file, as long as every reload was followed by
\* the SIGCHLD of the service it stopped: only then has the old service removed
\* it before the new one makes it.
THEOREM PidfileKept == Spec => []PidfileThere
<1> DEFINE Inv == OneInv /\ FileKept
<1>1. Init => Inv
  BY OneInit DEF Init, FileKept
<1>2. Inv /\ [Next]_vars => Inv'
  <2> SUFFICES ASSUME Inv, [Next]_vars PROVE FileKept'
    BY OneStep
  <2>0. TypeOK
    BY DEF OneInv
  <2>1. CASE \/ ShellStep \/ DbusStep \/ AskReload
             \/ \E p \in {"shell", "super"}, sig \in {"HUP", "INT", "TERM"} :
                  Signalled(p, sig)
    BY <2>0, <2>1, BystandersFrame DEF FileKept
  <2>2. CASE SuperStep
    BY <2>0, <2>2, SupervisorFrame DEF FileKept
  <2>3. ASSUME NEW s \in Services, ServiceStep(s) \/ Fails(s) PROVE FileKept'
    BY <2>3, ServiceFile
  <2>4. CASE UNCHANGED vars
    BY <2>4 DEF FileKept, vars, outside
  <2> QED BY <2>1, <2>2, <2>3, <2>4 DEF Next
<1>3. Inv => PidfileThere
  BY DEF FileKept, PidfileThere
<1> QED BY <1>1, <1>2, <1>3, PTL DEF Spec
-----------------------------------------------------------------------------
(* What is under way stays under way: the part of the promises about the end *)
(* that needs no fairness.                                                   *)

\* The shell's child that is no daemon's waits for the supervisor's end, and is
\* told of nothing else.
ShellInv ==
    ~daemon => /\ "USR1" \notin pending["super"]
               /\ "USR1" \in pending["shell"] \/ shell = "gone" => super = "gone"

\* A supervisor that goes has told the shell's child.
ShellTold == super = "gone" => shell = "gone" \/ "USR1" \in pending["shell"]

\* A daemon's shell has been told to leave, or will be: the news is with somebody
\* who reads it; with the D-Bus process gone it is nowhere.
Announced ==
    \/ "USR1" \in pending["super"] /\ super # "gone"
    \/ "USR1" \in pending["shell"]
    \/ shell = "gone" \/ dbus = "gone"

News == daemon /\ service[1] \in {"starting", "serving", "left"} => Announced

WayInv == TypeOK /\ ShellInv /\ ShellTold /\ News

\* The processes start on the way.
LEMMA WayInit == Init => WayInv
<1> SUFFICES ASSUME Init PROVE WayInv
  OBVIOUS
<1>1. service[1] = "none"
  BY BoundAssumption DEF Init, Services, MaxStarts
<1> QED BY <1>1, InitTyped DEF Init, WayInv, ShellInv, ShellTold, News

\* The news is passed on by whoever reads it, in a reload too.
LEMMA NewsStep ==
    ASSUME TypeOK, Announced, [Next]_vars
    PROVE  Announced'
<1> USE DEF TypeOK, Announced, outside
<1>1. CASE ShellStep
  BY <1>1 DEF ShellStep, ForwardEnd, ForwardHup, ShellLeaves, ReadAndSend, Read
<1>2. CASE StartService
  BY <1>2 DEF StartService
<1>3. CASE ReadUsr1
  BY <1>3 DEF ReadUsr1, ReadAndSend, Read
<1>4. CASE ReadHup
  BY <1>4 DEF ReadHup, Read
<1>5. CASE ReadSecond
  BY <1>5 DEF ReadSecond, Read, ReadAndSend, Signals
<1>6. CASE ReadEnd
  BY <1>6 DEF ReadEnd, ReadAndSend
<1>7. CASE DbusStep \/ AskReload
  BY <1>7 DEF DbusStep, BlockHup, DbusStarts, AnswerReload, DbusEnds, AskReload, Send
<1>8. ASSUME NEW s \in Services, ServiceStep(s) \/ Fails(s) PROVE Announced'
  <2>1. UNCHANGED <<super, shell, dbus>>
    BY <1>8 DEF ServiceStep, Configure, Serve, Leave, Ends, Fails, Dies
  <2>2. UNCHANGED pending \/ \E sig \in Signals : Send("super", sig)
    BY <1>8 DEF ServiceStep, Configure, Serve, Leave, Ends, Fails, Dies, Signals
  <2> QED BY <2>1, <2>2 DEF Send
<1>9. ASSUME NEW p \in {"shell", "super"}, NEW sig \in {"HUP", "INT", "TERM"},
             Signalled(p, sig)
      PROVE  Announced'
  BY <1>9 DEF Signalled, Send
<1>10. CASE UNCHANGED vars
  BY <1>10 DEF vars
<1> QED
  BY <1>1, <1>2, <1>3, <1>4, <1>5, <1>6, <1>7, <1>8, <1>9, <1>10
     DEF Next, SuperStep

\* A service that becomes a daemon makes the news, and no other step brings one
\* to where it has been announced.
LEMMA NewsMade ==
    ASSUME WayInv, [Next]_vars
    PROVE  News'
<1> USE DEF WayInv, TypeOK, News, outside
<1>0. CASE Announced
  BY <1>0, NewsStep
<1> SUFFICES ASSUME ~Announced PROVE News'
  BY <1>0
<1>1. 1 \in Services
  BY BoundAssumption DEF Services, MaxStarts
<1>2. CASE \/ ShellStep \/ DbusStep \/ AskReload
           \/ \E p \in {"shell", "super"}, sig \in {"HUP", "INT", "TERM"} :
                Signalled(p, sig)
  BY <1>2, BystandersFrame
<1>3. CASE SuperStep
  BY <1>1, <1>3, SupervisorFrame
<1>4. ASSUME NEW s \in Services, Configure(s) PROVE News'
  <2>1. CASE daemon
    BY <1>4, <2>1 DEF Configure, Send, Announced, ShellTold
  <2>2. CASE ~daemon
    BY <1>4, <2>2 DEF Configure
  <2> QED BY <2>1, <2>2
<1>5. ASSUME NEW s \in Services, Serve(s) \/ Leave(s) \/ Ends(s) \/ Fails(s)
      PROVE  News'
  BY <1>1, <1>5 DEF Serve, Leave, Ends, Fails, Dies, Moves
<1>6. CASE UNCHANGED vars
  BY <1>6 DEF vars
<1> QED BY <1>2, <1>3, <1>4, <1>5, <1>6 DEF Next, ServiceStep

\* The supervisor tells the shell's child of its own end, and only a daemon's of
\* anything else.
LEMMA ShellStepKept ==
    ASSUME WayInv, [Next]_vars
    PROVE  ShellInv' /\ ShellTold'
<1> USE DEF WayInv, TypeOK, ShellInv, ShellTold, outside
<1>1. CASE ShellStep
  <2>1. CASE ForwardEnd \/ ForwardHup
    BY <2>1 DEF ForwardEnd, ForwardHup, ReadAndSend
  <2>2. CASE ShellLeaves
    BY <2>2 DEF ShellLeaves, Read, IsNext
  <2> QED BY <1>1, <2>1, <2>2 DEF ShellStep
<1>2. CASE StartService
  BY <1>2 DEF StartService
<1>3. CASE ReadUsr1
  BY <1>3 DEF ReadUsr1, ReadAndSend, Read, IsNext
<1>4. CASE ReadHup
  BY <1>4 DEF ReadHup, Read
<1>5. CASE ReadSecond
  BY <1>5 DEF ReadSecond, Read, ReadAndSend, IsNext, Signals
<1>6. CASE ReadEnd
  BY <1>6 DEF ReadEnd, ReadAndSend
<1>7. CASE DbusStep \/ AskReload
  BY <1>7 DEF DbusStep, BlockHup, DbusStarts, AnswerReload, DbusEnds, AskReload, Send
<1>8. ASSUME NEW s \in Services, ServiceStep(s) \/ Fails(s)
      PROVE  ShellInv' /\ ShellTold'
  <2>1. UNCHANGED <<daemon, super, shell>>
    BY <1>8 DEF ServiceStep, Configure, Serve, Leave, Ends, Fails, Dies
  <2>2. \/ UNCHANGED pending
        \/ Send("super", "CHLD")
        \/ daemon /\ Send("super", "USR1")
    BY <1>8 DEF ServiceStep, Configure, Serve, Leave, Ends, Fails, Dies
  <2> QED BY <2>1, <2>2 DEF Send
<1>9. ASSUME NEW p \in {"shell", "super"}, NEW sig \in {"HUP", "INT", "TERM"},
             Signalled(p, sig)
      PROVE  ShellInv' /\ ShellTold'
  BY <1>9 DEF Signalled, Send
<1>10. CASE UNCHANGED vars
  BY <1>10 DEF vars
<1> QED
  BY <1>1, <1>2, <1>3, <1>4, <1>5, <1>6, <1>7, <1>8, <1>9, <1>10
     DEF Next, SuperStep

LEMMA WayStep == WayInv /\ [Next]_vars => WayInv'
<1> SUFFICES ASSUME WayInv, [Next]_vars PROVE WayInv'
  OBVIOUS
<1>1. TypeOK'
  BY TypeStep DEF WayInv
<1> QED BY <1>1, NewsMade, ShellStepKept DEF WayInv

\* Of a supervisor that has gone the shell's child has been told, or has gone too,
\* and every service that still lives was told to stop: from there on each process
\* of AllEnd has its own reason to end.
Farewell ==
    super = "gone" =>
        /\ shell = "gone" \/ "USR1" \in pending["shell"]
        /\ \A s \in Services : Live(s) => s \in told

\* Whenever the supervisor ends, it has said farewell: nobody waits for it in vain.
THEOREM FarewellSaid == Spec => []Farewell
<1>1. WayInv /\ NoOrphan => Farewell
  BY DEF WayInv, ShellTold, NoOrphan, Farewell
<1> QED BY WayInit, WayStep, NothingForgotten, <1>1, PTL DEF Spec

\* The news that a daemon is up, which DaemonDetaches waits for, is always with a
\* process that will read it, and no step loses it, although a reload may read it
\* for a SIGCHLD: only a D-Bus process that was lost at the start stops it.
THEOREM NewsKept == Spec => []News /\ [][Announced => Announced']_vars
<1>1. WayInv => News
  BY DEF WayInv
<1>2. WayInv /\ [Next]_vars => [Announced => Announced']_vars
  BY NewsStep DEF WayInv
<1> QED BY WayInit, WayStep, <1>1, <1>2, PTL DEF Spec

\* SIGTERM or SIGINT is pending where the supervisor will come to it: at itself, or
\* at a shell's child that is there to forward it.
EndAt(p) == {"INT", "TERM"} \cap pending[p] # {}

Ending == EndAt("super") \/ (~daemon /\ shell = "reads" /\ EndAt("shell"))

EndingKept == Ending => Ending' \/ super' = "gone" \/ (daemon /\ crossed')

\* The steps of the supervisor: what it reads in a reload goes back to the shell's
\* child, which has not left while the supervisor is there.
LEMMA SupervisorEnding ==
    ASSUME WayInv, SuperStep
    PROVE  EndingKept
<1> USE DEF WayInv, TypeOK, EndingKept, Ending, EndAt, outside
<1>1. CASE StartService
  BY <1>1 DEF StartService
<1>2. CASE ReadUsr1
  BY <1>2 DEF ReadUsr1, ReadAndSend, Read
<1>3. CASE ReadHup
  BY <1>3 DEF ReadHup, Read
<1>4. CASE ReadSecond
  <2>1. CASE Read("super", "CHLD") /\ UNCHANGED crossed
    BY <1>4, <2>1 DEF ReadSecond, Read
  <2>2. CASE daemon
    <3>1. crossed' = TRUE \/ Read("super", "CHLD")
      BY <1>4 DEF ReadSecond
    <3> QED BY <1>4, <2>1, <2>2, <3>1 DEF ReadSecond, Read
  <2>3. ASSUME ~daemon, NEW sig \in Signals \ {"CHLD"},
               ReadAndSend("super", sig, "shell", sig)
        PROVE  EndingKept
    <3>1. shell = "reads" /\ UNCHANGED <<daemon, shell>>
      BY <1>4, <2>3 DEF ReadSecond, ShellInv
    <3> QED BY <2>3, <3>1 DEF ReadAndSend
  <2> QED BY <1>4, <2>1, <2>2, <2>3 DEF ReadSecond
<1>5. CASE ReadEnd
  BY <1>5 DEF ReadEnd
<1> QED BY <1>1, <1>2, <1>3, <1>4, <1>5 DEF SuperStep

\* The other steps.
LEMMA OthersEnding ==
    ASSUME WayInv, [Next]_vars, ~SuperStep
    PROVE  EndingKept
<1> USE DEF WayInv, TypeOK, EndingKept, Ending, EndAt, outside
<1>1. CASE ForwardEnd \/ ForwardHup
  BY <1>1 DEF ForwardEnd, ForwardHup, ReadAndSend
<1>2. CASE ShellLeaves
  <2>1. daemon \/ super = "gone"
    BY <1>2 DEF ShellLeaves, Read, IsNext, ShellInv
  <2> QED BY <1>2, <2>1 DEF ShellLeaves, Read
<1>3. CASE DbusStep
  BY <1>3 DEF DbusStep, BlockHup, DbusStarts, AnswerReload, DbusEnds
<1>4. CASE AskReload
  BY <1>4 DEF AskReload, Send
<1>5. ASSUME NEW s \in Services, ServiceStep(s) \/ Fails(s) PROVE EndingKept
  <2>1. UNCHANGED <<daemon, super, shell>>
    BY <1>5 DEF ServiceStep, Configure, Serve, Leave, Ends, Fails, Dies
  <2>2. UNCHANGED pending \/ \E sig \in Signals : Send("super", sig)
    BY <1>5 DEF ServiceStep, Configure, Serve, Leave, Ends, Fails, Dies, Signals
  <2> QED BY <2>1, <2>2 DEF Send
<1>6. ASSUME NEW p \in {"shell", "super"}, NEW sig \in {"HUP", "INT", "TERM"},
             Signalled(p, sig)
      PROVE  EndingKept
  BY <1>6 DEF Signalled, Send
<1>7. CASE UNCHANGED vars
  BY <1>7 DEF vars
<1> QED BY <1>1, <1>2, <1>3, <1>4, <1>5, <1>6, <1>7 DEF Next, ShellStep

\* The part of TerminationTaken that needs no fairness: whatever is read, forwarded
\* or sent back, a SIGTERM or SIGINT stays pending at somebody who will pass it on
\* until the supervisor goes; only a daemon whose reload read it has lost it.
THEOREM TerminationKept == Spec => [][EndingKept]_vars
<1>1. WayInv /\ [Next]_vars => [EndingKept]_vars
  BY SupervisorEnding, OthersEnding
<1> QED BY WayInit, WayStep, <1>1, PTL DEF Spec
-----------------------------------------------------------------------------
(* What never goes back.                                                   *)

\* Each start answers one request to reload, or is the first.
Hups(p) == IF "HUP" \in pending[p] THEN 1 ELSE 0
Due     == IF super \in {"init", "reload"} THEN 1 ELSE 0

StartsInv == named + Due + Hups("shell") + Hups("super") <= reloads + 1

LEMMA StartsStep ==
    ASSUME TypeOK, StartsInv, [Next]_vars
    PROVE  StartsInv'
<1> USE DEF TypeOK, StartsInv, outside
<1>0. named \in Nat /\ reloads \in Nat
  BY BoundAssumption DEF MaxStarts
<1>1. CASE ForwardEnd
  <2>1. "HUP" \in pending'["shell"] <=> "HUP" \in pending["shell"]
    BY <1>1 DEF ForwardEnd, ReadAndSend
  <2>2. "HUP" \in pending'["super"] <=> "HUP" \in pending["super"]
    BY <1>1 DEF ForwardEnd, ReadAndSend
  <2> QED BY <1>0, <1>1, <2>1, <2>2 DEF ForwardEnd, Hups, Due
<1>2. CASE ForwardHup
  <2>1. "HUP" \notin pending'["shell"] /\ "HUP" \in pending["shell"]
    BY <1>2 DEF ForwardHup, ReadAndSend, IsNext
  <2> QED BY <1>0, <1>2, <2>1 DEF ForwardHup, Hups, Due
<1>3. CASE ShellLeaves
  <2>1. "HUP" \in pending'["shell"] => "HUP" \in pending["shell"]
    BY <1>3 DEF ShellLeaves, Read
  <2>2. pending'["super"] = pending["super"]
    BY <1>3 DEF ShellLeaves, Read
  <2> QED BY <1>0, <1>3, <2>1, <2>2 DEF ShellLeaves, Hups, Due
<1>4. CASE StartService
  BY <1>0, <1>4 DEF StartService, Hups, Due
<1>5. CASE ReadUsr1
  <2>1. "HUP" \in pending'["shell"] <=> "HUP" \in pending["shell"]
    BY <1>5 DEF ReadUsr1, ReadAndSend, Read
  <2>2. "HUP" \in pending'["super"] <=> "HUP" \in pending["super"]
    BY <1>5 DEF ReadUsr1, ReadAndSend, Read
  <2> QED BY <1>0, <1>5, <2>1, <2>2 DEF ReadUsr1, Hups, Due
<1>6. CASE ReadHup
  <2>1. /\ "HUP" \notin pending'["super"] /\ "HUP" \in pending["super"]
        /\ pending'["shell"] = pending["shell"]
    BY <1>6 DEF ReadHup, Read, IsNext
  <2> QED BY <1>0, <1>6, <2>1 DEF ReadHup, Hups, Due
<1>7. CASE ReadSecond
  <2>1. \/ /\ "HUP" \in pending'["shell"] <=> "HUP" \in pending["shell"]
           /\ "HUP" \in pending'["super"] => "HUP" \in pending["super"]
        \/ "HUP" \in pending["super"] /\ "HUP" \notin pending'["super"]
    BY <1>7 DEF ReadSecond, ReadAndSend, Read, IsNext
  <2>2. UNCHANGED <<named, reloads>> /\ super = "reload" /\ super' = "init"
    BY <1>7 DEF ReadSecond
  <2> QED BY <1>0, <2>1, <2>2 DEF Hups, Due
<1>8. CASE ReadEnd
  <2>1. /\ "HUP" \in pending'["shell"] <=> "HUP" \in pending["shell"]
        /\ "HUP" \in pending'["super"] => "HUP" \in pending["super"]
    BY <1>8 DEF ReadEnd, ReadAndSend
  <2> QED BY <1>0, <1>8, <2>1 DEF ReadEnd, Hups, Due
<1>9. CASE DbusStep
  BY <1>9 DEF DbusStep, BlockHup, DbusStarts, AnswerReload, DbusEnds, Hups, Due
<1>10. CASE AskReload
  <2>1. "HUP" \in pending'["super"] <=> "HUP" \in pending["super"]
    BY <1>10 DEF AskReload, Send
  <2> QED BY <1>0, <1>10, <2>1 DEF AskReload, Hups, Due
<1>11. ASSUME NEW s \in Services, ServiceStep(s) \/ Fails(s) PROVE StartsInv'
  <2>1. UNCHANGED <<super, named, reloads>>
    BY <1>11 DEF ServiceStep, Configure, Serve, Leave, Ends, Fails, Dies
  <2>2. UNCHANGED pending \/ \E sig \in {"USR1", "CHLD"} : Send("super", sig)
    BY <1>11 DEF ServiceStep, Configure, Serve, Leave, Ends, Fails, Dies
  <2>3. /\ "HUP" \in pending'["shell"] <=> "HUP" \in pending["shell"]
        /\ "HUP" \in pending'["super"] <=> "HUP" \in pending["super"]
    BY <2>2 DEF Send
  <2> QED BY <1>0, <2>1, <2>3 DEF Hups, Due
<1>12. ASSUME NEW p \in {"shell", "super"}, NEW sig \in {"HUP", "INT", "TERM"},
              Signalled(p, sig)
       PROVE  StartsInv'
  <2>1. \/ /\ reloads' = reloads + 1
           /\ \/ pending'["shell"] = pending["shell"]
              \/ pending'["super"] = pending["super"]
        \/ /\ reloads' = reloads
           /\ "HUP" \in pending'["shell"] <=> "HUP" \in pending["shell"]
           /\ "HUP" \in pending'["super"] <=> "HUP" \in pending["super"]
    BY <1>12 DEF Signalled, Send
  <2>2. UNCHANGED <<super, named>>
    BY <1>12 DEF Signalled
  <2> QED BY <1>0, <2>1, <2>2 DEF Hups, Due
<1>13. CASE UNCHANGED vars
  BY <1>13 DEF vars, Hups, Due
<1> QED
  BY <1>1, <1>2, <1>3, <1>4, <1>5, <1>6, <1>7, <1>8, <1>9, <1>10, <1>11, <1>12, <1>13
     DEF Next, ShellStep, SuperStep

\* No more services are started than there were requests to reload, and one: a
\* SIGHUP that a reload reads for a SIGCHLD goes round and starts one service, not
\* two.  So the bound of the model never holds up a supervisor at the label init.
OneStartEach ==
    /\ named <= reloads + 1
    /\ super = "init" => named < MaxStarts

\* However SIGHUPs merge, go round and are read in a reload: one start for each.
THEOREM StartsCounted == Spec => []OneStartEach
<1>1. Init => StartsInv
  BY DEF Init, StartsInv, Hups, Due
<1>2. TypeOK /\ StartsInv => OneStartEach
  <2> SUFFICES ASSUME TypeOK, StartsInv PROVE OneStartEach
    OBVIOUS
  <2>1. named \in Nat /\ reloads \in Nat /\ reloads <= MaxReloads
    BY BoundAssumption DEF TypeOK, MaxStarts
  <2>2. Hups("shell") \in 0..1 /\ Hups("super") \in 0..1 /\ Due \in 0..1
    BY DEF Hups, Due
  <2>3. super = "init" => Due = 1
    BY DEF Due
  <2>4. MaxStarts = MaxReloads + 1
    BY DEF MaxStarts
  <2> HIDE DEF Hups, Due, MaxStarts
  <2> QED BY <2>1, <2>2, <2>3, <2>4, BoundAssumption DEF StartsInv, OneStartEach
<1>3. TypeOK /\ StartsInv /\ [Next]_vars => StartsInv'
  BY StartsStep
<1> QED BY <1>1, <1>2, <1>3, TypeCorrect, PTL DEF Spec

\* A service only goes forward.
Age(s) ==
    CASE service[s] = "none"     -> 0
      [] service[s] = "forked"   -> 1
      [] service[s] = "starting" -> 2
      [] service[s] = "serving"  -> 3
      [] service[s] = "left"     -> 4
      [] OTHER                   -> 5

OnlyForward ==
    /\ told \subseteq told' /\ named <= named'
    /\ \A s \in Services : Age(s) <= Age(s)'

\* No service comes back or is untold to stop, and no number is given twice, so
\* that what NoOrphan says of a service is said of one process.
THEOREM ServicesAge == Spec => [][OnlyForward]_vars
<1>1. Init => Unborn
  BY DEF Init, Unborn
<1>2. TypeOK /\ Unborn /\ [Next]_vars => [OnlyForward]_vars
  <2> SUFFICES ASSUME TypeOK, Unborn, Next PROVE OnlyForward
    BY DEF vars
  <2> USE DEF TypeOK, Unborn, OnlyForward, Age, outside
  <2>0. named \in Nat /\ Services \subseteq Nat
    BY BoundAssumption DEF MaxStarts, Services
  <2>1. CASE \/ ShellStep \/ DbusStep \/ AskReload
             \/ \E p \in {"shell", "super"}, sig \in {"HUP", "INT", "TERM"} :
                  Signalled(p, sig)
    <3>1. UNCHANGED <<named, service, told>>
      BY <2>1, BystandersFrame
    <3> QED BY <2>0, <3>1
  <2>2. CASE StartService
    <3>1. named + 1 \in Services
      BY <2>0, <2>2, BoundAssumption DEF StartService, MaxStarts, Services
    <3>2. service[named + 1] = "none" /\ service'[named + 1] \in {"none", "forked"}
      BY <2>0, <2>2, <3>1 DEF StartService
    <3>3. \A s \in Services : s # named + 1 => service'[s] = service[s]
      BY <2>2, <3>1 DEF StartService
    <3>4. told' = told /\ named' = named + 1
      BY <2>2 DEF StartService
    <3> QED BY <2>0, <3>2, <3>3, <3>4
  <2>3. CASE ReadUsr1 \/ ReadHup \/ ReadSecond \/ ReadEnd
    <3>1. UNCHANGED <<named, service>> /\ told \subseteq told'
      BY <2>3 DEF ReadUsr1, ReadHup, ReadSecond, ReadEnd
    <3> QED BY <2>0, <3>1
  <2>4. ASSUME NEW s \in Services, ServiceStep(s) \/ Fails(s) PROVE OnlyForward
    <3>1. Age(s) <= Age(s)'
      <4>1. CASE Configure(s)
        BY <4>1 DEF Configure, Moves
      <4>2. CASE Serve(s)
        BY <4>2 DEF Serve, Moves
      <4>3. CASE Leave(s)
        BY <4>3 DEF Leave, Moves
      <4>4. CASE Ends(s) \/ Fails(s)
        BY <4>4 DEF Ends, Fails, Dies
      <4> QED BY <2>4, <4>1, <4>2, <4>3, <4>4 DEF ServiceStep
    <3>2. UNCHANGED <<named, told>> /\ \A t \in Services \ {s} : service'[t] = service[t]
      BY <2>4, ServiceFrame
    <3> QED BY <2>0, <3>1, <3>2
  <2> QED BY <2>1, <2>2, <2>3, <2>4 DEF Next, SuperStep
<1> QED BY <1>1, <1>2, UnbornStep, TypeCorrect, PTL DEF Spec
=============================================================================
