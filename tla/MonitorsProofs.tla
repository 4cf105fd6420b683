---------------------------- MODULE MonitorsProofs ----------------------------
(* Proofs about Monitors, for every set of started monitors, of hosts and  *)
(* of test binary codes, and for every limit and option: the safety        *)
(* properties, that Monitors implements Escalation, and that managerlock   *)
(* and the thread that main joins come back to those who wait for them.    *)
EXTENDS Monitors, FiniteSetTheorems, TLAPS

USE DEF LockedMonitors, FreeMonitors, AllMonitors, Callers, Threads, Judged,
        NoThread, Flags, Labels

(* Each step leaves the types alone.                                       *)

\* The threads start with the types the code gives them.
LEMMA InitType == Init => TypeOK
<1> USE HostsAssumption, LimitAssumption, CodesAssumption
    DEF Init, TypeOK, StartLabel, Interfaces
<1> SUFFICES ASSUME Init PROVE TypeOK
    OBVIOUS
<1>1. pc \in [Threads -> Labels]
    OBVIOUS
<1>2. code \in [Callers -> Codes]
    BY DEF Codes
<1>3. wdt \in {"open", "closed"}
    OBVIOUS
<1>4. /\ cxt \in [Hosts -> 0..(PingRetries + 1)] /\ linkMisses \in 0..(LinkRetries + 1)
      /\ behind \subseteq Interfaces /\ cut \in Interfaces \cup {0} /\ passes \in 0..2
    OBVIOUS
<1>5. verdict \in [Judged -> {"none", "pass", "fail"}]
    OBVIOUS
<1>6. /\ stop \in BOOLEAN /\ stopPing \in BOOLEAN /\ cancelled \in BOOLEAN
    BY Zenon
<1>7. /\ error \subseteq Flags /\ todo \subseteq Hosts /\ refused \subseteq Callers
      /\ released \subseteq {"locale", "pingObj", "cfg"}
      /\ sent \subseteq {"SIGRTMIN+4", "SIGRTMIN+5", "SIGRTMIN+6", "SIGRTMIN+15"}
    OBVIOUS
<1>8. QED
    BY <1>1, <1>2, <1>3, <1>4, <1>5, <1>6, <1>7 DEF NumChecks

\* What EndDaemon frees, wherever it ends.
LEMMA ThingsFreed ==
    ASSUME NEW keepalive \in BOOLEAN, EndDaemon(keepalive),
           released \subseteq {"locale", "pingObj", "cfg"}
    PROVE  released' \subseteq {"locale", "pingObj", "cfg"}
BY DEF EndDaemon, Freed

\* Every step keeps the types.
LEMMA TypeStep == TypeOK /\ [Next]_vars => TypeOK'
<1> SUFFICES ASSUME TypeOK, [Next]_vars PROVE TypeOK'
    OBVIOUS
<1>0. setup' = setup
    BY DEF Next, vars
<1> USE <1>0, HostsAssumption, LimitAssumption, CodesAssumption
    DEF TypeOK, vars, shared, pings, nets, ending, Goto, Judge, Interfaces
<1>1. ASSUME NEW m \in LockedMonitors, Acquire(m) PROVE TypeOK'
    BY <1>1 DEF Acquire
<1>2. ASSUME NEW m \in LockedMonitors, Wake(m) PROVE TypeOK'
    BY <1>2 DEF Wake
<1>3. ASSUME NEW m \in LockedMonitors, SpuriousWakeup(m) PROVE TypeOK'
    BY <1>3 DEF SpuriousWakeup
<1>4. ASSUME NEW m \in LockedMonitors, MonitorStep(m) PROVE TypeOK'
  <2>1. CASE CondWait(m)
    BY <2>1 DEF CondWait
  <2>2. ASSUME NEW f \in Flags, NEW l \in Labels, Reset(m, f, l) PROVE TypeOK'
    BY <2>2 DEF Reset, Cleared
  <2>3. CASE TestLoadAvg
    BY <2>3 DEF TestLoadAvg, Verdict
  <2>4. CASE TestMinPages
    BY <2>4 DEF TestMinPages, Verdict
  <2>5. CASE TestMemory
    <3>1. /\ verdict' \in [Judged -> {"none", "pass", "fail"}]
          /\ error' \subseteq Flags
          /\ proc' \in {"running", "crashed", "exited"}
      BY <2>5 DEF TestMemory
    <3>2. QED
      BY <2>5, <3>1 DEF TestMemory
  <2>6. CASE SyncDisks
    BY <2>6 DEF SyncDisks
  <2>7. CASE TestLinks
    <3> DEFINE m1 == "CheckNetworkInterfacesThread"
    <3>1. PICK now \in [Interfaces -> Counts] :
            /\ cut' # 0 => now[cut'] = "same"
            /\ StoreCounts(now)
            /\ \/ /\ Verdict(m1, "NETWORKDOWN", "cond", TRUE) /\ linkMisses' = 0
                  /\ passes' = IF cut' = 0 \/ passes = 2 THEN passes ELSE passes + 1
               \/ CountMiss(m1) /\ UNCHANGED passes
      BY <2>7 DEF TestLinks
    <3>2. /\ verdict' \in [Judged -> {"none", "pass", "fail"}]
          /\ error' \subseteq Flags /\ pc' \in [Threads -> Labels]
      <4>1. \/ Verdict(m1, "NETWORKDOWN", "cond", TRUE)
            \/ Verdict(m1, "NETWORKDOWN", "cond", FALSE)
            \/ Judge(m1, "fail") /\ Goto(m1, "cond") /\ UNCHANGED error
        BY <3>1 DEF CountMiss
      <4>2. m1 \in Judged /\ m1 \in Threads
        BY DEF Judged, AllMonitors, Threads, LockedMonitors
      <4> HIDE DEF m1
      <4>3. /\ verdict' \in [Judged -> {"none", "pass", "fail"}]
            /\ error' \subseteq Flags
        BY <4>1, <4>2 DEF Verdict
      <4>4. pc' \in [Threads -> Labels]
        BY <4>1, <4>2 DEF Verdict
      <4>5. QED
        BY <4>3, <4>4
    <3>3. linkMisses' \in 0..(LinkRetries + 1)
      <4>1. \/ linkMisses' = 0
            \/ linkMisses < LinkRetries /\ linkMisses' = linkMisses + 1
            \/ linkMisses' = LinkRetries + 1
        BY <3>1 DEF CountMiss
      <4>2. QED
        BY <4>1
    <3>4. passes' \in 0..2
      <4>1. /\ passes \in 0..2
            /\ \/ passes' = IF cut' = 0 \/ passes = 2 THEN passes ELSE passes + 1
               \/ passes' = passes
        BY <3>1
      <4>2. CASE passes' = passes
        BY <4>1, <4>2
      <4>3. CASE passes' = passes + 1 /\ passes # 2
        BY <4>1, <4>3
      <4>4. QED
        BY <4>1, <4>2, <4>3
    <3>5. behind' \subseteq Interfaces
      BY <3>1 DEF StoreCounts, Ahead
    <3>6. cut' \in Interfaces \cup {0}
      BY <2>7 DEF TestLinks
    <3>7. QED
      BY <2>7, <3>2, <3>3, <3>4, <3>5, <3>6 DEF TestLinks
  <2>8. CASE TestPidfiles
    <3>1. PICK r \in [1..NumPidFiles -> PidResults] :
            /\ Judge("TestPidfileThread", IF Failing(r) = {} THEN "pass" ELSE "fail")
            /\ error' = error \cup UNION {PidFlag(r[i]) : i \in First(r)}
            /\ Uses(IF \E i \in Seen(r) : NamesErrno(r[i]) THEN {"locale"} ELSE {})
      BY <2>8 DEF TestPidfiles
    <3>2. \A p \in PidResults : PidFlag(p) \subseteq Flags
      BY DEF PidFlag, PidResults
    <3>3. error' \subseteq Flags
      <4>1. \A i \in First(r) : PidFlag(r[i]) \subseteq Flags
        BY <3>2 DEF First, Failing
      <4>2. UNION {PidFlag(r[i]) : i \in First(r)} \subseteq Flags
        <5>1. ASSUME NEW f \in UNION {PidFlag(r[i]) : i \in First(r)}
              PROVE  \E i \in First(r) : f \in PidFlag(r[i])
          OBVIOUS
        <5>2. QED
          BY <4>1, <5>1
      <4>3. error \subseteq Flags
        OBVIOUS
      <4>4. QED
        BY <3>1, <4>2, <4>3
    <3>4. proc' \in {"running", "crashed", "exited"}
      BY <3>1 DEF Uses
    <3>5. QED
      BY <2>8, <3>1, <3>3, <3>4 DEF TestPidfiles
  <2>9. CASE PingSend
    <3>1. /\ todo' \subseteq Hosts
          /\ error' \subseteq Flags
          /\ pc' \in [Threads -> Labels]
          /\ proc' \in {"running", "crashed", "exited"}
      BY <2>9 DEF PingSend, Uses
    <3>2. QED
      BY <2>9, <3>1 DEF PingSend
  <2>10. ASSUME NEW h \in Hosts, HostAnswers(h) PROVE TypeOK'
    BY <2>10 DEF HostAnswers, AfterHost, Uses
  <2>11. ASSUME NEW h \in Hosts, HostMisses(h) PROVE TypeOK'
    <3>1. cxt' \in [Hosts -> 0..(PingRetries + 1)]
      BY <2>11 DEF HostMisses, Tolerated
    <3>2. /\ error' \subseteq Flags
          /\ proc' \in {"running", "crashed", "exited"}
      BY <2>11 DEF HostMisses, Uses
    <3>3. QED
      BY <2>11, <3>1, <3>2 DEF HostMisses, AfterHost
  <2>12. QED
    BY <1>4, <2>1, <2>2, <2>3, <2>4, <2>5, <2>6, <2>7, <2>8, <2>9, <2>10, <2>11
    DEF MonitorStep, PingReset
<1>5. ASSUME NEW m \in FreeMonitors, FreeMonitorStep(m) PROVE TypeOK'
  <2>1. CASE EndSleep(m)
    BY <2>1 DEF EndSleep
  <2>2. CASE ForkProcess
    <3>1. /\ verdict' \in [Judged -> {"none", "pass", "fail"}]
          /\ error' \subseteq Flags
      BY <2>2 DEF ForkProcess
    <3>2. QED
      BY <2>2, <3>1 DEF ForkProcess
  <2>3. CASE RunScripts
    BY <2>3 DEF RunScripts, Verdict
  <2>4. CASE Reset("TestDirThread", "SCRIPTFAILED", "sleep")
    BY <2>4 DEF Reset, Cleared
  <2>5. CASE RunTestBinary
    BY <2>5 DEF RunTestBinary
  <2>6. QED
    BY <1>5, <2>1, <2>2, <2>3, <2>4, <2>5 DEF FreeMonitorStep
<1>6. ASSUME NEW t \in Callers, ShutdownStep(t) PROVE TypeOK'
  <2>1. CASE RepairReturns(t)
    <3>1. refused' \subseteq Callers
      BY <2>1 DEF RepairReturns
    <3>2. pc' \in [Threads -> Labels]
      BY <2>1 DEF RepairReturns
    <3>3. QED
      BY <2>1, <3>1, <3>2 DEF RepairReturns
  <2>2. CASE ShutdownEnds(t)
    <3>1. released' \subseteq {"locale", "pingObj", "cfg"}
      BY <2>2, ThingsFreed DEF ShutdownEnds
    <3>2. QED
      BY <2>2, <3>1 DEF ShutdownEnds, EndDaemon, Uses
  <2>3. CASE SetStopPing(t)
    BY <2>3 DEF SetStopPing
  <2>4. CASE SignalInit(t)
    BY <2>4 DEF SignalInit, SignalFor
  <2>5. QED
    BY <1>6, <2>1, <2>2, <2>3, <2>4 DEF ShutdownStep
<1>7. CASE ManagerLock
    BY <1>7 DEF ManagerLock, Waiters, NumChecks
<1>8. CASE ManagerStep
  <2>1. NextCheck => /\ check' \in 1..NumChecks
                     /\ pc' \in [Threads -> Labels]
    BY DEF NextCheck, NumChecks
  <2>2. CASE ManagerCheck
    <3>1. check' \in 1..NumChecks /\ pc' \in [Threads -> Labels]
      BY <2>1, <2>2 DEF ManagerCheck
    <3>2. QED
      BY <2>2, <3>1 DEF ManagerCheck
  <2>3. CASE ManagerReturn
    BY <2>1, <2>3 DEF ManagerReturn
  <2>4. CASE ManagerCall
    <3>1. CheckedCode[check] \in Codes /\ testExe \in Codes
      BY DEF Codes
    <3>2. QED
      BY <2>4, <3>1 DEF ManagerCall, CallShutdown, Bypasses
  <2>5. CASE ManagerUnlock
    BY <2>5 DEF ManagerUnlock
  <2>6. CASE ManagerSleep
    BY <2>6 DEF ManagerSleep
  <2>7. QED
    BY <1>6, <1>8, <2>2, <2>3, <2>4, <2>5, <2>6 DEF ManagerStep
<1>9. CASE HelperStep \/ HelperCommand
  <2>1. CASE HelperCommand
    <3>1. code' \in [Callers -> Codes] /\ pc' \in [Threads -> Labels]
      BY <2>1 DEF HelperCommand, CallShutdown, Bypasses, Codes
    <3>2. QED
      BY <2>1, <3>1 DEF HelperCommand
  <2>2. CASE HelperLoop
    BY <2>2 DEF HelperLoop
  <2>3. CASE HelperReturn
    BY <2>3 DEF HelperReturn
  <2>4. CASE HelperCancelled
    BY <2>4 DEF HelperCancelled
  <2>5. QED
    BY <1>6, <1>9, <2>1, <2>2, <2>3, <2>4 DEF HelperStep
<1>10. CASE LeaveEventLoop \/ MainStep
  <2>1. CASE LeaveEventLoop
    BY <2>1 DEF LeaveEventLoop
  <2>2. CASE TestStop
    BY <2>2 DEF TestStop
  <2>3. CASE FinalLoop
    BY <2>3 DEF FinalLoop
  <2>4. CASE CancelHelper
    BY <2>4 DEF CancelHelper
  <2>5. CASE JoinHelper
    BY <2>5 DEF JoinHelper
  <2>6. CASE CloseWatchdog
    BY <2>6 DEF CloseWatchdog
  <2>7. CASE MainEnds
    <3>1. released' \subseteq {"locale", "pingObj", "cfg"}
      BY <2>7, ThingsFreed DEF MainEnds
    <3>2. QED
      BY <2>7, <3>1 DEF MainEnds, EndDaemon, Uses
  <2>8. CASE Exit
    BY <2>8 DEF Exit
  <2>9. QED
    BY <1>10, <2>1, <2>2, <2>3, <2>4, <2>5, <2>6, <2>7, <2>8 DEF MainStep
<1>11. CASE UNCHANGED vars
    BY <1>11
<1>12. QED
    BY <1>1, <1>2, <1>3, <1>4, <1>5, <1>6, <1>7, <1>8, <1>9, <1>10, <1>11
    DEF Next, Step

(* What a step of one kind of thread leaves alone.                         *)

\* A monitor steps inside its critical section, and touches neither the
\* callers of Shutdown nor their data.
LEMMA MonitorFrame ==
    ASSUME TypeOK, NEW m \in LockedMonitors, MonitorStep(m)
    PROVE  /\ pc[m] \in {"test", "hosts", "reset", "cond"}
           /\ \A t \in Callers : pc'[t] = pc[t]
           /\ UNCHANGED <<check, code, refused>>
<1> USE DEF TypeOK, Goto
<1>1. ASSUME NEW l \in Labels, NEW f \in Flags, Reset(m, f, l)
      PROVE  /\ pc[m] = "reset" /\ UNCHANGED <<check, code, refused>>
             /\ \A t \in Callers : pc'[t] = pc[t]
    BY <1>1 DEF Reset
<1>2. ASSUME NEW h \in Hosts, m = "Ping", HostAnswers(h) \/ HostMisses(h)
      PROVE  /\ pc[m] = "hosts" /\ UNCHANGED <<check, code, refused>>
             /\ \A t \in Callers : pc'[t] = pc[t]
    BY <1>2 DEF HostAnswers, HostMisses
<1>3. QED
    BY <1>1, <1>2 DEF MonitorStep, PingReset, CondWait, TestLoadAvg, TestMinPages,
       TestMemory, SyncDisks, TestLinks, CountMiss, TestPidfiles, PingSend, Verdict

\* A monitor without the lock touches neither managerlock nor the callers
\* of Shutdown.
LEMMA FreeMonitorFrame ==
    ASSUME TypeOK, NEW m \in FreeMonitors, FreeMonitorStep(m)
    PROVE  /\ \A t \in Callers \cup LockedMonitors : pc'[t] = pc[t]
           /\ UNCHANGED <<check, code, refused, holder, stop, released, proc>>
           /\ \A j \in LockedMonitors \ {"Ping", "Sync"} : verdict'[j] = verdict[j]
           /\ error' \cap LockedFlags \subseteq error
<1> USE DEF TypeOK, Goto, Judge, ending, shared, Verdict, LockedFlags
<1>1. CASE EndSleep(m)
    BY <1>1 DEF EndSleep
<1>2. CASE ForkProcess
    BY <1>2 DEF ForkProcess
<1>3. CASE RunScripts
    BY <1>3 DEF RunScripts
<1>4. CASE Reset("TestDirThread", "SCRIPTFAILED", "sleep")
    BY <1>4 DEF Reset, Cleared
<1>5. CASE RunTestBinary
    BY <1>5 DEF RunTestBinary
<1>6. QED
    BY <1>1, <1>2, <1>3, <1>4, <1>5 DEF FreeMonitorStep

\* The callers of Shutdown and the main thread do not touch the monitors.
LEMMA CallerFrame ==
    ASSUME TypeOK,
           \/ \E t \in Callers : ShutdownStep(t)
           \/ ManagerStep \/ HelperStep \/ HelperCommand
           \/ LeaveEventLoop \/ MainStep
    PROVE  /\ UNCHANGED <<error, verdict>>
           /\ \A m \in AllMonitors : pc'[m] = pc[m]
<1> USE DEF TypeOK, Goto, shared
<1>1. ASSUME NEW t \in Callers, ShutdownStep(t)
      PROVE  UNCHANGED <<error, verdict>> /\ \A m \in AllMonitors : pc'[m] = pc[m]
    BY <1>1 DEF ShutdownStep, RepairReturns, ShutdownEnds, SetStopPing, SignalInit
<1>2. CASE ManagerCheck \/ ManagerCall \/ ManagerReturn \/ ManagerUnlock \/ ManagerSleep
    BY <1>2 DEF ManagerCheck, ManagerCall, ManagerReturn, ManagerUnlock,
                ManagerSleep, NextCheck, CallShutdown, Bypasses
<1>3. CASE HelperLoop \/ HelperReturn \/ HelperCancelled \/ HelperCommand
    BY <1>3 DEF HelperLoop, HelperReturn, HelperCancelled, HelperCommand, CallShutdown, Bypasses
<1>4. CASE LeaveEventLoop \/ MainStep
    BY <1>4 DEF LeaveEventLoop, MainStep, TestStop, FinalLoop, CancelHelper,
                JoinHelper, CloseWatchdog, MainEnds, Exit
<1>5. QED
    BY <1>1, <1>2, <1>3, <1>4 DEF ManagerStep, HelperStep

\* The D-Bus thread and the main thread do not touch the manager.
LEMMA BystanderFrame ==
    ASSUME TypeOK,
           \/ ShutdownStep("DbusHelper") \/ HelperStep \/ HelperCommand
           \/ LeaveEventLoop \/ MainStep
    PROVE  /\ pc'["ManagerThread"] = pc["ManagerThread"]
           /\ code'["ManagerThread"] = code["ManagerThread"]
           /\ UNCHANGED check
           /\ "ManagerThread" \in refused' <=> "ManagerThread" \in refused
<1> USE DEF TypeOK, Goto
<1>1. CASE ShutdownStep("DbusHelper")
    BY <1>1 DEF ShutdownStep, RepairReturns, ShutdownEnds, SetStopPing, SignalInit
<1>2. CASE HelperLoop \/ HelperReturn \/ HelperCancelled \/ HelperCommand
    BY <1>2 DEF HelperLoop, HelperReturn, HelperCancelled, HelperCommand, CallShutdown, Bypasses
<1>3. CASE LeaveEventLoop \/ MainStep
    BY <1>3 DEF LeaveEventLoop, MainStep, TestStop, FinalLoop, CancelHelper,
                JoinHelper, CloseWatchdog, MainEnds, Exit
<1>4. QED
    BY <1>1, <1>2, <1>3 DEF HelperStep

\* Every step keeps managerlock with the threads of the critical sections.
LEMMA LockStep == ASSUME TypeOK, LockInv, proc = "running", Step PROVE LockInv'
<1> USE DEF TypeOK, LockInv, ShutdownLabels, Goto
<1>1. ASSUME NEW m \in LockedMonitors, Acquire(m) PROVE LockInv'
    BY <1>1 DEF Acquire
<1>2. ASSUME NEW m \in LockedMonitors, Wake(m) PROVE LockInv'
    BY <1>2 DEF Wake
<1>3. ASSUME NEW m \in LockedMonitors, SpuriousWakeup(m) PROVE LockInv'
    BY <1>3 DEF SpuriousWakeup
<1>4. ASSUME NEW m \in LockedMonitors, MonitorStep(m) PROVE LockInv'
  <2>1. CASE CondWait(m)
      BY <2>1 DEF CondWait
  <2>2. CASE m = "LoadAvgThread" /\ Reset(m, "LOADAVGTOOHIGH", "cond")
      BY <2>2 DEF Reset
  <2>3. CASE m = "MinPagesThread" /\ Reset(m, "OUTOFMEMORY", "cond")
      BY <2>3 DEF Reset
  <2>4. CASE m = "CheckNetworkInterfacesThread" /\ Reset(m, "NETWORKDOWN", "cond")
      BY <2>4 DEF Reset
  <2>5. CASE PingReset
      BY <2>5 DEF PingReset, Reset
  <2>6. CASE TestLoadAvg
      BY <2>6 DEF TestLoadAvg, Verdict
  <2>7. CASE TestMinPages
      BY <2>7 DEF TestMinPages, Verdict
  <2>8. CASE TestMemory
      BY <2>8 DEF TestMemory
  <2>9. CASE SyncDisks
      BY <2>9 DEF SyncDisks
  <2>10. CASE TestLinks
      BY <2>10 DEF TestLinks, CountMiss, Verdict
  <2>11. CASE TestPidfiles
      BY <2>11 DEF TestPidfiles
  <2>12. CASE PingSend
      BY <2>12 DEF PingSend
  <2>13. ASSUME NEW h \in Hosts, HostAnswers(h) PROVE LockInv'
      BY <2>13 DEF HostAnswers, AfterHost
  <2>14. ASSUME NEW h \in Hosts, HostMisses(h) PROVE LockInv'
      BY <2>14 DEF HostMisses, AfterHost
  <2>15. QED
      BY <1>4, <2>1, <2>2, <2>3, <2>4, <2>5, <2>6, <2>7, <2>8, <2>9, <2>10, <2>11, <2>12, <2>13, <2>14 DEF MonitorStep
<1>5. ASSUME NEW m \in FreeMonitors, FreeMonitorStep(m) PROVE LockInv'
    BY <1>5, FreeMonitorFrame
<1>6. ASSUME NEW t \in Callers, ShutdownStep(t) PROVE LockInv'
  <2>1. CASE RepairReturns(t)
      BY <2>1 DEF RepairReturns
  <2>2. CASE ShutdownEnds(t)
      BY <2>2 DEF ShutdownEnds
  <2>3. CASE SetStopPing(t)
      BY <2>3 DEF SetStopPing
  <2>4. CASE SignalInit(t)
      BY <2>4 DEF SignalInit
  <2>5. QED
      BY <1>6, <2>1, <2>2, <2>3, <2>4 DEF ShutdownStep
<1>7. CASE ManagerLock
    BY <1>7 DEF ManagerLock, Waiters
<1>8. CASE ManagerStep
  <2>1. CASE ManagerCheck
      BY <2>1 DEF ManagerCheck, NextCheck
  <2>2. CASE ManagerReturn
      BY <2>2 DEF ManagerReturn, NextCheck
  <2>3. CASE ManagerCall
      BY <2>3 DEF ManagerCall, CallShutdown, Bypasses
  <2>4. CASE ManagerUnlock
      BY <2>4 DEF ManagerUnlock
  <2>5. CASE ManagerSleep
      BY <2>5 DEF ManagerSleep
  <2>6. QED
      BY <1>8, <1>6, <2>1, <2>2, <2>3, <2>4, <2>5 DEF ManagerStep
<1>9. CASE HelperStep \/ HelperCommand
  <2>1. CASE HelperCommand
      BY <2>1 DEF HelperCommand, CallShutdown, Bypasses
  <2>2. CASE HelperLoop
      BY <2>2 DEF HelperLoop
  <2>3. CASE HelperReturn
      BY <2>3 DEF HelperReturn
  <2>4. CASE HelperCancelled
      BY <2>4 DEF HelperCancelled
  <2>5. QED
      BY <1>9, <1>6, <2>1, <2>2, <2>3, <2>4 DEF HelperStep
<1>10. CASE LeaveEventLoop \/ MainStep
  <2>1. CASE LeaveEventLoop
      BY <2>1 DEF LeaveEventLoop
  <2>2. CASE TestStop
      BY <2>2 DEF TestStop
  <2>3. CASE FinalLoop
      BY <2>3 DEF FinalLoop
  <2>4. CASE CancelHelper
      BY <2>4 DEF CancelHelper
  <2>5. CASE JoinHelper
      BY <2>5 DEF JoinHelper
  <2>6. CASE CloseWatchdog
      BY <2>6 DEF CloseWatchdog
  <2>7. CASE MainEnds
      BY <2>7 DEF MainEnds
  <2>8. CASE Exit
      BY <2>8 DEF Exit
  <2>9. QED
      BY <1>10, <2>1, <2>2, <2>3, <2>4, <2>5, <2>6, <2>7, <2>8 DEF MainStep
<1>11. QED
    BY <1>1, <1>2, <1>3, <1>4, <1>5, <1>6, <1>7, <1>8, <1>9, <1>10 DEF Step

\* Only EndDaemon frees, and it sets stop.
LEMMA EndStep == ASSUME TypeOK, EndInv, proc = "running", Step PROVE EndInv'
<1> USE DEF TypeOK, EndInv, CrashOnlyAfterEnd, Goto, Judge, EndDaemon, Uses, ending, shared
<1>1. ASSUME NEW m \in LockedMonitors, Acquire(m) PROVE EndInv'
    BY <1>1 DEF Acquire
<1>2. ASSUME NEW m \in LockedMonitors, Wake(m) PROVE EndInv'
    BY <1>2 DEF Wake
<1>3. ASSUME NEW m \in LockedMonitors, SpuriousWakeup(m) PROVE EndInv'
    BY <1>3 DEF SpuriousWakeup
<1>4. ASSUME NEW m \in LockedMonitors, MonitorStep(m) PROVE EndInv'
  <2>1. CASE CondWait(m)
      BY <2>1 DEF CondWait
  <2>2. CASE m = "LoadAvgThread" /\ Reset(m, "LOADAVGTOOHIGH", "cond")
      BY <2>2 DEF Reset
  <2>3. CASE m = "MinPagesThread" /\ Reset(m, "OUTOFMEMORY", "cond")
      BY <2>3 DEF Reset
  <2>4. CASE m = "CheckNetworkInterfacesThread" /\ Reset(m, "NETWORKDOWN", "cond")
      BY <2>4 DEF Reset
  <2>5. CASE PingReset
      BY <2>5 DEF PingReset, Reset
  <2>6. CASE TestLoadAvg
      BY <2>6 DEF TestLoadAvg, Verdict
  <2>7. CASE TestMinPages
      BY <2>7 DEF TestMinPages, Verdict
  <2>8. CASE TestMemory
      BY <2>8 DEF TestMemory
  <2>9. CASE SyncDisks
      BY <2>9 DEF SyncDisks
  <2>10. CASE TestLinks
      BY <2>10 DEF TestLinks, CountMiss, Verdict
  <2>11. CASE TestPidfiles
      BY <2>11 DEF TestPidfiles
  <2>12. CASE PingSend
      BY <2>12 DEF PingSend
  <2>13. ASSUME NEW h \in Hosts, HostAnswers(h) PROVE EndInv'
      BY <2>13 DEF HostAnswers, AfterHost
  <2>14. ASSUME NEW h \in Hosts, HostMisses(h) PROVE EndInv'
      BY <2>14 DEF HostMisses, AfterHost
  <2>15. QED
      BY <1>4, <2>1, <2>2, <2>3, <2>4, <2>5, <2>6, <2>7, <2>8, <2>9, <2>10, <2>11, <2>12, <2>13, <2>14 DEF MonitorStep
<1>5. ASSUME NEW m \in FreeMonitors, FreeMonitorStep(m) PROVE EndInv'
    BY <1>5, FreeMonitorFrame
<1>6. ASSUME NEW t \in Callers, ShutdownStep(t) PROVE EndInv'
  <2>1. CASE RepairReturns(t)
      BY <2>1 DEF RepairReturns
  <2>2. CASE ShutdownEnds(t)
      BY <2>2 DEF ShutdownEnds
  <2>3. CASE SetStopPing(t)
      BY <2>3 DEF SetStopPing
  <2>4. CASE SignalInit(t)
      BY <2>4 DEF SignalInit
  <2>5. QED
      BY <1>6, <2>1, <2>2, <2>3, <2>4 DEF ShutdownStep
<1>7. CASE ManagerLock
    BY <1>7 DEF ManagerLock, Waiters
<1>8. CASE ManagerStep
  <2>1. CASE ManagerCheck
      BY <2>1 DEF ManagerCheck, NextCheck
  <2>2. CASE ManagerReturn
      BY <2>2 DEF ManagerReturn, NextCheck
  <2>3. CASE ManagerCall
      BY <2>3 DEF ManagerCall, CallShutdown, Bypasses
  <2>4. CASE ManagerUnlock
      BY <2>4 DEF ManagerUnlock
  <2>5. CASE ManagerSleep
      BY <2>5 DEF ManagerSleep
  <2>6. QED
      BY <1>8, <1>6, <2>1, <2>2, <2>3, <2>4, <2>5 DEF ManagerStep
<1>9. CASE HelperStep \/ HelperCommand
  <2>1. CASE HelperCommand
      BY <2>1 DEF HelperCommand, CallShutdown, Bypasses
  <2>2. CASE HelperLoop
      BY <2>2 DEF HelperLoop
  <2>3. CASE HelperReturn
      BY <2>3 DEF HelperReturn
  <2>4. CASE HelperCancelled
      BY <2>4 DEF HelperCancelled
  <2>5. QED
      BY <1>9, <1>6, <2>1, <2>2, <2>3, <2>4 DEF HelperStep
<1>10. CASE LeaveEventLoop \/ MainStep
  <2>1. CASE LeaveEventLoop
      BY <2>1 DEF LeaveEventLoop
  <2>2. CASE TestStop
      BY <2>2 DEF TestStop
  <2>3. CASE FinalLoop
      BY <2>3 DEF FinalLoop
  <2>4. CASE CancelHelper
      BY <2>4 DEF CancelHelper
  <2>5. CASE JoinHelper
      BY <2>5 DEF JoinHelper
  <2>6. CASE CloseWatchdog
      BY <2>6 DEF CloseWatchdog
  <2>7. CASE MainEnds
      BY <2>7 DEF MainEnds
  <2>8. CASE Exit
      BY <2>8 DEF Exit
  <2>9. QED
      BY <1>10, <2>1, <2>2, <2>3, <2>4, <2>5, <2>6, <2>7, <2>8 DEF MainStep
<1>11. QED
    BY <1>1, <1>2, <1>3, <1>4, <1>5, <1>6, <1>7, <1>8, <1>9, <1>10 DEF Step

\* A caller comes to EndDaemon by a refusal, or by a code that bypasses it.
LEMMA RepairStep == ASSUME TypeOK, RepairFirst, proc = "running", Step PROVE RepairFirst'
<1> USE DEF TypeOK, RepairFirst, Goto, WECMDREBOOT, WECMDRESET
<1>1. ASSUME NEW m \in LockedMonitors, Acquire(m) PROVE RepairFirst'
    BY <1>1 DEF Acquire
<1>2. ASSUME NEW m \in LockedMonitors, Wake(m) PROVE RepairFirst'
    BY <1>2 DEF Wake
<1>3. ASSUME NEW m \in LockedMonitors, SpuriousWakeup(m) PROVE RepairFirst'
    BY <1>3 DEF SpuriousWakeup
<1>4. ASSUME NEW m \in LockedMonitors, MonitorStep(m) PROVE RepairFirst'
    BY <1>4, MonitorFrame
<1>5. ASSUME NEW m \in FreeMonitors, FreeMonitorStep(m) PROVE RepairFirst'
    BY <1>5, FreeMonitorFrame
<1>6. ASSUME NEW t \in Callers, ShutdownStep(t) PROVE RepairFirst'
  <2>1. CASE RepairReturns(t)
      BY <2>1 DEF RepairReturns
  <2>2. CASE ShutdownEnds(t)
      BY <2>2 DEF ShutdownEnds
  <2>3. CASE SetStopPing(t)
      BY <2>3 DEF SetStopPing
  <2>4. CASE SignalInit(t)
      BY <2>4 DEF SignalInit
  <2>5. QED
      BY <1>6, <2>1, <2>2, <2>3, <2>4 DEF ShutdownStep
<1>7. CASE ManagerLock
    BY <1>7 DEF ManagerLock, Waiters
<1>8. CASE ManagerStep
  <2>1. CASE ManagerCheck
      BY <2>1 DEF ManagerCheck, NextCheck
  <2>2. CASE ManagerReturn
      BY <2>2 DEF ManagerReturn, NextCheck
  <2>3. CASE ManagerCall
      <3>1. check # TestExeCheck => CheckedCode[check] \notin {WECMDREBOOT, WECMDRESET}
      BY DEF CheckedCode, NumChecks, TestExeCheck, WESYSOVERLOAD, WEOTHER, WESCRIPT, WEPIDFILE
    <3>2. QED
      BY <2>3, <3>1 DEF ManagerCall, CallShutdown, Bypasses
  <2>4. CASE ManagerUnlock
      BY <2>4 DEF ManagerUnlock
  <2>5. CASE ManagerSleep
      BY <2>5 DEF ManagerSleep
  <2>6. QED
      BY <1>8, <1>6, <2>1, <2>2, <2>3, <2>4, <2>5 DEF ManagerStep
<1>9. CASE HelperStep \/ HelperCommand
  <2>1. CASE HelperCommand
      <3>1. DbusCode \notin {WECMDREBOOT, WECMDRESET}
      BY DEF DbusCode
    <3>2. pc'["DbusHelper"] \notin {"end", "native", "kill"}
      BY <2>1, <3>1 DEF HelperCommand, CallShutdown, Bypasses
    <3>3. pc'["ManagerThread"] = pc["ManagerThread"] /\ code'["ManagerThread"] = code["ManagerThread"]
      BY <2>1 DEF HelperCommand, CallShutdown, Bypasses
    <3>4. QED
      BY <2>1, <3>2, <3>3 DEF HelperCommand
  <2>2. CASE HelperLoop
      BY <2>2 DEF HelperLoop
  <2>3. CASE HelperReturn
      BY <2>3 DEF HelperReturn
  <2>4. CASE HelperCancelled
      BY <2>4 DEF HelperCancelled
  <2>5. QED
      BY <1>9, <1>6, <2>1, <2>2, <2>3, <2>4 DEF HelperStep
<1>10. CASE LeaveEventLoop \/ MainStep
  <2>1. CASE LeaveEventLoop
      BY <2>1 DEF LeaveEventLoop
  <2>2. CASE TestStop
      BY <2>2 DEF TestStop
  <2>3. CASE FinalLoop
      BY <2>3 DEF FinalLoop
  <2>4. CASE CancelHelper
      BY <2>4 DEF CancelHelper
  <2>5. CASE JoinHelper
      BY <2>5 DEF JoinHelper
  <2>6. CASE CloseWatchdog
      BY <2>6 DEF CloseWatchdog
  <2>7. CASE MainEnds
      BY <2>7 DEF MainEnds
  <2>8. CASE Exit
      BY <2>8 DEF Exit
  <2>9. QED
      BY <1>10, <2>1, <2>2, <2>3, <2>4, <2>5, <2>6, <2>7, <2>8 DEF MainStep
<1>11. QED
    BY <1>1, <1>2, <1>3, <1>4, <1>5, <1>6, <1>7, <1>8, <1>9, <1>10 DEF Step

\* The pid files set none of the flags that have one owner.
LEMMA PidFlagsApart ==
    \A r \in [1..NumPidFiles -> PidResults] :
        LockedFlags \cap UNION {PidFlag(r[i]) : i \in First(r)} = {}
<1> SUFFICES ASSUME NEW r \in [1..NumPidFiles -> PidResults], NEW f \in LockedFlags,
                    f \in UNION {PidFlag(r[i]) : i \in First(r)}
             PROVE  FALSE
    OBVIOUS
<1>1. PICK i \in First(r) : f \in PidFlag(r[i])
    OBVIOUS
<1>2. r[i] \in PidResults
    BY DEF First, Failing
<1>3. QED
    BY <1>1, <1>2 DEF PidFlag, PidResults, LockedFlags

\* A flag with one owner is set with that owner's verdict.
LEMMA FlagStep == ASSUME TypeOK, LockInv, FlagInv, proc = "running", Step PROVE FlagInv'
<1> USE DEF TypeOK, LockInv, FlagInv, LockedFlags, Owner, Cleared, Goto, Judge, ending, shared
<1>1. ASSUME NEW m \in LockedMonitors, Acquire(m) PROVE FlagInv'
    BY <1>1 DEF Acquire
<1>2. ASSUME NEW m \in LockedMonitors, Wake(m) PROVE FlagInv'
    BY <1>2 DEF Wake
<1>3. ASSUME NEW m \in LockedMonitors, SpuriousWakeup(m) PROVE FlagInv'
    BY <1>3 DEF SpuriousWakeup
<1>4. ASSUME NEW m \in LockedMonitors, MonitorStep(m) PROVE FlagInv'
  <2>1. CASE CondWait(m)
      BY <2>1 DEF CondWait
  <2>2. CASE m = "LoadAvgThread" /\ Reset(m, "LOADAVGTOOHIGH", "cond")
      BY <2>2 DEF Reset
  <2>3. CASE m = "MinPagesThread" /\ Reset(m, "OUTOFMEMORY", "cond")
      BY <2>3 DEF Reset
  <2>4. CASE m = "CheckNetworkInterfacesThread" /\ Reset(m, "NETWORKDOWN", "cond")
      BY <2>4 DEF Reset
  <2>5. CASE PingReset
      BY <2>5 DEF PingReset, Reset
  <2>6. CASE TestLoadAvg
      BY <2>6 DEF TestLoadAvg, Verdict
  <2>7. CASE TestMinPages
      BY <2>7 DEF TestMinPages, Verdict
  <2>8. CASE TestMemory
      BY <2>8 DEF TestMemory
  <2>9. CASE SyncDisks
      BY <2>9 DEF SyncDisks
  <2>10. CASE TestLinks
      BY <2>10 DEF TestLinks, CountMiss, Verdict
  <2>11. CASE TestPidfiles
      <3>1. LockedFlags \cap error' \subseteq error
      BY <2>11, PidFlagsApart DEF TestPidfiles
    <3>2. UNCHANGED <<verdict["LoadAvgThread"], verdict["MinPagesThread"],
                      verdict["CheckNetworkInterfacesThread"]>>
      BY <2>11 DEF TestPidfiles
    <3>3. \A f \in LockedFlags : pc'[Owner(f)] = pc[Owner(f)]
      BY <2>11 DEF TestPidfiles
    <3>4. QED
      BY <3>1, <3>2, <3>3
  <2>12. CASE PingSend
      BY <2>12 DEF PingSend
  <2>13. ASSUME NEW h \in Hosts, HostAnswers(h) PROVE FlagInv'
      <3>1. \A f \in LockedFlags : h # Owner(f)
      BY HostsAssumption
    <3>2. QED
      BY <2>13, <3>1 DEF HostAnswers, AfterHost
  <2>14. ASSUME NEW h \in Hosts, HostMisses(h) PROVE FlagInv'
      BY <2>14 DEF HostMisses, AfterHost
  <2>15. QED
      BY <1>4, <2>1, <2>2, <2>3, <2>4, <2>5, <2>6, <2>7, <2>8, <2>9, <2>10, <2>11, <2>12, <2>13, <2>14 DEF MonitorStep
<1>5. ASSUME NEW m \in FreeMonitors, FreeMonitorStep(m) PROVE FlagInv'
    BY <1>5, FreeMonitorFrame
<1>6. ASSUME NEW t \in Callers, ShutdownStep(t) PROVE FlagInv'
    BY <1>6, CallerFrame
<1>7. CASE ManagerLock
    BY <1>7 DEF ManagerLock, Waiters
<1>8. CASE ManagerStep
    BY <1>8, CallerFrame
<1>9. CASE HelperStep \/ HelperCommand
    BY <1>9, CallerFrame
<1>10. CASE LeaveEventLoop \/ MainStep
    BY <1>10, CallerFrame
<1>11. QED
    BY <1>1, <1>2, <1>3, <1>4, <1>5, <1>6, <1>7, <1>8, <1>9, <1>10 DEF Step

\* The owner cannot test while the manager is in Shutdown.
LEMMA ReasonStep == ASSUME TypeOK, LockInv, FlagInv, CurrentReason, proc = "running", Step PROVE CurrentReason'
<1> USE DEF TypeOK, LockInv, FlagInv, CurrentReason, LockedFlags, Owner, InShutdown, ShutdownLabels, Goto, Judge, shared
<1>1. ASSUME NEW m \in LockedMonitors, Acquire(m) PROVE CurrentReason'
    BY <1>1 DEF Acquire
<1>2. ASSUME NEW m \in LockedMonitors, Wake(m) PROVE CurrentReason'
    BY <1>2 DEF Wake
<1>3. ASSUME NEW m \in LockedMonitors, SpuriousWakeup(m) PROVE CurrentReason'
    BY <1>3 DEF SpuriousWakeup
<1>4. ASSUME NEW m \in LockedMonitors, MonitorStep(m) PROVE CurrentReason'
    BY <1>4, MonitorFrame
<1>5. ASSUME NEW m \in FreeMonitors, FreeMonitorStep(m) PROVE CurrentReason'
    BY <1>5, FreeMonitorFrame
<1>6. ASSUME NEW t \in Callers, ShutdownStep(t) PROVE CurrentReason'
  <2>1. CASE RepairReturns(t)
      BY <2>1 DEF RepairReturns
  <2>2. CASE ShutdownEnds(t)
      BY <2>2 DEF ShutdownEnds
  <2>3. CASE SetStopPing(t)
      BY <2>3 DEF SetStopPing
  <2>4. CASE SignalInit(t)
      BY <2>4 DEF SignalInit
  <2>5. QED
      BY <1>6, <2>1, <2>2, <2>3, <2>4 DEF ShutdownStep
<1>7. CASE ManagerLock
    BY <1>7 DEF ManagerLock, Waiters
<1>8. CASE ManagerStep
  <2>1. CASE ManagerCheck
      <3>1. \A f \in LockedFlags :
            f \in CheckedFlags[check] => check # TestExeCheck /\ CheckedFlags[check] = {f}
      BY DEF CheckedFlags, NumChecks, TestExeCheck
    <3>2. CASE Triggered(check)
      <4>1. \A f \in LockedFlags : f \in CheckedFlags[check] => f \in error
        BY <3>1, <3>2 DEF Triggered
      <4>2. \A f \in LockedFlags : pc[Owner(f)] # "reset"
        BY <2>1 DEF ManagerCheck
      <4>3. QED
        BY <2>1, <3>2, <4>1, <4>2 DEF ManagerCheck
    <3>3. CASE ~Triggered(check)
      BY <2>1, <3>3 DEF ManagerCheck, NextCheck
    <3>4. QED
      BY <3>2, <3>3
  <2>2. CASE ManagerReturn
      BY <2>2 DEF ManagerReturn, NextCheck
  <2>3. CASE ManagerCall
      BY <2>3 DEF ManagerCall, CallShutdown, Bypasses
  <2>4. CASE ManagerUnlock
      BY <2>4 DEF ManagerUnlock
  <2>5. CASE ManagerSleep
      BY <2>5 DEF ManagerSleep
  <2>6. QED
      BY <1>8, <1>6, <2>1, <2>2, <2>3, <2>4, <2>5 DEF ManagerStep
<1>9. CASE HelperStep \/ HelperCommand
    BY <1>9, CallerFrame, BystanderFrame
<1>10. CASE LeaveEventLoop \/ MainStep
    BY <1>10, CallerFrame, BystanderFrame
<1>11. QED
    BY <1>1, <1>2, <1>3, <1>4, <1>5, <1>6, <1>7, <1>8, <1>9, <1>10 DEF Step

\* The link test is the only one that touches the interfaces.
LEMMA NetsFrame ==
    ASSUME TypeOK, Step, ~(pc["CheckNetworkInterfacesThread"] = "test" /\ TestLinks)
    PROVE  UNCHANGED nets
<1>1. ASSUME NEW m \in LockedMonitors, Acquire(m) \/ Wake(m) \/ SpuriousWakeup(m)
      PROVE  UNCHANGED nets
    BY <1>1 DEF Acquire, Wake, SpuriousWakeup
<1>2. ASSUME NEW m \in LockedMonitors, MonitorStep(m) PROVE UNCHANGED nets
    BY <1>2 DEF MonitorStep, CondWait, Reset, PingReset, TestLoadAvg, TestMinPages,
                TestMemory, SyncDisks, TestLinks, TestPidfiles, PingSend, HostAnswers,
                HostMisses
<1>3. ASSUME NEW m \in FreeMonitors, FreeMonitorStep(m) PROVE UNCHANGED nets
    BY <1>3 DEF FreeMonitorStep, EndSleep, ForkProcess, RunScripts, Reset, RunTestBinary
<1>4. ASSUME NEW t \in Callers, ShutdownStep(t) PROVE UNCHANGED nets
    BY <1>4 DEF ShutdownStep, RepairReturns, ShutdownEnds, SetStopPing, SignalInit
<1>5. CASE ManagerLock \/ ManagerStep
    BY <1>4, <1>5 DEF ManagerLock, ManagerStep, ManagerCheck, ManagerCall,
                      ManagerReturn, ManagerUnlock, ManagerSleep
<1>6. CASE HelperStep \/ HelperCommand
    BY <1>4, <1>6 DEF HelperStep, HelperLoop, HelperReturn, HelperCancelled, HelperCommand
<1>7. CASE LeaveEventLoop \/ MainStep
    BY <1>7 DEF LeaveEventLoop, MainStep, TestStop, FinalLoop, CancelHelper,
                JoinHelper, CloseWatchdog, MainEnds, Exit
<1>8. QED
    BY <1>1, <1>2, <1>3, <1>4, <1>5, <1>6, <1>7 DEF Step

\* A success after the cut stores the count of the interface that was cut; from
\* then on that interface is dead at every test.
LEMMA LinkStep == ASSUME TypeOK, LinkInv, Step PROVE LinkInv'
<1> USE DEF TypeOK, LinkInv, LinkNoticed
<1>1. CASE ~(pc["CheckNetworkInterfacesThread"] = "test" /\ TestLinks)
    BY <1>1, NetsFrame DEF nets
<1>2. CASE TestLinks
  <2>1. PICK now \in [Interfaces -> Counts] :
          /\ cut' # 0 => now[cut'] = "same"
          /\ StoreCounts(now)
          /\ \/ /\ Dead(now) = {}
                /\ passes' = IF cut' = 0 \/ passes = 2 THEN passes ELSE passes + 1
             \/ Dead(now) # {} /\ UNCHANGED passes
    BY <1>2 DEF TestLinks
  <2>2. /\ IF cut = 0 THEN cut' \in Interfaces \cup {0} ELSE UNCHANGED cut
        /\ cut' \in Interfaces \cup {0}
    BY <1>2 DEF TestLinks
  <2>3. CASE cut' = 0
    BY <2>1, <2>2, <2>3
  <2>4. CASE cut' # 0
    <3>1. cut' \in Interfaces /\ now[cut'] = "same"
      BY <2>1, <2>2, <2>4
    <3>2. cut' \in Ahead(now) <=> cut' \in behind
      BY <3>1 DEF Ahead
    <3>3. CASE Dead(now) = {}
      <4>1. cut' \in behind
        BY <3>1, <3>2, <3>3 DEF Dead
      <4>2. passes = 0
        BY <2>2, <4>1
      <4>3. passes' = 1
        BY <2>1, <2>4, <3>3, <4>2
      <4>4. cut' \notin behind'
        BY <2>1, <3>1, <3>3 DEF StoreCounts
      <4>5. QED
        BY <2>4, <4>3, <4>4
    <3>4. CASE Dead(now) # {}
      <4>1. passes' = passes
        BY <2>1, <3>4
      <4>2. cut' \notin behind => cut' \notin behind'
        BY <2>1, <3>2 DEF StoreCounts
      <4>3. QED
        BY <2>2, <2>4, <4>1, <4>2
    <3>5. QED
      BY <3>3, <3>4
  <2>5. QED
    BY <2>3, <2>4
<1>3. QED
    BY <1>1, <1>2

\* No monitor touches what ends the daemon, or the main thread.
LEMMA EndingFrame ==
    ASSUME TypeOK, \/ \E m \in LockedMonitors : MonitorStep(m)
                   \/ \E m \in FreeMonitors : FreeMonitorStep(m)
    PROVE  pc'["main"] = pc["main"] /\ UNCHANGED <<ending, refused>>
<1> USE DEF TypeOK, Goto
<1>1. ASSUME NEW l \in Labels, NEW f \in Flags, NEW m \in AllMonitors, Reset(m, f, l)
      PROVE  pc'["main"] = pc["main"] /\ UNCHANGED <<ending, refused>>
    BY <1>1 DEF Reset
<1>2. ASSUME NEW h \in Hosts, HostAnswers(h) \/ HostMisses(h)
      PROVE  pc'["main"] = pc["main"] /\ UNCHANGED <<ending, refused>>
    BY <1>2 DEF HostAnswers, HostMisses
<1>3. CASE \E m \in LockedMonitors : MonitorStep(m)
  <2>1. PICK m \in LockedMonitors : MonitorStep(m)
    BY <1>3
  <2>2. CASE PingReset \/ \E f \in Flags : Reset(m, f, "cond")
    BY <1>1, <2>2 DEF PingReset, AllMonitors, LockedMonitors, Labels, Flags
  <2>3. CASE CondWait(m) \/ SyncDisks \/ TestMemory
    BY <2>3 DEF CondWait, SyncDisks, TestMemory, LockedMonitors
  <2>4. CASE TestLoadAvg \/ TestMinPages
    BY <2>4 DEF TestLoadAvg, TestMinPages, Verdict
  <2>5. CASE TestLinks
    BY <2>5 DEF TestLinks, CountMiss, Verdict
  <2>6. CASE TestPidfiles \/ PingSend
    BY <2>6 DEF TestPidfiles, PingSend
  <2>7. QED
    BY <1>2, <2>1, <2>2, <2>3, <2>4, <2>5, <2>6 DEF MonitorStep, Flags
<1>4. CASE \E m \in FreeMonitors : FreeMonitorStep(m)
    BY <1>1, <1>4 DEF FreeMonitorStep, EndSleep, ForkProcess, RunScripts,
       RunTestBinary, Verdict
<1>5. QED
    BY <1>3, <1>4

\* With -q Shutdown returns at once, so that only main ends the daemon.
QuietInv ==
    /\ NoActionHarmless
    /\ NoAction => \A t \in Callers : pc[t] \notin {"spawn", "end", "native", "kill"}

Ending == {"spawn", "end", "native", "kill"}

LEMMA QuietKept ==
    ASSUME QuietInv, UNCHANGED <<setup, stop, stopPing, sent, refused>>,
           pc["main"] = "exit" => pc'["main"] = "exit",
           NoAction => \A t \in Callers : pc[t] \in Ending \/ pc'[t] \notin Ending
    PROVE  QuietInv'
<1>1. NoAction' = NoAction
    BY DEF NoAction
<1>2. NoActionHarmless'
    BY <1>1 DEF QuietInv, NoActionHarmless
<1>3. NoAction' => \A t \in Callers : pc'[t] \notin Ending
    BY <1>1 DEF QuietInv, Ending
<1>4. QED
    BY <1>2, <1>3 DEF QuietInv, Ending

LEMMA QuietStep ==
    ASSUME TypeOK, QuietInv, proc = "running", Step, UNCHANGED setup PROVE QuietInv'
<1> DEFINE Kept == /\ UNCHANGED <<stop, stopPing, sent, refused>>
                   /\ pc["main"] = "exit" => pc'["main"] = "exit"
                   /\ NoAction =>
                        \A t \in Callers : pc[t] \in Ending \/ pc'[t] \notin Ending
<1>0. Kept => QuietInv'
    BY QuietKept
<1>p. pc \in [Threads -> Labels] /\ "main" \in Threads /\ Callers \subseteq Threads
    BY DEF TypeOK, Threads
<1> USE DEF Goto, ending, Ending
<1>1. ASSUME NEW m \in LockedMonitors, Acquire(m) \/ Wake(m) \/ SpuriousWakeup(m)
      PROVE  Kept
    BY <1>1, <1>p DEF Acquire, Wake, SpuriousWakeup, LockedMonitors, Callers
<1>2. ASSUME NEW m \in LockedMonitors, MonitorStep(m) PROVE Kept
    BY <1>2, <1>p, MonitorFrame, EndingFrame
<1>3. ASSUME NEW m \in FreeMonitors, FreeMonitorStep(m) PROVE Kept
    BY <1>3, <1>p, FreeMonitorFrame, EndingFrame
<1>4. ASSUME NEW t \in Callers, ShutdownStep(t) PROVE QuietInv'
  <2>1. ~NoAction
    BY <1>4 DEF ShutdownStep, RepairReturns, ShutdownEnds, SetStopPing, SignalInit,
                QuietInv
  <2>2. ~NoAction'
    BY <2>1 DEF NoAction
  <2>3. QED
    BY <2>2 DEF QuietInv, NoActionHarmless
<1>5. CASE ManagerLock
  <2>1. Kept
    BY <1>5, <1>p DEF ManagerLock, Waiters, LockedMonitors, Callers
  <2>2. QED
    BY <2>1, <1>0
<1>6. CASE ManagerStep
  <2>1. CASE ManagerCheck \/ ManagerReturn \/ ManagerUnlock \/ ManagerSleep
    <3>1. Kept
      BY <2>1, <1>p DEF ManagerCheck, ManagerReturn, ManagerUnlock, ManagerSleep,
                        NextCheck, Callers
    <3>2. QED
      BY <3>1, <1>0
  <2>2. CASE ManagerCall
    <3>1. Kept
      BY <2>2, <1>p DEF ManagerCall, CallShutdown, Callers
    <3>2. QED
      BY <3>1, <1>0
  <2>3. QED
    BY <1>4, <1>6, <2>1, <2>2 DEF ManagerStep, Callers
<1>7. CASE HelperStep \/ HelperCommand
  <2>1. CASE HelperCommand
    <3>1. Kept
      BY <2>1, <1>p DEF HelperCommand, CallShutdown, Callers
    <3>2. QED
      BY <3>1, <1>0
  <2>2. CASE HelperLoop \/ HelperReturn \/ HelperCancelled
    <3>1. Kept
      BY <2>2, <1>p DEF HelperLoop, HelperReturn, HelperCancelled, Callers
    <3>2. QED
      BY <3>1, <1>0
  <2>3. QED
    BY <1>4, <1>7, <2>1, <2>2 DEF HelperStep, Callers
<1>8. CASE LeaveEventLoop \/ MainStep
  <2>1. CASE \/ LeaveEventLoop \/ TestStop \/ FinalLoop \/ CancelHelper
             \/ JoinHelper \/ CloseWatchdog \/ Exit
    <3>1. Kept
      BY <2>1, <1>p DEF LeaveEventLoop, TestStop, FinalLoop, CancelHelper,
                        JoinHelper, CloseWatchdog, Exit, Callers
    <3>2. QED
      BY <3>1, <1>0
  <2>2. CASE MainEnds
    <3>1. /\ UNCHANGED <<stopPing, sent, refused>> /\ pc'["main"] = "exit"
          /\ \A t \in Callers : pc'[t] = pc[t]
      BY <2>2, <1>p DEF MainEnds, Callers
    <3>2. NoAction' = NoAction
      BY DEF NoAction
    <3>3. QED
      BY <3>1, <3>2 DEF QuietInv, NoActionHarmless
  <2>3. QED
    BY <1>8, <2>1, <2>2 DEF MainStep
<1>9. QED
    BY <1>0, <1>1, <1>2, <1>3, <1>4, <1>5, <1>6, <1>7, <1>8 DEF Step

(* Escalation.                                                             *)

\* A test, or what comes after it, ends the process only by a crash.
LEMMA ProcFrame ==
    ASSUME TypeOK, proc = "running",
           \/ \E m \in LockedMonitors : MonitorStep(m)
           \/ \E m \in FreeMonitors : FreeMonitorStep(m)
    PROVE  proc' \in {"running", "crashed"}
<1>1. ASSUME NEW m \in FreeMonitors, FreeMonitorStep(m) PROVE proc' = proc
    BY <1>1, FreeMonitorFrame
<1>2. ASSUME NEW m \in LockedMonitors, MonitorStep(m)
      PROVE  proc' \in {"running", "crashed"}
  <2>1. CASE CondWait(m) \/ SyncDisks \/ TestMemory
    BY <2>1 DEF CondWait, SyncDisks, TestMemory, Uses
  <2>2. CASE TestLoadAvg \/ TestMinPages \/ \E f \in Flags : Reset(m, f, "cond")
    BY <2>2 DEF TestLoadAvg, TestMinPages, Verdict, Reset, Uses
  <2>3. CASE TestLinks
    BY <2>3 DEF TestLinks, CountMiss, Verdict, Uses
  <2>4. CASE TestPidfiles \/ PingSend \/ PingReset
    BY <2>4 DEF TestPidfiles, PingSend, PingReset, Reset, Uses
  <2>5. ASSUME NEW h \in Hosts, HostAnswers(h) \/ HostMisses(h)
        PROVE  proc' \in {"running", "crashed"}
    BY <2>5 DEF HostAnswers, HostMisses, Uses
  <2>6. QED
    BY <1>2, <2>1, <2>2, <2>3, <2>4, <2>5 DEF MonitorStep, Flags
<1>3. QED
    BY <1>1, <1>2

\* What Escalation does not see, but for a crash.
Still ==
    /\ UNCHANGED <<setup, stop, stopPing, sent, wdt>> /\ proc' \in {"running", "crashed"}
    /\ \A t \in Callers : \/ pc'[t] = pc[t]
                          \/ pc[t] \notin Ending /\ pc'[t] \notin Ending
    /\ Leaving' = Leaving
    /\ pc'["main"] \in {"end", "exit"} => pc'["main"] = pc["main"]

LEMMA StillKept ==
    ASSUME TypeOK, OrderInv, proc = "running", Still
    PROVE  OrderInv' /\ (Abstract!Next \/ UNCHANGED Abstract!vars)
<1>1. OrderInv'
    BY DEF OrderInv, Still, ending, Ending
<1>2. Asking' = Asking /\ Doomed' = Doomed
    BY DEF Asking, Doomed, Still, Ending
<1>3. /\ NoAction' = NoAction /\ stop' = stop /\ stopPing' = stopPing
      /\ sent' = sent /\ Leaving' = Leaving /\ wdt' = wdt
    BY DEF Still, ending, NoAction
<1>4. CASE proc' = "crashed"
  <2>1. Abstract!Crash
    BY <1>2, <1>3, <1>4 DEF Abstract!Crash
  <2>2. QED
    BY <1>1, <2>1 DEF Abstract!Next
<1>5. CASE proc' = "running"
    BY <1>1, <1>2, <1>3, <1>5 DEF Abstract!vars
<1>6. QED
    BY <1>1, <1>4, <1>5 DEF Still

\* Every step is one of Escalation, or nothing it sees.
LEMMA EscalationStep ==
    ASSUME TypeOK, OrderInv, proc = "running", Step, UNCHANGED setup
    PROVE  OrderInv' /\ (Abstract!Next \/ UNCHANGED Abstract!vars)
<1> DEFINE Done == OrderInv' /\ (Abstract!Next \/ UNCHANGED Abstract!vars)
<1>0. Still => Done
    BY StillKept
<1>p. /\ pc \in [Threads -> Labels] /\ "main" \in Threads /\ Callers \subseteq Threads
      /\ "main" \notin Callers /\ Callers = {"ManagerThread", "DbusHelper"}
      /\ NoAction' = NoAction
    BY DEF TypeOK, Threads, Callers, NoAction
<1> USE DEF Goto, ending, Ending
<1>1. ASSUME NEW m \in LockedMonitors, Acquire(m) \/ Wake(m) \/ SpuriousWakeup(m)
      PROVE  Still
    BY <1>1, <1>p DEF Acquire, Wake, SpuriousWakeup, LockedMonitors, Leaving, Still
<1>2. ASSUME NEW m \in LockedMonitors, MonitorStep(m) PROVE Still
    BY <1>2, <1>p, MonitorFrame, EndingFrame, ProcFrame DEF Still, Leaving
<1>3. ASSUME NEW m \in FreeMonitors, FreeMonitorStep(m) PROVE Still
    BY <1>3, <1>p, FreeMonitorFrame, EndingFrame, ProcFrame DEF Still, Leaving
<1>4. ASSUME NEW t \in Callers, ShutdownStep(t) PROVE Done
  <2>1. CASE RepairReturns(t)
    <3>1. /\ t \in Asking /\ UNCHANGED <<setup, ending, proc, Leaving>>
          /\ pc'["main"] = pc["main"]
      BY <1>p, <2>1 DEF RepairReturns, Asking, Leaving
    <3>2. \/ Asking' = Asking \ {t} /\ Doomed' = Doomed
          \/ Asking' = Asking \ {t} /\ Doomed' = Doomed \cup {t}
      BY <1>p, <2>1 DEF RepairReturns, Asking, Doomed
    <3>3. Abstract!Repaired(t) \/ Abstract!Refuse(t)
      BY <1>p, <3>1, <3>2 DEF Abstract!Repaired, Abstract!Refuse
    <3>4. OrderInv'
      BY <1>p, <2>1, <3>1 DEF RepairReturns, OrderInv
    <3>5. QED
      BY <3>3, <3>4 DEF Abstract!Next
  <2>2. CASE ShutdownEnds(t)
    <3>1. /\ t \in Doomed /\ UNCHANGED <<setup, stopPing, sent, wdt, Leaving>>
          /\ stop' = TRUE /\ proc' \in {"running", "crashed"}
          /\ pc'["main"] = pc["main"]
      BY <1>p, <2>2 DEF ShutdownEnds, EndDaemon, Uses, Doomed, Leaving
    <3>2. Asking' = Asking /\ Doomed' = Doomed
      BY <1>p, <2>2 DEF ShutdownEnds, Asking, Doomed
    <3>3. Abstract!End
      BY <1>p, <3>1, <3>2 DEF Abstract!End
    <3>4. OrderInv'
      BY <1>p, <2>2, <3>1 DEF ShutdownEnds, OrderInv
    <3>5. QED
      BY <3>3, <3>4 DEF Abstract!Next
  <2>3. CASE SetStopPing(t)
    <3>1. /\ t \in Doomed /\ stop /\ UNCHANGED <<setup, stop, sent, wdt, proc, Leaving>>
          /\ stopPing' = TRUE /\ pc'["main"] = pc["main"]
      BY <1>p, <2>3 DEF SetStopPing, OrderInv, Doomed, Leaving
    <3>2. Asking' = Asking /\ Doomed' = Doomed
      BY <1>p, <2>3 DEF SetStopPing, Asking, Doomed
    <3>3. Abstract!StopPinging
      BY <1>p, <3>1, <3>2 DEF Abstract!StopPinging
    <3>4. OrderInv'
      BY <1>p, <2>3, <3>1 DEF SetStopPing, OrderInv
    <3>5. QED
      BY <3>3, <3>4 DEF Abstract!Next
  <2>4. CASE SignalInit(t)
    <3>1. /\ t \in Doomed /\ stopPing
          /\ UNCHANGED <<setup, stop, stopPing, wdt, proc, Leaving>>
          /\ sent' # {} /\ pc'["main"] = pc["main"]
      BY <1>p, <2>4 DEF SignalInit, OrderInv, Doomed, Leaving
    <3>2. Asking' = Asking /\ Doomed' = Doomed \ {t}
      BY <1>p, <2>4 DEF SignalInit, Asking, Doomed
    <3>3. Abstract!AskInit(t)
      BY <1>p, <3>1, <3>2 DEF Abstract!AskInit
    <3>4. OrderInv'
      BY <1>p, <2>4, <3>1 DEF SignalInit, OrderInv
    <3>5. QED
      BY <3>3, <3>4 DEF Abstract!Next
  <2>5. QED
    BY <1>4, <2>1, <2>2, <2>3, <2>4 DEF ShutdownStep
\* Shutdown is entered with code n; only the manager has one that passes the
\* repair binary by.
<1>5. ASSUME NEW t \in Callers, NEW n, CallShutdown(t, n), pc[t] \in {"call", "read"},
             Bypasses(n) => t = "ManagerThread",
             UNCHANGED <<ending, proc>>
      PROVE  Done
  <2>1. UNCHANGED Leaving /\ pc'["main"] = pc["main"]
    BY <1>5, <1>p DEF CallShutdown, Leaving
  <2>2. t \notin Asking \cup Doomed
    BY <1>5 DEF Asking, Doomed
  <2>3. OrderInv'
    BY <1>5, <1>p, <2>1 DEF CallShutdown, OrderInv
  <2>4. CASE NoAction
    <3>1. Still
      BY <1>5, <1>p, <2>1, <2>4 DEF CallShutdown, Still
    <3>2. QED
      BY <1>0, <3>1
  <2>5. CASE ~NoAction /\ Bypasses(n)
    <3>1. Asking' = Asking /\ Doomed' = Doomed \cup {t}
      BY <1>5, <1>p, <2>5 DEF CallShutdown, Asking, Doomed
    <3>2. Abstract!Command(t)
      BY <1>5, <1>p, <2>1, <2>2, <2>5, <3>1 DEF Abstract!Command
    <3>3. QED
      BY <2>3, <3>2 DEF Abstract!Next
  <2>6. CASE ~NoAction /\ ~Bypasses(n)
    <3>1. Asking' = Asking \cup {t} /\ Doomed' = Doomed
      BY <1>5, <1>p, <2>6 DEF CallShutdown, Asking, Doomed
    <3>2. Abstract!AskRepair(t)
      BY <1>5, <1>p, <2>1, <2>2, <2>6, <3>1 DEF Abstract!AskRepair
    <3>3. QED
      BY <2>3, <3>2 DEF Abstract!Next
  <2>7. QED
    BY <2>4, <2>5, <2>6
<1>6. CASE ManagerLock
  <2>1. Still
    BY <1>6, <1>p DEF ManagerLock, Waiters, LockedMonitors, Leaving, Still
  <2>2. QED
    BY <1>0, <2>1
<1>7. CASE ManagerStep
  <2>1. CASE ManagerCheck \/ ManagerReturn \/ ManagerUnlock \/ ManagerSleep
    <3>1. Still
      BY <1>p, <2>1 DEF ManagerCheck, ManagerReturn, ManagerUnlock, ManagerSleep,
                        NextCheck, Leaving, Still
    <3>2. QED
      BY <1>0, <3>1
  <2>2. CASE ManagerCall
    BY <1>5, <1>p, <2>2 DEF ManagerCall
  <2>3. QED
    BY <1>4, <1>7, <1>p, <2>1, <2>2 DEF ManagerStep
<1>8. CASE HelperStep \/ HelperCommand
  <2>1. CASE HelperLoop \/ HelperReturn \/ HelperCancelled
    <3>1. Still
      BY <1>p, <2>1 DEF HelperLoop, HelperReturn, HelperCancelled, Leaving, Still
    <3>2. QED
      BY <1>0, <3>1
  <2>2. CASE HelperCommand /\ \E next \in {"loop", "gone"} : Goto("DbusHelper", next)
    <3>1. Still
      BY <1>p, <2>2 DEF HelperCommand, Leaving, Still
    <3>2. QED
      BY <1>0, <3>1
  <2>3. CASE HelperCommand /\ CallShutdown("DbusHelper", DbusCode)
    <3>1. ~Bypasses(DbusCode)
      BY DEF Bypasses, DbusCode, WECMDREBOOT, WECMDRESET
    <3>2. pc["DbusHelper"] = "read" /\ UNCHANGED <<ending, proc>>
      BY <2>3 DEF HelperCommand
    <3>3. QED
      BY <1>5, <1>p, <2>3, <3>1, <3>2
  <2>4. QED
    BY <1>4, <1>8, <1>p, <2>1, <2>2, <2>3 DEF HelperStep, HelperCommand
<1>9. CASE LeaveEventLoop \/ MainStep
  <2>0. LeaveEventLoop \/ MainStep =>
          \A t \in Callers : pc'[t] = pc[t]
    BY <1>p DEF LeaveEventLoop, MainStep, TestStop, FinalLoop, CancelHelper,
                JoinHelper, CloseWatchdog, MainEnds, Exit
  <2>c. Asking' = Asking /\ Doomed' = Doomed
    BY <1>9, <2>0 DEF Asking, Doomed
  <2>1. CASE LeaveEventLoop \/ CancelHelper \/ JoinHelper
    <3>1. Still
      BY <1>p, <2>1 DEF LeaveEventLoop, CancelHelper, JoinHelper, Leaving, Still
    <3>2. QED
      BY <1>0, <3>1
  <2>2. CASE TestStop
    <3>1. CASE stop
      <4>1. Still
        BY <1>p, <2>2, <3>1 DEF TestStop, Leaving, Still
      <4>2. QED
        BY <1>0, <4>1
    <3>2. CASE ~stop
      <4>1. Leaving' = TRUE /\ UNCHANGED <<setup, ending, proc>>
        BY <1>p, <2>2, <3>2 DEF TestStop, Leaving
      <4>2. Abstract!Leave
        BY <1>p, <2>c, <3>2, <4>1 DEF Abstract!Leave
      <4>3. OrderInv'
        BY <1>p, <2>2, <3>2 DEF TestStop, OrderInv
      <4>4. QED
        BY <4>2, <4>3 DEF Abstract!Next
    <3>3. QED
      BY <3>1, <3>2
  <2>3. CASE FinalLoop \/ CloseWatchdog
    <3>1. OrderInv'
      BY <1>p, <2>0, <2>3 DEF FinalLoop, CloseWatchdog, OrderInv
    <3>2. UNCHANGED <<setup, stop, stopPing, sent, proc>> /\ Leaving' = Leaving
      BY <1>p, <2>3 DEF FinalLoop, CloseWatchdog, Leaving
    <3>3. wdt' = wdt \/ (wdt' = "closed" /\ (Leaving \/ stopPing))
      BY <2>3 DEF FinalLoop, CloseWatchdog, Leaving
    <3>4. UNCHANGED Abstract!vars \/ Abstract!Close
      BY <1>p, <2>c, <3>2, <3>3 DEF Abstract!vars, Abstract!Close
    <3>5. QED
      BY <3>1, <3>4 DEF Abstract!Next
  <2>4. CASE MainEnds
    <3>1. /\ UNCHANGED <<setup, stopPing, sent, wdt>> /\ Leaving' = Leaving /\ Leaving
          /\ stop' = TRUE /\ proc' \in {"running", "crashed"} /\ wdt = "closed"
      BY <1>p, <2>4 DEF MainEnds, EndDaemon, Uses, Leaving, OrderInv
    <3>2. Abstract!End
      BY <1>p, <2>c, <3>1 DEF Abstract!End
    <3>3. OrderInv'
      BY <1>p, <2>0, <2>4, <3>1 DEF MainEnds, OrderInv
    <3>4. QED
      BY <3>2, <3>3 DEF Abstract!Next
  <2>5. CASE Exit
    <3>1. /\ UNCHANGED <<setup, ending, pc>> /\ Leaving /\ stop /\ wdt = "closed"
          /\ proc' = "exited" /\ Leaving' = Leaving
      BY <2>5 DEF Exit, Leaving, OrderInv
    <3>2. Abstract!Exit
      BY <1>p, <2>c, <3>1 DEF Abstract!Exit
    <3>3. OrderInv'
      BY <3>1 DEF OrderInv
    <3>4. QED
      BY <3>2, <3>3 DEF Abstract!Next
  <2>6. QED
    BY <1>9, <2>1, <2>2, <2>3, <2>4, <2>5 DEF MainStep
<1>10. QED
    BY <1>0, <1>1, <1>2, <1>3, <1>6, <1>7, <1>8, <1>9 DEF Step

(* The theorems.                                                           *)

\* Every reachable state has the types TypeOK gives: the retry contexts stay
\* within their limit whatever the hosts do, Shutdown is called with the codes
\* of errorlist.hpp, of D-Bus and of the test binary only.
THEOREM TypeCorrect == Spec => []TypeOK
  BY InitType, TypeStep, PTL DEF Spec

\* The service starts with the invariant.
LEMMA InitInv == Init => IInv
<1> SUFFICES ASSUME Init PROVE IInv
    OBVIOUS
<1>1. TypeOK
    BY InitType
<1>2. LockInv
    BY DEF Init, StartLabel, LockInv, ShutdownLabels
<1>3. FlagInv /\ EndInv
    BY DEF Init, FlagInv, EndInv, CrashOnlyAfterEnd
<1>4. LinkInv
    BY DEF Init, LinkInv, LinkNoticed
<1>5. CurrentReason /\ RepairFirst
    BY DEF Init, StartLabel, CurrentReason, RepairFirst, InShutdown, ShutdownLabels
<1>6. QED
    BY <1>1, <1>2, <1>3, <1>4, <1>5 DEF IInv

\* Every step keeps the invariant.
LEMMA InvStep == IInv /\ [Next]_vars => IInv'
<1> SUFFICES ASSUME IInv, [Next]_vars PROVE IInv'
    OBVIOUS
<1>1. TypeOK'
    BY TypeStep DEF IInv
<1>2. CASE proc = "running" /\ Step
    BY <1>1, <1>2, LockStep, EndStep, RepairStep, FlagStep, ReasonStep, LinkStep
    DEF IInv
<1>3. CASE UNCHANGED vars
  <2> USE <1>3 DEF IInv, vars, shared, ending
  <2>1. LockInv' /\ FlagInv' /\ EndInv' /\ LinkInv'
    BY DEF LockInv, FlagInv, EndInv, CrashOnlyAfterEnd, LinkInv, LinkNoticed, nets
  <2>2. CurrentReason' /\ RepairFirst'
    BY DEF CurrentReason, RepairFirst, InShutdown
  <2>3. QED
    BY <1>1, <2>1, <2>2
<1>4. QED
    BY <1>2, <1>3 DEF Next

\* The invariant that carries the others: managerlock is owned exactly in the
\* critical sections, and a flag of LockedFlags that is on is its monitor's
\* latest verdict.
THEOREM Invariance == Spec => []IInv
  BY InitInv, InvStep, PTL DEF Spec

\* While the manager repairs or reboots because of the load, of memory or of a
\* link, that monitor's latest verdict is a failure: whichever monitors run,
\* the cause cannot be seen to go away under managerlock.
THEOREM ReasonIsCurrent == Spec => []CurrentReason
<1>1. IInv => CurrentReason
    BY DEF IInv
<1>2. QED
    BY <1>1, Invariance, PTL

\* Neither the D-Bus thread nor the manager ends the daemon past the repair
\* binary, unless the test binary's own result was 254 or 255.
THEOREM RepairComesFirst == Spec => []RepairFirst
<1>1. IInv => RepairFirst
    BY DEF IInv
<1>2. QED
    BY <1>1, Invariance, PTL

\* Freed memory is used by no thread before EndDaemon set stop.
THEOREM NoEarlyCrash == Spec => []CrashOnlyAfterEnd
<1>1. IInv => CrashOnlyAfterEnd
    BY DEF IInv, EndInv
<1>2. QED
    BY <1>1, Invariance, PTL

\* However many interfaces there are, and however they come, go and fall silent:
\* once one receives nothing any more, the link test succeeds at most once more.
THEOREM LinksNoticed == Spec => []LinkNoticed
<1>1. IInv => LinkNoticed
    BY DEF IInv, LinkInv
<1>2. QED
    BY <1>1, Invariance, PTL
\* With -q no failure of whatever monitor, no result of the test binary and no
\* command over D-Bus stops the daemon, signals PID 1 or asks the repair binary.
THEOREM QuietIsHarmless == Spec => []NoActionHarmless
<1>1. Init => QuietInv
    BY DEF Init, StartLabel, QuietInv, NoActionHarmless, NoAction
<1>2. TypeOK /\ QuietInv /\ [Next]_vars => QuietInv'
  <2> SUFFICES ASSUME TypeOK, QuietInv, [Next]_vars PROVE QuietInv'
    OBVIOUS
  <2>1. CASE UNCHANGED vars
    BY <2>1 DEF vars, ending, QuietInv, NoActionHarmless, NoAction
  <2>2. QED
    BY <2>1, QuietStep DEF Next
<1>3. QuietInv => NoActionHarmless
    BY DEF QuietInv
<1>4. QED
    BY <1>1, <1>2, <1>3, TypeCorrect, PTL DEF Spec

\* However the callers of Shutdown and the end of main interleave, for any monitors:
\* the daemon ends, the pinging stops and PID 1 is asked in this order and for a
\* reason, and the device is closed only by then or by a service that was told to
\* leave before it had ended.
THEOREM MonitorsImplementEscalation == Spec => Escalates
<1>1. Init => OrderInv
    BY DEF Init, StartLabel, OrderInv, Callers, Threads, LockedMonitors, FreeMonitors,
           AllMonitors
<1>2. Init => Abstract!Init
  <2> SUFFICES ASSUME Init PROVE Abstract!Init
    OBVIOUS
  <2>1. /\ \A t \in Callers : pc[t] \in {"lock", "loop"}
        /\ pc["main"] = "loop"
    BY DEF Init, StartLabel, Callers, Threads, LockedMonitors, FreeMonitors, AllMonitors
  <2>2. Asking = {} /\ Doomed = {} /\ Leaving = FALSE
    BY <2>1 DEF Asking, Doomed, Leaving
  <2>3. NoAction \in BOOLEAN
    BY SetupsAssumption, Zenon DEF Init, NoAction
  <2>4. QED
    BY <2>2, <2>3 DEF Init, Abstract!Init
<1>3. TypeOK /\ OrderInv /\ [Next]_vars
        => OrderInv' /\ [Abstract!Next]_(Abstract!vars)
  <2> SUFFICES ASSUME TypeOK, OrderInv, [Next]_vars
               PROVE  OrderInv' /\ (Abstract!Next \/ UNCHANGED Abstract!vars)
    OBVIOUS
  <2>1. CASE proc = "running" /\ Step /\ UNCHANGED setup
    BY <2>1, EscalationStep
  <2>2. CASE UNCHANGED vars
    BY <2>2 DEF vars, ending, OrderInv, Abstract!vars, Asking, Doomed, Leaving, NoAction
  <2>3. QED
    BY <2>1, <2>2 DEF Next
<1>4. QED
    BY <1>1, <1>2, <1>3, TypeCorrect, PTL DEF Spec, Escalates, Abstract!Spec

(* When a failure stays on record, which ProblemReachesManager says it      *)
(* always does: when no other monitor clears the word of flags.             *)

\* The monitors whose success empties the word.
Clearers == {"LoadAvgThread", "MinPagesThread", "Ping", "CheckNetworkInterfacesThread",
             "TestDirThread"}

\* The flags that each failure of their owner sets.
Recorded == {"LOADAVGTOOHIGH", "OUTOFMEMORY"}

Alone(f) == Started \cap Clearers \subseteq {Owner(f)}

OnRecord(f) == verdict[Owner(f)] = "fail" => f \in error

RecordInv ==
    /\ \A m \in AllMonitors \ Started : pc[m] = "gone"
    /\ \A f \in Recorded : Alone(f) => /\ OnRecord(f)
                                       /\ verdict[Owner(f)] = "fail" => pc[Owner(f)] # "reset"

\* The step of a monitor under the lock.  It takes flags away only after it has
\* seen its own on, and its failure sets its own.
LEMMA MonitorRecords ==
    ASSUME TypeOK, NEW m \in LockedMonitors, MonitorStep(m)
    PROVE  /\ \A t \in Threads : t # m => pc'[t] = pc[t]
           /\ \A f \in Recorded : m # Owner(f) => verdict'[Owner(f)] = verdict[Owner(f)]
           /\ \/ error \subseteq error'
              \/ m \in Clearers /\ pc[m] = "reset" /\ verdict' = verdict
           /\ \A f \in Recorded : m = Owner(f) =>
                \/ UNCHANGED <<verdict, error>> /\ pc'[m] # "reset"
                \/ pc[m] = "reset" /\ verdict' = verdict
                \/ verdict'[m] # "fail"
                \/ f \in error' /\ pc'[m] # "reset"
<1> USE DEF TypeOK, Goto, Judge, Recorded, Owner, Clearers
<1>1. CASE CondWait(m)
    BY <1>1 DEF CondWait, shared
<1>2. CASE m = "LoadAvgThread" /\ Reset(m, "LOADAVGTOOHIGH", "cond")
    BY <1>2 DEF Reset
<1>3. CASE m = "MinPagesThread" /\ Reset(m, "OUTOFMEMORY", "cond")
    BY <1>3 DEF Reset
<1>4. CASE m = "CheckNetworkInterfacesThread" /\ Reset(m, "NETWORKDOWN", "cond")
    BY <1>4 DEF Reset
<1>5. CASE m = "Ping" /\ PingReset
    BY <1>5 DEF PingReset, Reset
<1>6. CASE m = "LoadAvgThread" /\ TestLoadAvg
    BY <1>6 DEF TestLoadAvg, Verdict
<1>7. CASE m = "MinPagesThread" /\ TestMinPages
    BY <1>7 DEF TestMinPages, Verdict
<1>8. CASE m = "TestMemoryAllocation" /\ TestMemory
    BY <1>8 DEF TestMemory
<1>9. CASE m = "Sync" /\ SyncDisks
    BY <1>9 DEF SyncDisks, shared
<1>10. CASE m = "CheckNetworkInterfacesThread" /\ TestLinks
    BY <1>10 DEF TestLinks, CountMiss, Verdict
<1>11. CASE m = "TestPidfileThread" /\ TestPidfiles
  <2>1. /\ error \subseteq error'
        /\ pc' = [pc EXCEPT ![m] = "cond"]
        /\ \A j \in Judged : j # m => verdict'[j] = verdict[j]
    BY <1>11 DEF TestPidfiles
  <2>2. QED
    BY <1>11, <2>1
<1>12. CASE m = "Ping" /\ PingSend
    BY <1>12 DEF PingSend
<1>13. ASSUME NEW h \in Hosts, m = "Ping", HostAnswers(h) \/ HostMisses(h)
       PROVE  /\ \A t \in Threads : t # m => pc'[t] = pc[t]
              /\ \A f \in Recorded : verdict'[Owner(f)] = verdict[Owner(f)]
              /\ error \subseteq error'
  <2>1. \A f \in Recorded : h # Owner(f)
    BY HostsAssumption
  <2>2. QED
    BY <1>13, <2>1 DEF HostAnswers, HostMisses
<1>14. QED
    BY <1>1, <1>2, <1>3, <1>4, <1>5, <1>6, <1>7, <1>8, <1>9, <1>10, <1>11, <1>12, <1>13
       DEF MonitorStep

\* A monitor without the lock clears the word as well, if it is TestDirThread.
LEMMA FreeRecords ==
    ASSUME TypeOK, NEW m \in FreeMonitors, FreeMonitorStep(m)
    PROVE  \/ error \subseteq error'
           \/ m = "TestDirThread" /\ pc[m] = "reset"
<1> USE DEF TypeOK, shared
<1>1. CASE EndSleep(m)
    BY <1>1 DEF EndSleep
<1>2. CASE ForkProcess \/ RunTestBinary
    BY <1>2 DEF ForkProcess, RunTestBinary
<1>3. CASE m = "TestDirThread" /\ RunScripts
    BY <1>3 DEF RunScripts, Verdict
<1>4. CASE m = "TestDirThread" /\ Reset(m, "SCRIPTFAILED", "sleep")
    BY <1>4 DEF Reset
<1>5. QED
    BY <1>1, <1>2, <1>3, <1>4 DEF FreeMonitorStep

\* A monitor that was not started stays away, whoever moves.
LEMMA StaysAway ==
    ASSUME TypeOK, Step, NEW m \in AllMonitors, pc[m] = "gone"
    PROVE  pc'[m] = "gone"
<1> USE DEF TypeOK, Goto
<1>1. ASSUME NEW k \in LockedMonitors, Acquire(k) \/ Wake(k) \/ SpuriousWakeup(k)
      PROVE  pc'[m] = "gone"
    BY <1>1 DEF Acquire, Wake, SpuriousWakeup
<1>2. ASSUME NEW k \in LockedMonitors, MonitorStep(k) PROVE pc'[m] = "gone"
  <2>1. pc[k] \in {"test", "hosts", "reset", "cond"}
    BY <1>2, MonitorFrame
  <2>2. \A t \in AllMonitors : t # k => pc'[t] = pc[t]
    BY <1>2, MonitorRecords
  <2>3. QED
    BY <2>1, <2>2
<1>3. ASSUME NEW k \in FreeMonitors, FreeMonitorStep(k) PROVE pc'[m] = "gone"
    BY <1>3 DEF FreeMonitorStep, EndSleep, ForkProcess, RunScripts, RunTestBinary, Reset,
                Verdict
<1>4. ASSUME NEW t \in Callers, ShutdownStep(t) PROVE pc'[m] = "gone"
    BY <1>4, CallerFrame
<1>5. CASE ManagerLock
    BY <1>5 DEF ManagerLock, Waiters
<1>6. CASE ManagerStep \/ HelperStep \/ HelperCommand \/ LeaveEventLoop \/ MainStep
    BY <1>6, CallerFrame
<1>7. QED
    BY <1>1, <1>2, <1>3, <1>4, <1>5, <1>6 DEF Step

LEMMA RecordStep ==
    ASSUME TypeOK, RecordInv, Step, setup' = setup
    PROVE  RecordInv'
<1>1. \A m \in AllMonitors \ Started : pc'[m] = "gone"
    BY StaysAway DEF RecordInv
<1>2. Started' = Started /\ \A f : Alone(f)' <=> Alone(f)
    BY DEF Started, Alone
<1> SUFFICES ASSUME NEW f \in Recorded, Alone(f), verdict'[Owner(f)] = "fail"
             PROVE  f \in error' /\ pc'[Owner(f)] # "reset"
    BY <1>1, <1>2 DEF RecordInv, OnRecord
<1>3. Owner(f) \in LockedMonitors /\ Owner(f) \in Threads
    BY DEF Recorded, Owner
<1>4. verdict[Owner(f)] = "fail" => f \in error /\ pc[Owner(f)] # "reset"
    BY DEF RecordInv, OnRecord
<1>5. \A m \in Clearers : pc[m] = "reset" => m = Owner(f)
    BY DEF RecordInv, Alone, Clearers
<1>6. ASSUME NEW m \in LockedMonitors, Acquire(m) \/ Wake(m) \/ SpuriousWakeup(m)
      PROVE  f \in error' /\ pc'[Owner(f)] # "reset"
    BY <1>3, <1>4, <1>6 DEF Acquire, Wake, SpuriousWakeup, TypeOK, Goto, shared
<1>7. ASSUME NEW m \in LockedMonitors, MonitorStep(m)
      PROVE  f \in error' /\ pc'[Owner(f)] # "reset"
  <2>1. CASE m = Owner(f)
    BY <1>4, <1>7, <2>1, MonitorRecords
  <2>2. CASE m # Owner(f)
    <3>1. pc'[Owner(f)] = pc[Owner(f)] /\ verdict'[Owner(f)] = verdict[Owner(f)]
      BY <1>3, <1>7, <2>2, MonitorRecords
    <3>2. error \subseteq error'
      BY <1>5, <1>7, <2>2, MonitorRecords
    <3>3. QED
      BY <1>4, <3>1, <3>2
  <2>3. QED
    BY <2>1, <2>2
<1>8. ASSUME NEW m \in FreeMonitors, FreeMonitorStep(m)
      PROVE  f \in error' /\ pc'[Owner(f)] # "reset"
  <2>1. pc'[Owner(f)] = pc[Owner(f)] /\ verdict'[Owner(f)] = verdict[Owner(f)]
    BY <1>3, <1>8, FreeMonitorFrame DEF Recorded, Owner
  <2>2. "TestDirThread" # Owner(f) /\ "TestDirThread" \in Clearers
    BY DEF Recorded, Owner, Clearers
  <2>3. error \subseteq error'
    BY <1>5, <1>8, <2>2, FreeRecords
  <2>4. QED
    BY <1>4, <2>1, <2>3
<1>9. ASSUME NEW t \in Callers, ShutdownStep(t)
      PROVE  f \in error' /\ pc'[Owner(f)] # "reset"
    BY <1>3, <1>4, <1>9, CallerFrame
<1>10. CASE ManagerLock
    BY <1>3, <1>4, <1>10 DEF ManagerLock, shared
<1>11. CASE ManagerStep \/ HelperStep \/ HelperCommand \/ LeaveEventLoop \/ MainStep
    BY <1>3, <1>4, <1>11, CallerFrame
<1>12. QED
    BY <1>6, <1>7, <1>8, <1>9, <1>10, <1>11 DEF Step

\* Where no other started monitor clears flags, a load that is too high and a lack of
\* memory are on record for as long as they last, and the manager finds the load when
\* it looks: the run lost_failure shows that the condition is needed.
THEOREM FailureOnRecord ==
    Spec => [](/\ \A f \in Recorded : Alone(f) => OnRecord(f)
               /\ Alone("LOADAVGTOOHIGH") => ProblemReachesManager)
<1>1. Init => RecordInv
  <2>1. Init => \A f \in Recorded : verdict[Owner(f)] = "none"
    BY HostsAssumption DEF Init, Recorded, Owner
  <2>2. QED
    BY <2>1 DEF Init, RecordInv, OnRecord, StartLabel
<1>2. TypeOK /\ RecordInv /\ [Next]_vars => RecordInv'
  <2>1. UNCHANGED vars /\ RecordInv => RecordInv'
    BY DEF vars, shared, RecordInv, Alone, OnRecord, Started
  <2>2. QED
    BY <2>1, RecordStep DEF Next
<1>3. RecordInv => /\ \A f \in Recorded : Alone(f) => OnRecord(f)
                   /\ Alone("LOADAVGTOOHIGH") => ProblemReachesManager
    BY DEF RecordInv, Recorded, OnRecord, Owner, ProblemReachesManager
<1>4. QED
    BY <1>1, <1>2, <1>3, TypeCorrect, PTL DEF Spec

(* What KeepsTesting and TerminationTaken rest on, without fairness: the    *)
(* mutex is always on its way back, and so is the thread main joins.        *)

\* How far a monitor that holds managerlock is from giving it up: a host still to
\* be looked at counts two, a look and a reset.
Untried == 2 * Cardinality(todo)

MonitorToll(m) ==
    CASE pc[m] = "test"  -> 2 * Cardinality(Hosts) + 2
      [] pc[m] = "hosts" -> Untried
      [] pc[m] = "reset" -> IF m = "Ping" THEN 1 + Untried ELSE 1
      [] OTHER           -> 0

\* How far the manager is: each check may call Shutdown, which asks, ends the
\* daemon and signals PID 1.
CallStage ==
    CASE pc["ManagerThread"] = "check"  -> 8
      [] pc["ManagerThread"] = "call"   -> 7
      [] pc["ManagerThread"] = "spawn"  -> 6
      [] pc["ManagerThread"] = "end"    -> 5
      [] pc["ManagerThread"] = "native" -> 4
      [] pc["ManagerThread"] = "kill"   -> 3
      [] pc["ManagerThread"] = "return" -> 2
      [] OTHER                          -> 1

ManagerToll == 8 * (NumChecks - check) + CallStage

\* The owner of the mutex keeps it or gives it up; each of its own steps brings it
\* nearer to that, and nobody else's moves it.
Paid ==
    /\ \A m \in LockedMonitors : holder = m =>
         \/ holder' = NoThread
         \/ holder' = m /\ MonitorToll(m)' < MonitorToll(m)
         \/ holder' = m /\ MonitorToll(m)' = MonitorToll(m) /\ ~MonitorStep(m)
    /\ holder = "ManagerThread" =>
         \/ holder' = NoThread
         \/ holder' = holder /\ ManagerToll' < ManagerToll
         \/ holder' = holder /\ ManagerToll' = ManagerToll /\ ~ManagerStep

\* The owner waits for nobody: it is at one of the labels of its critical section, a
\* monitor at the hosts has one to look at, and what is left to it is a number.
OwnerAble ==
    /\ pc["Ping"] = "hosts" => todo # {}
    /\ \A m \in LockedMonitors :
         holder = m => /\ pc[m] \in {"test", "hosts", "reset", "cond"}
                       /\ MonitorToll(m) \in Nat
    /\ holder = "ManagerThread" =>
         /\ pc["ManagerThread"] \in {"check", "unlock"} \cup ShutdownLabels
         /\ ManagerToll \in Nat

\* The manager, who wakes those that wait, is gone only once stop is set.
ManagerThere == pc["ManagerThread"] = "gone" => stop

LEMMA HostsCounted ==
    ASSUME TypeOK
    PROVE  /\ Cardinality(todo) \in Nat /\ Cardinality(Hosts) \in Nat
           /\ Cardinality(todo) <= Cardinality(Hosts)
           /\ \A h \in todo : Cardinality(todo \ {h}) = Cardinality(todo) - 1
           /\ todo # {} => Cardinality(todo) # 0
<1>1. todo \subseteq Hosts /\ IsFiniteSet(Hosts)
    BY HostsAssumption DEF TypeOK
<1>2. IsFiniteSet(todo)
    BY <1>1, FS_Subset
<1>3. Cardinality(todo) <= Cardinality(Hosts)
    BY <1>1, FS_Subset
<1>4. QED
    BY <1>1, <1>2, <1>3, FS_CardinalityType, FS_RemoveElement, FS_EmptySet

\* A round of pings looks at one host after the other.
LEMMA PingPays ==
    ASSUME TypeOK, pc["Ping"] # "test",
           PingReset \/ \E h \in Hosts : HostAnswers(h) \/ HostMisses(h)
    PROVE  MonitorToll("Ping")' < MonitorToll("Ping")
<1> USE DEF Goto
<1>0. pc \in [Threads -> Labels] /\ "Ping" \in Threads
    BY DEF TypeOK
<1>1. CASE PingReset
  <2>1. /\ pc["Ping"] = "reset" /\ todo' = todo
        /\ pc'["Ping"] = IF todo = {} THEN "cond" ELSE "hosts"
    BY <1>0, <1>1 DEF PingReset, Reset, pings
  <2>2. MonitorToll("Ping") = 1 + Untried
    BY <2>1 DEF MonitorToll
  <2>3. MonitorToll("Ping")' \in {0, Untried}
    BY <2>1 DEF MonitorToll, Untried
  <2>4. QED
    BY <2>2, <2>3, HostsCounted DEF Untried
<1>2. ASSUME NEW h \in Hosts, HostAnswers(h) \/ HostMisses(h)
      PROVE  MonitorToll("Ping")' < MonitorToll("Ping")
  <2>1. /\ pc["Ping"] = "hosts" /\ h \in todo /\ todo' = todo \ {h}
        /\ pc'["Ping"] \in {"reset", "hosts", "cond"}
    BY <1>0, <1>2 DEF HostAnswers, HostMisses, AfterHost
  <2>2. MonitorToll("Ping") = 2 * Cardinality(todo)
    BY <2>1 DEF MonitorToll, Untried
  <2>3. Cardinality(todo') = Cardinality(todo) - 1 /\ Cardinality(todo) # 0
    BY <2>1, HostsCounted
  <2>4. MonitorToll("Ping")' \in {0, 2 * Cardinality(todo'), 1 + 2 * Cardinality(todo')}
    BY <2>1 DEF MonitorToll, Untried
  <2>5. QED
    BY <2>2, <2>3, <2>4, HostsCounted
<1>3. QED
    BY <1>1, <1>2

\* A monitor that goes on under the mutex comes nearer to giving it up.
LEMMA MonitorPays ==
    ASSUME TypeOK, NEW m \in LockedMonitors, MonitorStep(m)
    PROVE  /\ holder' \in {holder, NoThread}
           /\ holder' = NoThread \/ MonitorToll(m)' < MonitorToll(m)
<1> USE DEF Goto
<1>0. pc \in [Threads -> Labels] /\ m \in Threads /\ "Ping" \in LockedMonitors
    BY DEF TypeOK
<1>1. holder' \in {holder, NoThread}
    BY DEF MonitorStep, CondWait, TestLoadAvg, TestMinPages, TestMemory, SyncDisks,
           TestLinks, TestPidfiles, PingSend, PingReset, Reset, HostAnswers, HostMisses
<1> SUFFICES ASSUME holder' # NoThread PROVE MonitorToll(m)' < MonitorToll(m)
    BY <1>1
<1>2. CASE CondWait(m)
    BY <1>2 DEF CondWait
<1>3. ASSUME pc[m] = "test", m # "Ping", pc'[m] \in {"reset", "cond"}
      PROVE  MonitorToll(m)' < MonitorToll(m)
  <2>1. MonitorToll(m) = 2 * Cardinality(Hosts) + 2
    BY <1>3 DEF MonitorToll
  <2>2. MonitorToll(m)' \in {0, 1}
    BY <1>3 DEF MonitorToll
  <2>3. QED
    BY <2>1, <2>2, HostsCounted
<1>4. ASSUME pc[m] = "reset", m # "Ping", pc'[m] = "cond"
      PROVE  MonitorToll(m)' < MonitorToll(m)
    BY <1>4 DEF MonitorToll
<1>5. CASE m = "LoadAvgThread" /\ (TestLoadAvg \/ Reset(m, "LOADAVGTOOHIGH", "cond"))
    BY <1>0, <1>3, <1>4, <1>5, Zenon DEF TestLoadAvg, Verdict, Reset
<1>6. CASE m = "MinPagesThread" /\ (TestMinPages \/ Reset(m, "OUTOFMEMORY", "cond"))
    BY <1>0, <1>3, <1>4, <1>6 DEF TestMinPages, Verdict, Reset
<1>7. CASE m = "TestMemoryAllocation" /\ TestMemory
    BY <1>0, <1>3, <1>7 DEF TestMemory
<1>8. CASE m = "Sync" /\ SyncDisks
    BY <1>0, <1>3, <1>8 DEF SyncDisks
<1>9. CASE m = "CheckNetworkInterfacesThread"
           /\ (TestLinks \/ Reset(m, "NETWORKDOWN", "cond"))
  <2>1. CASE Reset(m, "NETWORKDOWN", "cond")
    BY <1>0, <1>4, <1>9, <2>1 DEF Reset
  <2>2. CASE TestLinks
    <3>1. /\ pc["CheckNetworkInterfacesThread"] = "test"
          /\ \E l \in {"reset", "cond"} :
               pc' = [pc EXCEPT !["CheckNetworkInterfacesThread"] = l]
      BY <2>2 DEF TestLinks, CountMiss, Verdict
    <3>2. QED
      BY <1>0, <1>3, <1>9, <3>1
  <2>3. QED
    BY <1>9, <2>1, <2>2
<1>10. CASE m = "TestPidfileThread" /\ TestPidfiles
    BY <1>0, <1>3, <1>10 DEF TestPidfiles
<1>11. CASE m = "Ping" /\ PingSend
  <2>1. /\ pc["Ping"] = "test" /\ pc'["Ping"] \in {"cond", "hosts"}
        /\ pc'["Ping"] = "hosts" => todo' = Hosts
    BY <1>0, <1>11 DEF PingSend
  <2>2. MonitorToll(m) = 2 * Cardinality(Hosts) + 2
    BY <1>11, <2>1 DEF MonitorToll
  <2>3. MonitorToll(m)' \in {0, 2 * Cardinality(Hosts)}
    BY <1>11, <2>1 DEF MonitorToll, Untried
  <2>4. QED
    BY <2>2, <2>3, HostsCounted
<1>12. CASE m = "Ping" /\ (PingReset \/ \E h \in Hosts : HostAnswers(h) \/ HostMisses(h))
  <2>1. pc["Ping"] # "test"
    BY <1>12 DEF PingReset, Reset, HostAnswers, HostMisses
  <2>2. QED
    BY <1>12, <2>1, PingPays
<1>13. QED
    BY <1>1, <1>2, <1>5, <1>6, <1>7, <1>8, <1>9, <1>10, <1>11, <1>12 DEF MonitorStep

LEMMA TollDrops ==
    ASSUME NEW c \in Int, NEW a \in 1..8, NEW b \in 1..8
    PROVE  /\ b < a => 8 * (8 - c) + b < 8 * (8 - c) + a
           /\ 1 < a => 8 * (8 - (c + 1)) + b < 8 * (8 - c) + a
    OBVIOUS

\* The manager comes nearer too: through the checks, and through Shutdown.
LEMMA ManagerPays ==
    ASSUME TypeOK, ManagerStep
    PROVE  /\ holder' \in {holder, NoThread}
           /\ \/ holder' = NoThread \/ pc["ManagerThread"] = "sleep"
              \/ ManagerToll' < ManagerToll
<1> USE DEF Goto
<1>0. /\ pc \in [Threads -> Labels] /\ check \in 1..8 /\ NumChecks = 8
      /\ "ManagerThread" \in Callers
    BY DEF TypeOK, NumChecks
<1>a. holder' \in {holder, NoThread}
    BY DEF ManagerStep, ManagerCheck, ManagerCall, ManagerReturn, ManagerUnlock,
           ManagerSleep, ShutdownStep, RepairReturns, ShutdownEnds, SetStopPing, SignalInit
<1> SUFFICES ASSUME holder' # NoThread, pc["ManagerThread"] # "sleep"
             PROVE  ManagerToll' < ManagerToll
    BY <1>a
<1>1. CallStage \in 1..8 /\ CallStage' \in 1..8
    BY DEF CallStage
<1>2. ASSUME CallStage' < CallStage, check' = check PROVE ManagerToll' < ManagerToll
  <2>1. /\ ManagerToll = 8 * (8 - check) + CallStage
        /\ ManagerToll' = 8 * (8 - check) + CallStage'
    BY <1>2 DEF ManagerToll, NumChecks
  <2>2. check \in Int
    BY <1>0
  <2>3. QED
    BY <1>1, <1>2, <2>1, <2>2, TollDrops
<1>3. ASSUME NextCheck, CallStage \in {2, 8} PROVE ManagerToll' < ManagerToll
  <2>1. CASE check = NumChecks
    BY <1>0, <1>2, <1>3, <2>1 DEF NextCheck, CallStage
  <2>2. CASE check # NumChecks
    <3>1. check' = check + 1
      BY <1>3, <2>2 DEF NextCheck
    <3>2. /\ ManagerToll = 8 * (8 - check) + CallStage
          /\ ManagerToll' = 8 * (8 - (check + 1)) + CallStage'
      BY <3>1 DEF ManagerToll, NumChecks
    <3>3. check \in Int /\ 1 < CallStage
      BY <1>0, <1>3
    <3>4. QED
      BY <1>1, <3>2, <3>3, TollDrops
  <2>3. QED
    BY <2>1, <2>2
<1>4. CASE ManagerCheck
  <2>1. CASE Triggered(check)
    BY <1>0, <1>2, <1>4, <2>1 DEF ManagerCheck, CallStage
  <2>2. CASE ~Triggered(check)
    BY <1>3, <1>4, <2>2 DEF ManagerCheck, CallStage
  <2>3. QED
    BY <1>4, <2>1, <2>2 DEF ManagerCheck
<1>5. CASE ManagerCall
  <2>1. /\ pc["ManagerThread"] = "call" /\ check' = check /\ holder' = holder
        /\ pc'["ManagerThread"] \in {"return", "end", "spawn"}
    BY <1>0, <1>5 DEF ManagerCall, CallShutdown
  <2>2. QED
    BY <1>2, <2>1 DEF CallStage
<1>6. CASE ManagerReturn
    BY <1>3, <1>6 DEF ManagerReturn, CallStage
<1>7. CASE ManagerUnlock \/ ManagerSleep
    BY <1>7 DEF ManagerUnlock, ManagerSleep
<1>8. CASE ShutdownStep("ManagerThread")
  <2>1. check' = check /\ holder' = holder
    BY <1>8 DEF ShutdownStep, RepairReturns, ShutdownEnds, SetStopPing, SignalInit
  <2>2. \/ pc["ManagerThread"] = "spawn" /\ pc'["ManagerThread"] \in {"return", "end"}
        \/ pc["ManagerThread"] = "end" /\ pc'["ManagerThread"] = "native"
        \/ pc["ManagerThread"] = "native" /\ pc'["ManagerThread"] = "kill"
        \/ pc["ManagerThread"] = "kill" /\ pc'["ManagerThread"] = "return"
    BY <1>0, <1>8
       DEF ShutdownStep, RepairReturns, ShutdownEnds, SetStopPing, SignalInit
  <2>3. QED
    BY <1>2, <2>1, <2>2 DEF CallStage
<1>9. QED
    BY <1>4, <1>5, <1>6, <1>7, <1>8 DEF ManagerStep

\* Who does not own the mutex leaves the owner where it is.
LEMMA OwnerFrame ==
    ASSUME TypeOK, LockInv, holder # NoThread,
           \/ \E m \in LockedMonitors : Acquire(m) \/ Wake(m) \/ SpuriousWakeup(m)
           \/ \E m \in FreeMonitors : FreeMonitorStep(m)
           \/ ManagerLock \/ ManagerSleep
           \/ HelperStep \/ HelperCommand
           \/ LeaveEventLoop \/ MainStep
    PROVE  /\ UNCHANGED <<holder, todo>>
           /\ pc'[holder] = pc[holder]
           /\ holder = "ManagerThread" => check' = check
<1>0. /\ pc \in [Threads -> Labels] /\ holder \in LockedMonitors \cup {"ManagerThread"}
      /\ LockedMonitors \cup {"ManagerThread"} \subseteq Threads
    BY DEF TypeOK
<1> USE <1>0 DEF Goto
<1>1. ASSUME NEW m \in LockedMonitors, Acquire(m) \/ Wake(m) PROVE FALSE
    BY <1>1 DEF Acquire, Wake
<1>2. ASSUME NEW m \in LockedMonitors, SpuriousWakeup(m)
      PROVE  /\ UNCHANGED <<holder, todo, check>> /\ pc'[holder] = pc[holder]
  <2>1. holder # m
    BY <1>2 DEF SpuriousWakeup, LockInv
  <2>2. QED
    BY <1>2, <2>1 DEF SpuriousWakeup, pings
<1>3. ASSUME NEW m \in FreeMonitors, FreeMonitorStep(m)
      PROVE  /\ UNCHANGED <<holder, todo, check>> /\ pc'[holder] = pc[holder]
  <2>1. UNCHANGED todo
    BY <1>3 DEF FreeMonitorStep, EndSleep, ForkProcess, RunScripts, RunTestBinary,
                Reset, pings
  <2>2. holder \in Callers \cup LockedMonitors
    OBVIOUS
  <2>3. QED
    BY <1>3, <2>1, <2>2, FreeMonitorFrame
<1>4. CASE ManagerLock
    BY <1>4 DEF ManagerLock
<1>5. CASE ManagerSleep
  <2>1. holder # "ManagerThread"
    BY <1>5 DEF ManagerSleep, LockInv, ShutdownLabels
  <2>2. QED
    BY <1>5, <2>1 DEF ManagerSleep, pings
<1>6. CASE HelperStep \/ HelperCommand \/ LeaveEventLoop \/ MainStep
  <2>1. UNCHANGED <<holder, todo>>
    BY <1>6 DEF HelperStep, HelperCommand, LeaveEventLoop, MainStep, HelperLoop,
       HelperReturn, HelperCancelled, ShutdownStep, RepairReturns, ShutdownEnds,
       SetStopPing, SignalInit, TestStop, FinalLoop, CancelHelper, JoinHelper,
       CloseWatchdog, MainEnds, EndDaemon, Exit, pings
  <2>2. pc'["ManagerThread"] = pc["ManagerThread"] /\ UNCHANGED check
    BY <1>6, BystanderFrame
  <2>3. \A m \in LockedMonitors : pc'[m] = pc[m]
    BY <1>6, CallerFrame
  <2>4. QED
    BY <2>1, <2>2, <2>3
<1>7. QED
    BY <1>1, <1>2, <1>3, <1>4, <1>5, <1>6

\* The manager owns the mutex when it takes a step, but for the one from its sleep.
LEMMA ManagerOwns ==
    ASSUME TypeOK, LockInv, ManagerStep
    PROVE  ManagerSleep \/ (holder = "ManagerThread" /\ pc["ManagerThread"] # "sleep")
    BY DEF ManagerStep, ManagerCheck, ManagerCall, ManagerReturn, ManagerUnlock,
           ShutdownStep, RepairReturns, ShutdownEnds, SetStopPing, SignalInit, LockInv,
           ShutdownLabels

LEMMA PaidStep ==
    ASSUME TypeOK, LockInv, Step
    PROVE  Paid
<1>0. LockedMonitors \cap {"ManagerThread", NoThread} = {} /\ "ManagerThread" # NoThread
    OBVIOUS
<1>1. ASSUME NEW m \in LockedMonitors, MonitorStep(m) PROVE Paid
  <2>1. holder = m
    BY <1>1, MonitorFrame DEF LockInv
  <2>2. holder' \in {m, NoThread} /\ (holder' = NoThread \/ MonitorToll(m)' < MonitorToll(m))
    BY <1>1, <2>1, MonitorPays
  <2>3. QED
    BY <1>0, <2>1, <2>2 DEF Paid
<1>2. CASE ManagerStep /\ ~ManagerSleep
  <2>1. holder = "ManagerThread" /\ pc["ManagerThread"] # "sleep"
    BY <1>2, ManagerOwns
  <2>2. /\ holder' \in {"ManagerThread", NoThread}
        /\ holder' = NoThread \/ ManagerToll' < ManagerToll
    BY <1>2, <2>1, ManagerPays
  <2>3. QED
    BY <1>0, <2>1, <2>2 DEF Paid
<1>3. CASE holder = NoThread
    BY <1>0, <1>3 DEF Paid
<1>4. ASSUME holder # NoThread, \A m \in LockedMonitors : ~MonitorStep(m),
             ~ManagerStep \/ ManagerSleep
      PROVE  Paid
  <2>1. /\ UNCHANGED <<holder, todo>> /\ pc'[holder] = pc[holder]
        /\ holder = "ManagerThread" => check' = check
    BY <1>4, OwnerFrame DEF Step
  <2>2. ASSUME NEW m \in LockedMonitors, holder = m
        PROVE  holder' = m /\ MonitorToll(m)' = MonitorToll(m)
    BY <2>1, <2>2 DEF MonitorToll, Untried
  <2>3. ASSUME holder = "ManagerThread"
        PROVE  /\ holder' = holder /\ ManagerToll' = ManagerToll
               /\ ~ManagerStep
    <3>1. CallStage' = CallStage /\ check' = check
      BY <2>1, <2>3 DEF CallStage
    <3>2. ManagerToll' = ManagerToll
      BY <3>1 DEF ManagerToll, NumChecks
    <3>3. ~ManagerSleep
      BY <2>3 DEF ManagerSleep, LockInv, ShutdownLabels
    <3>4. QED
      BY <1>4, <2>1, <3>2, <3>3
  <2>4. QED
    BY <1>4, <2>2, <2>3 DEF Paid
<1>5. QED
    BY <1>1, <1>2, <1>3, <1>4

\* A round of pings has a host to look at, and stop is never taken back.
LEMMA AbleStep ==
    ASSUME TypeOK, pc["Ping"] = "hosts" => todo # {}, ManagerThere, Step
    PROVE  /\ pc'["Ping"] = "hosts" => todo' # {}
           /\ ManagerThere'
<1> DEFINE HostLeft == pc["Ping"] = "hosts" => todo # {}
<1>0. /\ pc \in [Threads -> Labels] /\ stop \in BOOLEAN
      /\ {"Ping", "ManagerThread"} \subseteq Threads /\ "Ping" # "ManagerThread"
    BY DEF TypeOK
<1> USE <1>0 DEF Goto
<1>1. ASSUME NEW m \in LockedMonitors, Acquire(m) \/ Wake(m) \/ SpuriousWakeup(m)
      PROVE  HostLeft' /\ ManagerThere'
  <2>1. UNCHANGED <<todo, stop>>
    BY <1>1 DEF Acquire, Wake, SpuriousWakeup, pings, ending
  <2>2. \E l \in {"test", "lock", "woken"} : pc' = [pc EXCEPT ![m] = l]
    BY <1>1 DEF Acquire, Wake, SpuriousWakeup
  <2>3. QED
    BY <2>1, <2>2 DEF ManagerThere
<1>2. ASSUME NEW m \in LockedMonitors, MonitorStep(m)
      PROVE  HostLeft' /\ ManagerThere'
  <2>1. ManagerThere'
    <3>1. pc'["ManagerThread"] = pc["ManagerThread"]
      BY <1>2, MonitorFrame
    <3>2. UNCHANGED stop
      BY <1>2, EndingFrame DEF ending
    <3>3. QED
      BY <3>1, <3>2 DEF ManagerThere
  <2>2. CASE m # "Ping"
    <3>1. UNCHANGED todo
      BY <1>2, <2>2 DEF MonitorStep, CondWait, TestLoadAvg, TestMinPages, TestMemory,
         SyncDisks, TestLinks, TestPidfiles, Reset, pings
    <3>2. \E l \in {"reset", "cond", "wait"} : pc' = [pc EXCEPT ![m] = l]
      BY <1>2, <2>2 DEF MonitorStep, CondWait, TestLoadAvg, TestMinPages, TestMemory,
         SyncDisks, TestLinks, CountMiss, TestPidfiles, Reset, Verdict
    <3>3. pc'["Ping"] = pc["Ping"]
      BY <2>2, <3>2
    <3>4. QED
      BY <2>1, <3>1, <3>3
  <2>3. CASE CondWait(m)
    BY <2>1, <2>3 DEF CondWait, pings
  <2>4. CASE PingSend
    BY <2>1, <2>4 DEF PingSend
  <2>5. CASE PingReset
    BY <2>1, <2>5 DEF PingReset, Reset, pings
  <2>6. ASSUME NEW h \in Hosts, HostAnswers(h) \/ HostMisses(h)
        PROVE  HostLeft' /\ ManagerThere'
    BY <2>1, <2>6 DEF HostAnswers, HostMisses, AfterHost
  <2>7. QED
    BY <1>2, <2>2, <2>3, <2>4, <2>5, <2>6 DEF MonitorStep
<1>3. ASSUME NEW m \in FreeMonitors, FreeMonitorStep(m)
      PROVE  HostLeft' /\ ManagerThere'
  <2>1. UNCHANGED todo
    BY <1>3 DEF FreeMonitorStep, EndSleep, ForkProcess, RunScripts, RunTestBinary,
                Reset, pings
  <2>2. QED
    BY <1>3, <2>1, FreeMonitorFrame DEF ManagerThere
<1>4. CASE ManagerLock
    BY <1>4 DEF ManagerLock, ManagerThere, pings, ending, Waiters
<1>5. CASE ManagerStep \/ HelperStep \/ HelperCommand \/ LeaveEventLoop \/ MainStep
  <2>1. UNCHANGED todo
    BY <1>5 DEF ManagerStep, ManagerCheck, ManagerCall, ManagerReturn, ManagerUnlock,
       ManagerSleep, HelperStep, HelperCommand, LeaveEventLoop, MainStep, HelperLoop,
       HelperReturn, HelperCancelled, ShutdownStep, RepairReturns, ShutdownEnds,
       SetStopPing, SignalInit, TestStop, FinalLoop, CancelHelper, JoinHelper,
       CloseWatchdog, MainEnds, EndDaemon, Exit, pings
  <2>2. pc'["Ping"] = pc["Ping"]
    BY <1>5, CallerFrame
  <2>3. stop => stop'
    BY <1>5 DEF ManagerStep, ManagerCheck, ManagerCall, ManagerReturn, ManagerUnlock,
       ManagerSleep, HelperStep, HelperCommand, LeaveEventLoop, MainStep, HelperLoop,
       HelperReturn, HelperCancelled, ShutdownStep, RepairReturns, ShutdownEnds,
       SetStopPing, SignalInit, TestStop, FinalLoop, CancelHelper, JoinHelper,
       CloseWatchdog, MainEnds, EndDaemon, Exit, ending
  <2>4. CASE ManagerStep
    <3>1. pc'["ManagerThread"] = "gone" => stop
      BY <2>4 DEF ManagerStep, ManagerCheck, ManagerCall, ManagerReturn, ManagerUnlock,
         ManagerSleep, NextCheck, CallShutdown, ShutdownStep, RepairReturns,
         ShutdownEnds, SetStopPing, SignalInit
    <3>2. QED
      BY <2>1, <2>2, <2>3, <3>1 DEF ManagerThere
  <2>5. CASE HelperStep \/ HelperCommand \/ LeaveEventLoop \/ MainStep
    BY <2>1, <2>2, <2>3, <2>5, BystanderFrame DEF ManagerThere
  <2>6. QED
    BY <1>5, <2>4, <2>5
<1>6. QED
    BY <1>1, <1>2, <1>3, <1>4, <1>5 DEF Step

\* What is left to the owner is a number.
LEMMA TollNat ==
    ASSUME TypeOK
    PROVE  /\ \A m \in LockedMonitors : MonitorToll(m) \in Nat
           /\ ManagerToll \in Nat
<1>1. \A m \in LockedMonitors : MonitorToll(m) \in Nat
    BY HostsCounted DEF MonitorToll, Untried
<1>2. CallStage \in 1..8
    BY DEF CallStage
<1>3. check \in 1..8
    BY DEF TypeOK, NumChecks
<1>4. 8 * (8 - check) \in Nat
    BY <1>3
<1>5. ManagerToll \in Nat
    BY <1>2, <1>4 DEF ManagerToll, NumChecks
<1>6. QED
    BY <1>1, <1>5

\* Nobody keeps managerlock for ever, for any monitors, hosts and limits, and however
\* many checks call Shutdown: its owner waits for no other thread, its steps lead to
\* the end of the critical section, and there is a manager to wake those that wait
\* for as long as stop is not set.  What KeepsTesting and ManagerLeaves need beyond
\* this is that the threads run.
THEOREM MutexComesBack == Spec => [](OwnerAble /\ ManagerThere) /\ [][Paid]_vars
<1> DEFINE Pinging == pc["Ping"] = "hosts" => todo # {}
<1>1. Init => Pinging /\ ManagerThere
    BY DEF Init, StartLabel, ManagerThere
<1>2. IInv /\ Pinging /\ ManagerThere /\ [Next]_vars => Pinging' /\ ManagerThere'
  <2>1. IInv => TypeOK
    BY DEF IInv
  <2>2. UNCHANGED vars => UNCHANGED <<pc, todo, stop>>
    BY DEF vars, pings, ending
  <2>3. QED
    BY <2>1, <2>2, AbleStep DEF Next, ManagerThere
<1>3. IInv /\ Pinging => OwnerAble
  <2>1. IInv => TypeOK /\ LockInv
    BY DEF IInv
  <2>2. QED
    BY <2>1, TollNat DEF LockInv, OwnerAble
<1>4. IInv /\ [Next]_vars => [Paid]_vars
    BY PaidStep DEF IInv, Next
<1> HIDE DEF Pinging
<1>5. QED
    BY <1>1, <1>2, <1>3, <1>4, Invariance, PTL DEF Spec

\* How far DbusHelper is from its end once it is cancelled: a Shutdown it is in is
\* gone through, since only read() is a cancellation point.
HelperWay ==
    CASE pc["DbusHelper"] = "gone"   -> 0
      [] pc["DbusHelper"] = "read"   -> 1
      [] pc["DbusHelper"] = "loop"   -> 2
      [] pc["DbusHelper"] = "return" -> 3
      [] pc["DbusHelper"] = "kill"   -> 4
      [] pc["DbusHelper"] = "native" -> 5
      [] pc["DbusHelper"] = "end"    -> 6
      [] OTHER                       -> 7

\* Each step of a cancelled DbusHelper brings it nearer to its end, it begins
\* nothing new, and no other thread moves it.
Leaves ==
    cancelled =>
        \/ HelperWay' < HelperWay
        \/ HelperWay' = HelperWay /\ ~HelperStep /\ ~HelperCommand

\* Main joins only a thread it has cancelled, which is at a label it goes on from
\* by itself, or gone.
JoinAble ==
    /\ pc["main"] \in {"join", "close", "end", "exit"} => cancelled
    /\ pc["DbusHelper"] \in {"loop", "read", "spawn", "end", "native", "kill",
                             "return", "gone"}

LEMMA HelperLeaves ==
    ASSUME TypeOK, cancelled, HelperStep \/ HelperCommand
    PROVE  HelperWay' < HelperWay
<1>0. pc \in [Threads -> Labels] /\ "DbusHelper" \in Threads
    BY DEF TypeOK
<1> USE <1>0 DEF Goto
<1>1. ~HelperCommand
    BY DEF HelperCommand
<1>2. \/ pc["DbusHelper"] = "loop" /\ pc'["DbusHelper"] \in {"gone", "read"}
      \/ pc["DbusHelper"] = "return" /\ pc'["DbusHelper"] = "loop"
      \/ pc["DbusHelper"] = "read" /\ pc'["DbusHelper"] = "gone"
      \/ pc["DbusHelper"] = "spawn" /\ pc'["DbusHelper"] \in {"return", "end"}
      \/ pc["DbusHelper"] = "end" /\ pc'["DbusHelper"] = "native"
      \/ pc["DbusHelper"] = "native" /\ pc'["DbusHelper"] = "kill"
      \/ pc["DbusHelper"] = "kill" /\ pc'["DbusHelper"] = "return"
    BY <1>1 DEF HelperStep, HelperLoop, HelperReturn, HelperCancelled, ShutdownStep,
                RepairReturns, ShutdownEnds, SetStopPing, SignalInit
<1>3. QED
    BY <1>2 DEF HelperWay

\* The other threads leave it where it is.
LEMMA HelperFrame ==
    ASSUME TypeOK, Step, ~HelperStep, ~HelperCommand
    PROVE  pc'["DbusHelper"] = pc["DbusHelper"]
<1>0. /\ pc \in [Threads -> Labels] /\ "DbusHelper" \in Threads
      /\ "DbusHelper" \notin AllMonitors \cup {"ManagerThread", "main"}
    BY DEF TypeOK
<1> USE <1>0 DEF Goto
<1>1. ASSUME NEW m \in LockedMonitors, Acquire(m) \/ Wake(m) \/ SpuriousWakeup(m)
      PROVE  pc'["DbusHelper"] = pc["DbusHelper"]
    BY <1>1 DEF Acquire, Wake, SpuriousWakeup
<1>2. CASE \/ \E m \in LockedMonitors : MonitorStep(m)
           \/ \E m \in FreeMonitors : FreeMonitorStep(m)
    BY <1>2, MonitorFrame, FreeMonitorFrame
<1>3. CASE ManagerLock
    BY <1>3 DEF ManagerLock, Waiters
<1>4. CASE ManagerStep
    BY <1>4 DEF ManagerStep, ManagerCheck, ManagerCall, ManagerReturn, ManagerUnlock,
       ManagerSleep, NextCheck, CallShutdown, ShutdownStep, RepairReturns, ShutdownEnds,
       SetStopPing, SignalInit
<1>5. CASE LeaveEventLoop \/ MainStep
    BY <1>5 DEF LeaveEventLoop, MainStep, TestStop, FinalLoop, CancelHelper,
                JoinHelper, CloseWatchdog, MainEnds, Exit
<1>6. QED
    BY <1>1, <1>2, <1>3, <1>4, <1>5 DEF Step

LEMMA JoinStep ==
    ASSUME TypeOK, JoinAble, Step
    PROVE  JoinAble'
<1>0. /\ pc \in [Threads -> Labels] /\ {"DbusHelper", "main"} \subseteq Threads
      /\ "DbusHelper" # "main" /\ "main" \notin AllMonitors /\ cancelled \in BOOLEAN
    BY DEF TypeOK
<1> USE <1>0 DEF Goto
<1>1. pc'["DbusHelper"] \in {"loop", "read", "spawn", "end", "native", "kill",
                             "return", "gone"}
  <2>1. CASE HelperStep
    BY <2>1 DEF HelperStep, HelperLoop, HelperReturn, HelperCancelled, ShutdownStep,
                RepairReturns, ShutdownEnds, SetStopPing, SignalInit
  <2>2. CASE HelperCommand
    BY <2>2 DEF HelperCommand, CallShutdown
  <2>3. QED
    BY <2>1, <2>2, HelperFrame DEF JoinAble
<1>2. pc'["main"] \in {"join", "close", "end", "exit"} => cancelled'
  <2>1. CASE MainStep \/ LeaveEventLoop
    BY <2>1 DEF JoinAble, LeaveEventLoop, MainStep, TestStop, FinalLoop, CancelHelper,
                JoinHelper, CloseWatchdog, MainEnds, Exit, ending
  <2>2. ASSUME pc'["main"] = pc["main"], cancelled' = cancelled
        PROVE  pc'["main"] \in {"join", "close", "end", "exit"} => cancelled'
    BY <2>2 DEF JoinAble
  <2>3. ASSUME NEW m \in LockedMonitors, Acquire(m) \/ Wake(m) \/ SpuriousWakeup(m)
        PROVE  pc'["main"] = pc["main"] /\ cancelled' = cancelled
    BY <2>3 DEF Acquire, Wake, SpuriousWakeup, ending
  <2>4. CASE \/ \E m \in LockedMonitors : MonitorStep(m)
             \/ \E m \in FreeMonitors : FreeMonitorStep(m)
    BY <2>2, <2>4, EndingFrame DEF ending
  <2>5. CASE ManagerLock
    BY <2>2, <2>5 DEF ManagerLock, Waiters, ending
  <2>6. CASE ManagerStep \/ HelperStep \/ HelperCommand
    <3>1. cancelled' = cancelled
      BY <2>6 DEF ManagerStep, ManagerCheck, ManagerCall, ManagerReturn, ManagerUnlock,
         ManagerSleep, HelperStep, HelperCommand, HelperLoop, HelperReturn,
         HelperCancelled, ShutdownStep, RepairReturns, ShutdownEnds, SetStopPing,
         SignalInit, ending
    <3>2. pc'["main"] = pc["main"]
      BY <2>6 DEF ManagerStep, ManagerCheck, ManagerCall, ManagerReturn, ManagerUnlock,
         ManagerSleep, HelperStep, HelperCommand, HelperLoop, HelperReturn,
         HelperCancelled, ShutdownStep, RepairReturns, ShutdownEnds, SetStopPing,
         SignalInit, NextCheck, CallShutdown
    <3>3. QED
      BY <2>2, <3>1, <3>2
  <2>7. QED
    BY <2>1, <2>2, <2>3, <2>4, <2>5, <2>6 DEF Step
<1>3. QED
    BY <1>1, <1>2 DEF JoinAble

\* The join at the end of main never waits for a thread that will not end: DbusHelper
\* was cancelled before, goes through the Shutdown it may be in, takes no command
\* any more and comes to read(), where it ends.
THEOREM JoinComesBack == Spec => []JoinAble /\ [][Leaves]_vars
<1>1. Init => JoinAble
    BY DEF Init, StartLabel, JoinAble
<1>2. TypeOK /\ JoinAble /\ [Next]_vars => JoinAble'
  <2>1. UNCHANGED vars => UNCHANGED <<pc, cancelled>>
    BY DEF vars, ending
  <2>2. QED
    BY <2>1, JoinStep DEF Next, JoinAble
<1>3. TypeOK /\ [Next]_vars => [Leaves]_vars
  <2> SUFFICES ASSUME TypeOK, Step, cancelled PROVE Leaves
    BY DEF Next, Leaves
  <2>1. CASE HelperStep \/ HelperCommand
    BY <2>1, HelperLeaves DEF Leaves
  <2>2. CASE ~HelperStep /\ ~HelperCommand
    BY <2>2, HelperFrame DEF Leaves, HelperWay
  <2>3. QED
    BY <2>1, <2>2
<1>4. QED
    BY <1>1, <1>2, <1>3, TypeCorrect, PTL DEF Spec
=============================================================================
