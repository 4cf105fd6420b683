------------------------------- MODULE Monitors -------------------------------
(***************************************************************************)
(* The threads of the service process: the monitors that test the machine, *)
(* the manager that turns their findings into a call of Shutdown, the      *)
(* thread that serves the D-Bus process, and the main thread, which leaves *)
(* its event loop on SIGTERM or SIGINT (threads.cpp, shutdown.cpp,         *)
(* EndDaemon of sub.cpp, NativeShutdown of linux.cpp and the end of        *)
(* ServiceMain in main.cpp).                                               *)
(*                                                                         *)
(* They share "error", an atomic word of flags (here the set of the flags  *)
(* that are on), the mutex managerlock with the condition workerupdate,    *)
(* the test binary's last result and the variables stop and stopPing.      *)
(***************************************************************************)
EXTENDS Integers, FiniteSets

CONSTANTS
    Setups,        \* configurations the service may be started with
    Hosts,         \* the addresses that are pinged
    NumPidFiles,   \* how many pid files are checked
    PingRetries,   \* misses a host's context counts before a failure (3)
    NumInterfaces, \* how many network interfaces are in the list
    LinkRetries,   \* failed link checks that are tolerated (12)
    TestExeCodes   \* failing results of the test binary

LockedMonitors == {"LoadAvgThread", "MinPagesThread", "TestMemoryAllocation",
                   "TestPidfileThread", "Ping", "CheckNetworkInterfacesThread",
                   "Sync"}
FreeMonitors   == {"TestFork", "TestDirThread", "TestBinThread"}
AllMonitors    == LockedMonitors \cup FreeMonitors
Callers        == {"ManagerThread", "DbusHelper"}   \* who calls Shutdown
Threads        == AllMonitors \cup Callers \cup {"main"}

\* The monitors StartHelperThreads starts, option -q, softboot and kexec.
ASSUME SetupsAssumption ==
    Setups \subseteq [started  : SUBSET AllMonitors,
                      noAction : BOOLEAN, softBoot : BOOLEAN, kexec : BOOLEAN]
ASSUME HostsAssumption   == IsFiniteSet(Hosts) /\ Hosts \cap Threads = {}
ASSUME LimitAssumption   == /\ NumPidFiles \in Nat
                            /\ PingRetries \in Nat
                            /\ NumInterfaces \in Nat
                            /\ LinkRetries \in Nat
ASSUME CodesAssumption   == TestExeCodes \subseteq Int \ {0}

Flags == {"SCRIPTFAILED", "FORKFAILED", "OUTOFMEMORY", "LOADAVGTOOHIGH",
          "UNKNOWNPIDFILERROR", "PIDFILERROR", "PINGFAILED", "NETWORKDOWN"}

\* errorlist.hpp, and the code DbusHelper passes for a D-Bus client that
\* missed its deadline.
WECMDREBOOT   == 255
WECMDRESET    == 254
WESYSOVERLOAD == 253
WETEMP        == 252
WESCRIPT      == 251
WEPIDFILE     == 250
WEOTHER       == 0
DbusCode      == 9221996

\* The manager's checks in the order of its loop: the flags one looks at and
\* the code it passes to Shutdown.  The sixth looks at testExeReturnValue.
NumChecks    == 8
TestExeCheck == 6

\* Slip: the first check looks at the second's flag.
CheckedFlagsPasted ==
    << {"OUTOFMEMORY"}, {"OUTOFMEMORY"}, {"FORKFAILED"}, {"SCRIPTFAILED"},
       {"PIDFILERROR", "UNKNOWNPIDFILERROR"}, {}, {"PINGFAILED"}, {"NETWORKDOWN"} >>

CheckedFlags ==
    << {"LOADAVGTOOHIGH"}, {"OUTOFMEMORY"}, {"FORKFAILED"}, {"SCRIPTFAILED"},
       {"PIDFILERROR", "UNKNOWNPIDFILERROR"}, {}, {"PINGFAILED"}, {"NETWORKDOWN"} >>
CheckedCode  == << WESYSOVERLOAD, WEOTHER, WEOTHER, WESCRIPT, WEPIDFILE,
                   WEOTHER, 64, 64 >>

\* What has a verdict of its own: each monitor with one target, each host.
Judged == (AllMonitors \ {"Ping", "Sync"}) \cup Hosts

NoThread == "none"

\* The list of the interfaces, in its own order.
Interfaces == 1..NumInterfaces

VARIABLES
    setup,     \* the configuration, which no thread changes
    holder,    \* who holds managerlock
    pc,        \* where each thread is
    error,     \* the flags that are on
    testExe,   \* testExeReturnValue
    todo,      \* hosts the current ping round has still to look at
    cxt,       \* each host's retry context, 0 when it has none
    linkMisses,\* "retries" of CheckNetworkInterfacesThread
    behind,    \* interfaces whose count is not the one in their node's rx
    cut,       \* the world: an interface that receives nothing any more, or 0
    passes,    \* history: successes of the link test since then, at most 2
    check,     \* which check the manager is at
    code,      \* the argument of each caller's Shutdown
    refused,   \* callers whose last repair binary returned an error
    stop, stopPing,
    released,  \* what EndDaemon has freed
    cancelled, \* pthread_cancel(dbusThread) was called
    sent,      \* signals sent to PID 1
    wdt,       \* the watchdog device: "open" or "closed"
    proc,      \* the process: "running", "crashed" or "exited"
    verdict    \* history: the latest result of each test

shared == <<error, testExe, verdict>>
pings  == <<todo, cxt>>
nets   == <<linkMisses, behind, cut, passes>>
ending == <<stop, stopPing, released, cancelled, sent, wdt>>
vars   == <<setup, holder, pc, shared, pings, nets, check, code, refused, ending,
            proc>>

Started  == setup.started
NoAction == setup.noAction
-----------------------------------------------------------------------------
StartLabel(t) ==
    CASE t \in LockedMonitors -> IF t \in Started THEN "lock" ELSE "gone"
      [] t \in FreeMonitors   -> IF t \in Started THEN "test" ELSE "gone"
      [] t = "ManagerThread"  -> "lock"
      [] OTHER                -> "loop"

\* ServiceMain has opened the device and started every thread.
Init ==
    /\ setup \in Setups
    /\ holder = NoThread
    /\ pc = [t \in Threads |-> StartLabel(t)]
    /\ error = {} /\ testExe = 0
    /\ todo = {} /\ cxt = [h \in Hosts |-> 0]
    /\ linkMisses = 0 /\ behind = Interfaces /\ cut = 0 /\ passes = 0
    /\ check = 1
    /\ code = [t \in Callers |-> 0] /\ refused = {}
    /\ stop = FALSE /\ stopPing = FALSE
    /\ released = {} /\ cancelled = FALSE /\ sent = {}
    /\ wdt = IF NoAction THEN "closed" ELSE "open"
    /\ proc = "running"
    /\ verdict = [j \in Judged |-> "none"]

Goto(t, label) == pc' = [pc EXCEPT ![t] = label]
Judge(j, v)    == verdict' = [verdict EXCEPT ![j] = v]

\* "error &= !FLAG": the operator is the logical not, so the word becomes 0.
Cleared(flags, f) == {}

\* Using freed memory: the process goes on or is killed.
Uses(things) == proc' \in IF things \cap released = {}
                          THEN {"running"} ELSE {"running", "crashed"}
-----------------------------------------------------------------------------
(* Monitors that hold managerlock while they test.                         *)

\* pthread_mutex_lock at the top of a monitor's loop.
Acquire(m) ==
    /\ pc[m] = "lock" /\ holder = NoThread
    /\ holder' = m
    /\ Goto(m, "test")
    /\ UNCHANGED <<shared, pings, nets, check, code, refused, ending, proc>>

\* Slip: waiting with the mutex held.
CondWaitKeepsLock(m) ==
    /\ pc[m] = "cond"
    /\ Goto(m, "wait")
    /\ UNCHANGED <<holder, shared, pings, nets, check, code, refused, ending,
                   proc>>

\* pthread_cond_wait gives the mutex up and sleeps.
CondWait(m) ==
    /\ pc[m] = "cond"
    /\ holder' = NoThread
    /\ Goto(m, "wait")
    /\ UNCHANGED <<shared, pings, nets, check, code, refused, ending, proc>>

\* No loop guards pthread_cond_wait, so a spurious wakeup ends it too.
SpuriousWakeup(m) ==
    /\ pc[m] = "wait"
    /\ Goto(m, "woken")
    /\ UNCHANGED <<holder, shared, pings, nets, check, code, refused, ending,
                   proc>>

\* A woken monitor takes the mutex back and unlocks it at once.
Wake(m) ==
    /\ pc[m] = "woken" /\ holder = NoThread
    /\ Goto(m, "lock")
    /\ UNCHANGED <<holder, shared, pings, nets, check, code, refused, ending,
                   proc>>

\* Slip: a success never clears the flag.
VerdictNeverClears(m, flag, next, ok) ==
    /\ Judge(m, IF ok THEN "pass" ELSE "fail")
    /\ error' = IF ok THEN error ELSE error \cup {flag}
    /\ Goto(m, next)

\* One test with one flag: a failure sets it, a success clears it if it was
\* on; the look and the clearing are two accesses.
Verdict(m, flag, next, ok) ==
    /\ Judge(m, IF ok THEN "pass" ELSE "fail")
    /\ error' = IF ok THEN error ELSE error \cup {flag}
    /\ Goto(m, IF ok /\ flag \in error THEN "reset" ELSE next)

Reset(m, flag, next) ==
    /\ pc[m] = "reset"
    /\ error' = Cleared(error, flag)
    /\ Goto(m, next)
    /\ UNCHANGED <<holder, testExe, verdict, pings, nets, check, code, refused,
                   ending, proc>>

TestLoadAvg ==
    /\ pc["LoadAvgThread"] = "test"
    /\ \E ok \in BOOLEAN : Verdict("LoadAvgThread", "LOADAVGTOOHIGH", "cond", ok)
    /\ UNCHANGED <<holder, testExe, pings, nets, check, code, refused, ending,
                   proc>>

TestMinPages ==
    /\ pc["MinPagesThread"] = "test"
    /\ \E ok \in BOOLEAN : Verdict("MinPagesThread", "OUTOFMEMORY", "cond", ok)
    /\ UNCHANGED <<holder, testExe, pings, nets, check, code, refused, ending,
                   proc>>

\* After a failed mmap the thread goes on to memset(MAP_FAILED), which kills
\* the process.
TestMemory ==
    /\ pc["TestMemoryAllocation"] = "test"
    /\ \/ /\ Judge("TestMemoryAllocation", "pass")
          /\ UNCHANGED <<error, proc>>
       \/ /\ Judge("TestMemoryAllocation", "fail")
          /\ error' = error \cup {"OUTOFMEMORY"}
          /\ proc' = "crashed"
    /\ Goto("TestMemoryAllocation", "cond")
    /\ UNCHANGED <<holder, testExe, pings, nets, check, code, refused, ending>>

SyncDisks ==
    /\ pc["Sync"] = "test"
    /\ Goto("Sync", "cond")
    /\ UNCHANGED <<holder, shared, pings, nets, check, code, refused, ending,
                   proc>>

\* What getifaddrs says of an interface: it is not there, or its count of bytes
\* is the same as at the last test, or it has grown.
Counts == {"gone", "same", "grown"}

\* A new node's rx is -1, which no count is.
Ahead(now) == behind \cup {i \in Interfaces : now[i] = "grown"}

\* Slip: the walk is over at the first interface that is there.
DeadFirstOnly(now) ==
    LET here == {i \in Interfaces : now[i] # "gone"}
    IN {i \in here \ Ahead(now) : \A j \in here : i <= j}

\* One that is gone is passed over.
Dead(now) == {i \in Interfaces : now[i] # "gone"} \ Ahead(now)

\* The walk of NetMonCheckNetworkInterfaces ends at the first dead interface, and
\* has stored the counts of those before it.
StoreCounts(now) ==
    behind' = {i \in Ahead(now) : now[i] = "gone" \/ \E d \in Dead(now) : d < i}

\* Fewer than LinkRetries + 1 misses in a row neither set nor clear the flag.
\* The counter saturates one above the limit here.
CountMiss(m) ==
    \/ /\ linkMisses < LinkRetries
       /\ Judge(m, "fail")
       /\ linkMisses' = linkMisses + 1
       /\ Goto(m, "cond")
       /\ UNCHANGED error
    \/ /\ linkMisses >= LinkRetries
       /\ Verdict(m, "NETWORKDOWN", "cond", FALSE)
       /\ linkMisses' = LinkRetries + 1

TestLinks ==
    LET m == "CheckNetworkInterfacesThread" IN
    /\ pc[m] = "test"
    /\ IF cut = 0 THEN cut' \in Interfaces \cup {0} ELSE UNCHANGED cut
    /\ \E now \in [Interfaces -> Counts] :
         /\ cut' # 0 => now[cut'] = "same"
         /\ StoreCounts(now)
         /\ \/ /\ Dead(now) = {}
               /\ Verdict(m, "NETWORKDOWN", "cond", TRUE)
               /\ linkMisses' = 0
               /\ passes' = IF cut' = 0 \/ passes = 2 THEN passes ELSE passes + 1
            \/ Dead(now) # {} /\ CountMiss(m) /\ UNCHANGED passes
    /\ UNCHANGED <<holder, testExe, pings, check, code, refused, ending, proc>>
-----------------------------------------------------------------------------
(* TestPidfileThread.                                                      *)

\* How the check of one pid file can end, and the flag each end sets.  A
\* failing fstat and a pid that may not be signalled count with softboot only.
PidResults == {"alive", "noName", "noTime", "cannotOpen", "cannotStat",
               "badType", "cannotRead", "notANumber", "noProcess",
               "notPermitted"}

PidFlag(r) ==
    CASE r \in {"noName", "noTime", "notANumber"} -> {"UNKNOWNPIDFILERROR"}
      [] r \in {"cannotOpen", "badType", "cannotRead", "noProcess"}
                                                  -> {"PIDFILERROR"}
      [] r \in {"cannotStat", "notPermitted"}
                        -> IF setup.softBoot THEN {"PIDFILERROR"} ELSE {}
      [] r = "alive"                              -> {}

\* The messages of these ends print strerror_l(errno, locale).
NamesErrno(r) == r \notin {"alive", "noName", "noTime", "badType"}

\* The files are looked at in turn up to the first that sets a flag.
Failing(r) == {i \in 1..NumPidFiles : PidFlag(r[i]) # {}}
First(r)   == {i \in Failing(r) : \A j \in Failing(r) : i <= j}
Seen(r)    == {i \in 1..NumPidFiles : \A j \in Failing(r) : i <= j}

TestPidfiles ==
    /\ pc["TestPidfileThread"] = "test"
    /\ \E r \in [1..NumPidFiles -> PidResults] :
         /\ Judge("TestPidfileThread", IF Failing(r) = {} THEN "pass" ELSE "fail")
         /\ error' = error \cup UNION {PidFlag(r[i]) : i \in First(r)}
         /\ Uses(IF \E i \in Seen(r) : NamesErrno(r[i]) THEN {"locale"} ELSE {})
    /\ Goto("TestPidfileThread", "cond")
    /\ UNCHANGED <<holder, testExe, pings, nets, check, code, refused, ending>>
-----------------------------------------------------------------------------
(* Ping.                                                                   *)

PingSend ==
    /\ pc["Ping"] = "test"
    /\ Uses({"pingObj"})
    /\ \/ /\ todo' = Hosts
          /\ Goto("Ping", IF Hosts = {} THEN "cond" ELSE "hosts")
          /\ UNCHANGED error
       \/ /\ error' = error \cup {"PINGFAILED"}
          /\ Goto("Ping", "cond")
          /\ UNCHANGED todo
    /\ UNCHANGED <<holder, testExe, verdict, cxt, nets, check, code, refused,
                   ending>>

AfterHost(h) == IF todo = {h} THEN "cond" ELSE "hosts"

\* A host that answers drops its context.  Only if it had one, that is only
\* after fewer misses than make a failure, is PINGFAILED cleared.
HostAnswers(h) ==
    /\ pc["Ping"] = "hosts" /\ h \in todo
    /\ todo' = todo \ {h}
    /\ cxt' = [cxt EXCEPT ![h] = 0]
    /\ Goto("Ping", IF cxt[h] # 0 /\ "PINGFAILED" \in error
                    THEN "reset" ELSE AfterHost(h))
    /\ Judge(h, "pass")
    /\ Uses({"pingObj"})
    /\ UNCHANGED <<holder, error, testExe, nets, check, code, refused, ending>>

\* "*retries > 3" does not hold yet.
Tolerated(h) == cxt[h] <= PingRetries

\* The first miss allocates the context; calloc may fail.  The context is
\* freed when the host is found to have failed.
HostMisses(h) ==
    /\ pc["Ping"] = "hosts" /\ h \in todo
    /\ todo' = todo \ {h}
    /\ \/ /\ Tolerated(h)
          /\ cxt' = [cxt EXCEPT ![h] = @ + 1]
          /\ UNCHANGED error
       \/ /\ cxt[h] = 0 \/ ~Tolerated(h)
          /\ cxt' = [cxt EXCEPT ![h] = 0]
          /\ error' = error \cup {"PINGFAILED"}
    /\ Judge(h, "fail")
    /\ Goto("Ping", AfterHost(h))
    /\ Uses({"pingObj"})
    /\ UNCHANGED <<holder, testExe, nets, check, code, refused, ending>>

PingReset == Reset("Ping", "PINGFAILED", IF todo = {} THEN "cond" ELSE "hosts")
-----------------------------------------------------------------------------
(* Monitors that take no lock.                                             *)

\* Only EAGAIN is a failure; it is never taken back.
ForkProcess ==
    /\ pc["TestFork"] = "test"
    /\ \/ /\ Judge("TestFork", "pass")
          /\ UNCHANGED error
       \/ /\ Judge("TestFork", "fail")
          /\ error' = error \cup {"FORKFAILED"}
    /\ Goto("TestFork", "sleep")
    /\ UNCHANGED <<holder, testExe, pings, nets, check, code, refused, ending,
                   proc>>

RunScripts ==
    /\ pc["TestDirThread"] = "test"
    /\ \E ok \in BOOLEAN : Verdict("TestDirThread", "SCRIPTFAILED", "sleep", ok)
    /\ UNCHANGED <<holder, testExe, pings, nets, check, code, refused, ending,
                   proc>>

RunTestBinary ==
    /\ pc["TestBinThread"] = "test"
    /\ \E ret \in TestExeCodes \cup {0} :
         /\ testExe' = ret
         /\ Judge("TestBinThread", IF ret = 0 THEN "pass" ELSE "fail")
    /\ Goto("TestBinThread", "sleep")
    /\ UNCHANGED <<holder, error, pings, nets, check, code, refused, ending,
                   proc>>

\* TestDirThread and TestBinThread leave when stop is set, TestFork does not.
EndSleep(m) ==
    /\ pc[m] = "sleep"
    /\ Goto(m, IF stop /\ m # "TestFork" THEN "gone" ELSE "test")
    /\ UNCHANGED <<holder, shared, pings, nets, check, code, refused, ending,
                   proc>>
-----------------------------------------------------------------------------
(* Shutdown, called by ManagerThread under the lock and by DbusHelper      *)
(* without it.                                                             *)

\* Slip: "the command codes and above".
BypassesFrom254(n) == n >= WECMDRESET

\* The codes that need no repair binary.
Bypasses(n) == n \in {WECMDREBOOT, WECMDRESET}

\* Shutdown is entered with code n.
CallShutdown(t, n) ==
    /\ code' = [code EXCEPT ![t] = n]
    /\ Goto(t, IF NoAction THEN "return" ELSE IF Bypasses(n) THEN "end" ELSE "spawn")

\* The repair binary ends: 0 means the problem was dealt with.  Without a
\* repair binary Spawn returns -1.
RepairReturns(t) ==
    /\ pc[t] = "spawn"
    /\ \/ /\ Goto(t, "return")
          /\ refused' = refused \ {t}
       \/ /\ Goto(t, "end")
          /\ refused' = refused \cup {t}
    /\ UNCHANGED <<holder, shared, pings, nets, check, code, ending, proc>>

\* What EndDaemon frees; with keepalive false the configuration too.
Freed(keepalive) ==
    {"locale"} \cup (IF "Ping" \in Started THEN {"pingObj"} ELSE {})
               \cup (IF keepalive THEN {} ELSE {"cfg"})

\* stop is set, the ping contexts, the ping object and the locale are freed; a
\* host that cannot be removed ends it before that.
EndDaemon(keepalive) ==
    /\ stop' = TRUE
    /\ cxt' = [h \in Hosts |-> 0]
    /\ \/ released' = released \cup Freed(keepalive)
       \/ "Ping" \in Started /\ released' = released \cup {"pingObj"}
    /\ Uses({"locale", "pingObj"})

ShutdownEnds(t) ==
    /\ pc[t] = "end"
    /\ EndDaemon(TRUE)
    /\ Goto(t, "native")
    /\ UNCHANGED <<holder, shared, todo, nets, check, code, refused, stopPing,
                   cancelled, sent, wdt>>

\* NativeShutdown sets stopPing first ...
SetStopPing(t) ==
    /\ pc[t] = "native"
    /\ stopPing' = TRUE
    /\ Goto(t, "kill")
    /\ UNCHANGED <<holder, shared, pings, nets, check, code, refused, stop,
                   released, cancelled, sent, wdt, proc>>

\* ... and then tells PID 1 what to do.
SignalFor(n) ==
    IF setup.kexec THEN "SIGRTMIN+6"
    ELSE CASE n = WETEMP     -> "SIGRTMIN+4"
           [] n = WECMDRESET -> "SIGRTMIN+15"
           [] OTHER          -> "SIGRTMIN+5"

SignalInit(t) ==
    /\ pc[t] = "kill"
    /\ sent' = sent \cup {SignalFor(code[t])}
    /\ Goto(t, "return")
    /\ UNCHANGED <<holder, shared, pings, nets, check, code, refused, stop,
                   stopPing, released, cancelled, wdt, proc>>

ShutdownStep(t) ==
    RepairReturns(t) \/ ShutdownEnds(t) \/ SetStopPing(t) \/ SignalInit(t)
-----------------------------------------------------------------------------
(* ManagerThread.                                                          *)

\* Slip: pthread_cond_signal, which wakes one of those that wait.
FirstWaiter ==
    LET waiting == {m \in LockedMonitors : pc[m] = "wait"} IN
    IF waiting = {} THEN {} ELSE {CHOOSE m \in waiting : TRUE}

\* Who is woken by pthread_cond_broadcast.
Waiters == {m \in LockedMonitors : pc[m] = "wait"}

ManagerLock ==
    /\ pc["ManagerThread"] = "lock" /\ holder = NoThread
    /\ holder' = "ManagerThread"
    /\ pc' = [t \in Threads |-> IF t = "ManagerThread" THEN "check"
                               ELSE IF t \in Waiters THEN "woken" ELSE pc[t]]
    /\ check' = 1
    /\ UNCHANGED <<shared, pings, nets, code, refused, ending, proc>>

Triggered(k) ==
    IF k = TestExeCheck THEN testExe # 0 ELSE CheckedFlags[k] \cap error # {}

NextCheck ==
    IF check = NumChecks
    THEN Goto("ManagerThread", "unlock") /\ UNCHANGED check
    ELSE Goto("ManagerThread", "check") /\ check' = check + 1

ManagerCheck ==
    /\ pc["ManagerThread"] = "check"
    /\ IF Triggered(check)
       THEN Goto("ManagerThread", "call") /\ UNCHANGED check
       ELSE NextCheck
    /\ UNCHANGED <<holder, shared, pings, nets, code, refused, ending, proc>>

\* testExeReturnValue is read again for the argument.
ManagerCall ==
    /\ pc["ManagerThread"] = "call"
    /\ CallShutdown("ManagerThread",
                    IF check = TestExeCheck THEN testExe ELSE CheckedCode[check])
    /\ UNCHANGED <<holder, shared, pings, nets, check, refused, ending, proc>>

ManagerReturn ==
    /\ pc["ManagerThread"] = "return"
    /\ NextCheck
    /\ UNCHANGED <<holder, shared, pings, nets, code, refused, ending, proc>>

ManagerUnlock ==
    /\ pc["ManagerThread"] = "unlock"
    /\ holder' = NoThread
    /\ Goto("ManagerThread", "sleep")
    /\ UNCHANGED <<shared, pings, nets, check, code, refused, ending, proc>>

\* Slip: stop is not looked at.
ManagerSleepsOn ==
    /\ pc["ManagerThread"] = "sleep"
    /\ Goto("ManagerThread", "lock")
    /\ UNCHANGED <<holder, shared, pings, nets, check, code, refused, ending,
                   proc>>

ManagerSleep ==
    /\ pc["ManagerThread"] = "sleep"
    /\ Goto("ManagerThread", IF stop THEN "gone" ELSE "lock")
    /\ UNCHANGED <<holder, shared, pings, nets, check, code, refused, ending,
                   proc>>
-----------------------------------------------------------------------------
(* DbusHelper.                                                             *)

HelperLoop ==
    /\ pc["DbusHelper"] = "loop"
    /\ Goto("DbusHelper", IF stop THEN "gone" ELSE "read")
    /\ UNCHANGED <<holder, shared, pings, nets, check, code, refused, ending,
                   proc>>

\* A query is answered without touching the shared state; DBUSHUTDOWN calls
\* Shutdown with cancellation disabled and without managerlock; a read that fails
\* ends the thread.
HelperCommand ==
    /\ pc["DbusHelper"] = "read" /\ ~cancelled
    /\ \/ \E next \in {"loop", "gone"} : Goto("DbusHelper", next) /\ UNCHANGED code
       \/ CallShutdown("DbusHelper", DbusCode)
    /\ UNCHANGED <<holder, shared, pings, nets, check, refused, ending, proc>>

HelperReturn ==
    /\ pc["DbusHelper"] = "return"
    /\ Goto("DbusHelper", "loop")
    /\ UNCHANGED <<holder, shared, pings, nets, check, code, refused, ending,
                   proc>>

\* Slip: cancellation stays disabled until stop is set.
HelperCancelledLate ==
    /\ pc["DbusHelper"] = "read" /\ cancelled /\ stop
    /\ Goto("DbusHelper", "gone")
    /\ UNCHANGED <<holder, shared, pings, nets, check, code, refused, ending,
                   proc>>

\* read() is the thread's only cancellation point.
HelperCancelled ==
    /\ pc["DbusHelper"] = "read" /\ cancelled
    /\ Goto("DbusHelper", "gone")
    /\ UNCHANGED <<holder, shared, pings, nets, check, code, refused, ending,
                   proc>>
-----------------------------------------------------------------------------
(* The main thread after sd_event_loop.                                    *)

\* SIGTERM or SIGINT ends the event loop; stop is read once.
LeaveEventLoop ==
    /\ pc["main"] = "loop"
    /\ Goto("main", "left")
    /\ UNCHANGED <<holder, shared, pings, nets, check, code, refused, ending,
                   proc>>

\* Slip: stop is not looked at, and the service leaves.
TestStopNot ==
    /\ pc["main"] = "left"
    /\ Goto("main", "cancel")
    /\ UNCHANGED <<holder, shared, pings, nets, check, code, refused, ending,
                   proc>>

TestStop ==
    /\ pc["main"] = "left"
    /\ Goto("main", IF stop THEN "final" ELSE "cancel")
    /\ UNCHANGED <<holder, shared, pings, nets, check, code, refused, ending,
                   proc>>

\* During a reboot main pings until stopPing is set and then disarms the
\* device over and over, until the process is killed.
FinalLoop ==
    /\ pc["main"] = "final"
    /\ wdt' = IF stopPing THEN "closed" ELSE wdt
    /\ UNCHANGED <<holder, pc, shared, pings, nets, check, code, refused, stop,
                   stopPing, released, cancelled, sent, proc>>

CancelHelper ==
    /\ pc["main"] = "cancel"
    /\ cancelled' = TRUE
    /\ Goto("main", "join")
    /\ UNCHANGED <<holder, shared, pings, nets, check, code, refused, stop,
                   stopPing, released, sent, wdt, proc>>

JoinHelper ==
    /\ pc["main"] = "join" /\ pc["DbusHelper"] = "gone"
    /\ Goto("main", "close")
    /\ UNCHANGED <<holder, shared, pings, nets, check, code, refused, ending,
                   proc>>

CloseWatchdog ==
    /\ pc["main"] = "close"
    /\ wdt' = "closed"
    /\ Goto("main", "end")
    /\ UNCHANGED <<holder, shared, pings, nets, check, code, refused, stop,
                   stopPing, released, cancelled, sent, proc>>

MainEnds ==
    /\ pc["main"] = "end"
    /\ EndDaemon(FALSE)
    /\ Goto("main", "exit")
    /\ UNCHANGED <<holder, shared, todo, nets, check, code, refused, stopPing,
                   cancelled, sent, wdt>>

Exit ==
    /\ pc["main"] = "exit"
    /\ proc' = "exited"
    /\ UNCHANGED <<holder, pc, shared, pings, nets, check, code, refused,
                   ending>>
-----------------------------------------------------------------------------
\* A locked monitor's own steps, without those that must get the mutex.
MonitorStep(m) ==
    \/ CondWait(m)
    \/ m = "LoadAvgThread" /\ (TestLoadAvg \/ Reset(m, "LOADAVGTOOHIGH", "cond"))
    \/ m = "MinPagesThread" /\ (TestMinPages \/ Reset(m, "OUTOFMEMORY", "cond"))
    \/ m = "TestMemoryAllocation" /\ TestMemory
    \/ m = "Sync" /\ SyncDisks
    \/ m = "CheckNetworkInterfacesThread"
       /\ (TestLinks \/ Reset(m, "NETWORKDOWN", "cond"))
    \/ m = "TestPidfileThread" /\ TestPidfiles
    \/ m = "Ping" /\ (PingSend \/ PingReset
                      \/ \E h \in Hosts : HostAnswers(h) \/ HostMisses(h))

FreeMonitorStep(m) ==
    \/ EndSleep(m)
    \/ m = "TestFork" /\ ForkProcess
    \/ m = "TestDirThread" /\ (RunScripts \/ Reset(m, "SCRIPTFAILED", "sleep"))
    \/ m = "TestBinThread" /\ RunTestBinary

ManagerStep ==
    \/ ManagerCheck \/ ManagerCall \/ ManagerReturn \/ ManagerUnlock \/ ManagerSleep
    \/ ShutdownStep("ManagerThread")

HelperStep ==
    HelperLoop \/ HelperReturn \/ HelperCancelled \/ ShutdownStep("DbusHelper")

MainStep ==
    TestStop \/ FinalLoop \/ CancelHelper \/ JoinHelper \/ CloseWatchdog
    \/ MainEnds \/ Exit

Step ==
    \/ \E m \in LockedMonitors :
         Acquire(m) \/ Wake(m) \/ SpuriousWakeup(m) \/ MonitorStep(m)
    \/ \E m \in FreeMonitors : FreeMonitorStep(m)
    \/ ManagerLock \/ ManagerStep
    \/ HelperStep \/ HelperCommand
    \/ LeaveEventLoop \/ MainStep

\* A process that has ended takes no step.
Next == \/ proc = "running" /\ Step /\ UNCHANGED setup
        \/ proc # "running" /\ UNCHANGED vars

Spec == Init /\ [][Next]_vars

Startable == UNION {s.started : s \in Setups}

Running(A) == proc = "running" /\ A /\ UNCHANGED setup

\* Every thread keeps running and nobody is kept from the mutex for ever: its
\* owners sleep, or wait for workerupdate, most of the time.  The repair
\* binary ends.  Commands, SIGTERM and spurious wakeups need never come.
Fairness ==
    /\ \A m \in Startable \cap LockedMonitors :
                                 /\ WF_vars(Running(MonitorStep(m)))
                                 /\ SF_vars(Running(Acquire(m)))
                                 /\ SF_vars(Running(Wake(m)))
    /\ \A m \in Startable \cap FreeMonitors : WF_vars(Running(FreeMonitorStep(m)))
    /\ SF_vars(Running(ManagerLock)) /\ WF_vars(Running(ManagerStep))
    /\ WF_vars(Running(HelperStep))
    /\ WF_vars(Running(MainStep))

FairSpec == Spec /\ Fairness
-----------------------------------------------------------------------------
(* Properties.                                                             *)

Labels == {"lock", "test", "reset", "hosts", "cond", "wait", "woken", "sleep",
           "check", "call", "spawn", "end", "native", "kill", "return",
           "unlock", "loop", "read", "left", "final", "cancel", "join",
           "close", "exit", "gone"}

Codes == {CheckedCode[k] : k \in 1..NumChecks} \cup TestExeCodes \cup {0, DbusCode}

\* The variables have the types the code gives them; a retry context never
\* counts past the limit at which it is freed.
TypeOK ==
    /\ setup \in Setups
    /\ holder \in LockedMonitors \cup {"ManagerThread", NoThread}
    /\ pc \in [Threads -> Labels]
    /\ error \subseteq Flags
    /\ testExe \in TestExeCodes \cup {0}
    /\ todo \subseteq Hosts
    /\ cxt \in [Hosts -> 0..(PingRetries + 1)]
    /\ linkMisses \in 0..(LinkRetries + 1)
    /\ behind \subseteq Interfaces /\ cut \in Interfaces \cup {0} /\ passes \in 0..2
    /\ check \in 1..NumChecks
    /\ code \in [Callers -> Codes]
    /\ refused \subseteq Callers
    /\ stop \in BOOLEAN /\ stopPing \in BOOLEAN /\ cancelled \in BOOLEAN
    /\ released \subseteq {"locale", "pingObj", "cfg"}
    /\ sent \subseteq {"SIGRTMIN+4", "SIGRTMIN+5", "SIGRTMIN+6", "SIGRTMIN+15"}
    /\ wdt \in {"open", "closed"}
    /\ proc \in {"running", "crashed", "exited"}
    /\ verdict \in [Judged -> {"none", "pass", "fail"}]

ShutdownLabels == {"call", "spawn", "end", "native", "kill", "return"}
InShutdown(t)  == pc[t] \in ShutdownLabels

\* The flags that only one monitor, testing under the lock, sets and clears.
LockedFlags == {"LOADAVGTOOHIGH", "OUTOFMEMORY", "NETWORKDOWN"}
Owner(f) == CASE f = "LOADAVGTOOHIGH" -> "LoadAvgThread"
              [] f = "OUTOFMEMORY"    -> "MinPagesThread"
              [] f = "NETWORKDOWN"    -> "CheckNetworkInterfacesThread"

\* For as long as the manager deals with a high load, a lack of memory or a
\* dead link (repairing, ending the daemon, signalling PID 1), the monitor
\* concerned has not seen the condition go away: managerlock keeps the reason
\* current while Shutdown runs.
CurrentReason ==
    \A f \in LockedFlags :
        InShutdown("ManagerThread") /\ f \in CheckedFlags[check]
            => verdict[Owner(f)] = "fail"

\* Ending the daemon is always the repair binary's refusal, or a test binary
\* that asked for WECMDREBOOT or WECMDRESET; the codes of the flags and of
\* D-Bus never pass the repair binary by, although the test binary's result is
\* read twice and the two callers of Shutdown overlap.
RepairFirst ==
    \A t \in Callers :
        pc[t] \in {"end", "native", "kill"}
            => \/ t \in refused
               \/ /\ code[t] \in {WECMDREBOOT, WECMDRESET}
                  /\ t = "ManagerThread" /\ check = TestExeCheck

\* Memory is used after it was freed only once EndDaemon has set stop; before,
\* only the failed memory test kills the process.
CrashOnlyAfterEnd ==
    proc = "crashed" => stop \/ verdict["TestMemoryAllocation"] = "fail"

\* Once an interface that is there receives nothing any more, the link test
\* succeeds at most once more, whatever the others do: the walk may end before it,
\* an interface before it may come and go, its own count may still be one that
\* was never stored.
LinkNoticed == passes <= 1

\* managerlock: a monitor between pthread_mutex_lock and pthread_cond_wait
\* owns it, the manager owns it from its lock to its unlock, repair binary and
\* signals included, and nobody else ever does.
LockInv ==
    /\ \A m \in LockedMonitors :
         holder = m <=> pc[m] \in {"test", "hosts", "reset", "cond"}
    /\ holder = "ManagerThread"
         <=> pc["ManagerThread"] \in {"check", "unlock"} \cup ShutdownLabels

\* A flag of LockedFlags that is on is its monitor's latest verdict, except
\* between that monitor's look and its clearing.
FlagInv ==
    \A f \in LockedFlags \cap error :
        \/ verdict[Owner(f)] = "fail"
        \/ pc[Owner(f)] = "reset"
        \/ proc = "crashed"

\* Nothing is freed, and so nothing is used after it was freed, before stop.
EndInv ==
    /\ released # {} => stop
    /\ CrashOnlyAfterEnd

\* What the success stored is the count at which the interface stays.
LinkInv ==
    /\ LinkNoticed
    /\ passes > 0 => cut # 0 /\ cut \notin behind

\* The inductive invariant.
IInv == /\ TypeOK /\ LockInv /\ FlagInv /\ EndInv /\ LinkInv
        /\ CurrentReason /\ RepairFirst

\* With -q no failure, whatever its code, ends the daemon, signals PID 1 or
\* asks the repair binary.
NoActionHarmless ==
    NoAction => /\ sent = {} /\ refused = {} /\ ~stopPing
                /\ stop => pc["main"] = "exit"

\* What must hold for the order of Shutdown, NativeShutdown and the end of
\* ServiceMain to be that of Escalation.
OrderInv ==
    /\ \A t \in Callers : /\ pc[t] \in {"native", "kill"} => stop
                          /\ pc[t] = "kill" => stopPing
    /\ pc["main"] \in {"end", "exit"} => wdt = "closed"
    /\ pc["main"] = "exit" => stop

Asking  == {t \in Callers : pc[t] = "spawn"}
Doomed  == {t \in Callers : pc[t] \in {"end", "native", "kill"}}
Leaving == pc["main"] \in {"cancel", "join", "close", "end", "exit"}

Abstract == INSTANCE Escalation WITH
    Trusted <- {"ManagerThread"},
    quiet   <- NoAction,
    asking  <- Asking,
    doomed  <- Doomed,
    ended   <- stop,
    silent  <- stopPing,
    asked   <- sent # {},
    leaving <- Leaving,
    guard   <- wdt,
    life    <- proc

\* The threads take the machine down in the order Escalation promises, or leave it
\* guarded: whoever calls Shutdown, and whenever SIGTERM comes in between.
Escalates == Abstract!Spec

\* Every monitor under the lock is tested again and again, as long as nobody
\* ends the daemon: no broadcast is lost for good and nobody keeps the lock.
KeepsTesting ==
    \A m \in Startable \cap LockedMonitors :
        []<>(m \notin Started \/ pc[m] = "test" \/ stop \/ proc # "running")

\* A load that stays too high is dealt with again and again, when no other
\* started monitor clears flags.
LoadHandled ==
    <>[](verdict["LoadAvgThread"] = "fail")
        => []<>(\/ InShutdown("ManagerThread") /\ check = 1
                \/ stop \/ proc # "running")

\* SIGTERM ends the process, or leads to the loop that waits for the reboot;
\* joining the D-Bus thread does not block for ever.
TerminationTaken ==
    pc["main"] = "left" ~> (proc # "running" \/ pc["main"] = "final")

\* Once stop is set the manager leaves.
ManagerLeaves ==
    stop ~> (pc["ManagerThread"] = "gone" \/ proc # "running")

\* "This thread gets data from the non main threads and calls a function to
\* take care of the problem": a load that is too high is on record when the
\* manager looks.
ProblemReachesManager ==
    pc["ManagerThread"] = "check" /\ check = 1
        => (verdict["LoadAvgThread"] = "fail" => "LOADAVGTOOHIGH" \in error)
=============================================================================
