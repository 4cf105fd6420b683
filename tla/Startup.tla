-------------------------------- MODULE Startup -------------------------------
(***************************************************************************)
(* ServiceMain of main.cpp from the command line to the last thread of     *)
(* StartHelperThreads: which options are left (Options), the list of the   *)
(* scripts (ScriptList), what each test works on, and which threads are    *)
(* started.  One process, one thread; what the environment may refuse is   *)
(* chosen where the program asks for it.  Monitors goes on from here, with *)
(* the set that "started" holds.                                           *)
(***************************************************************************)
EXTENDS ScriptList, Options

CONSTANT Starts   \* command line, file and directory the service may be given

\* What a file says of an array of settings.
ArrayType == {"absent", "notArray", "empty", "some"}

\* A file that is absent makes no setting at all.  maxLoad1 stands for the sign
\* of the load, minMemory for that of the pages.
StartFile == [parses : BOOLEAN, on : SUBSET FileFlags,
              usePidFile : {"absent", "true", "false"},
              lockMemory : {"absent", "true", "false"},
              realtime   : {"absent", "true", "false"},
              logTarget  : {"auto", "stderr", "file", "invalid"},
              testBinary : {"absent", "notExe", "exe"},
              minMemory : -1..1, maxLoad1 : -1..1,
              pidFiles : ArrayType, interfaces : ArrayType, hosts : ArrayType]

\* Letters does without the options that print something and end.
ASSUME StartsAssumption ==
    \A s \in Starts :
        /\ s.line \in Seq(Letters) /\ s.file \in StartFile
        /\ s.dir \in Seq(EntryType) /\ Len(s.dir) <= MaxEntries
        /\ s.opens \in BOOLEAN /\ s.systemd \in BOOLEAN

\* StartHelperThreads starts the threads in this order.
Order == << "ServiceManagerKeepAliveNotification", "TestFork", "TestDirThread",
            "TestBinThread", "LoadAvgThread", "Sync", "MinPagesThread",
            "TestPidfileThread", "Ping", "TestMemoryAllocation",
            "CheckNetworkInterfacesThread" >>

VARIABLES
    start,      \* what the service was given
    phase,      \* where ServiceMain is
    flags,      \* cfgoptions.options
    cfg,        \* the settings the threads are started by
    logTarget,
    announced,  \* SIGUSR1 was sent to the shell's child
    pidFile,    \* the pid file is this process's
    pingObj,    \* "none", "made", "filled" or "destroyed"
    devices,    \* "zero" (static memory), or the interfaces NetMonAdd took
    executor,   \* the executor of the scripts runs, and rst is set
    turn,       \* the thread StartHelperThreads looks at next
    started     \* the threads that were created

settings == <<flags, cfg, logTarget>>
objects  == <<announced, pidFile, pingObj, devices, executor>>
vars     == <<listVars, start, phase, settings, objects, turn, started>>

File == start.file

Phases == {"line", "file", "list", "settings", "arrays", "daemon", "ping",
           "executor", "threads", "running", "failed", "aborted", "crashed",
           "identified"}
Ends   == {"running", "failed", "aborted", "crashed", "identified"}
-----------------------------------------------------------------------------
Init ==
    /\ start \in Starts
    /\ dir = start.dir
    /\ ListInitial
    /\ phase = "line"
    /\ flags = {} /\ logTarget = "stderr"
    /\ cfg = [testBinary |-> FALSE, minFreePages |-> FALSE, maxLoadOne |-> FALSE,
              interfaces |-> FALSE]
    /\ announced = FALSE /\ pidFile = FALSE
    /\ pingObj = "none" /\ devices = "zero" /\ executor = FALSE
    /\ turn = 1 /\ started = {}

\* A line is refused for a log level, an option or a device that is none.  The
\* program is called watchdogd; called wd_identify it would add IDENTIFY.
CommandLine ==
    /\ phase = "line"
    /\ flags' = ParseCommandLine(start.line)
    /\ phase' \in {"file", "failed"}
    /\ UNCHANGED <<listVars, start, cfg, logTarget, objects, turn, started>>

\* A file with an error: the default directory is read, and then all is over.
FileUnreadable ==
    /\ phase = "file" /\ ~File.parses
    /\ OpenDirectory(start.opens)
    /\ phase' = "list"
    /\ UNCHANGED <<start, settings, objects, turn, started>>

\* With IDENTIFY nothing but the device is looked up.
FileForIdentify ==
    /\ phase = "file" /\ File.parses /\ "IDENTIFY" \in flags
    /\ phase' = "daemon"
    /\ UNCHANGED <<listVars, start, settings, objects, turn, started>>

\* "auto" asks IsDaemon, before the file's daemonize is read.
SetDefaultLogTarget ==
    CASE File.logTarget = "auto" -> IF "DAEMONIZE" \in flags THEN "syslog" ELSE "stderr"
      [] OTHER                   -> File.logTarget

\* The settings up to pid-pathname, and the call of CreateLinkedListOfExes.
FileFirstHalf ==
    /\ phase = "file" /\ File.parses /\ "IDENTIFY" \notin flags
    /\ cfg' = [cfg EXCEPT !.testBinary = File.testBinary = "exe",
                          !.minFreePages = File.minMemory > 0]
    /\ IF File.logTarget = "invalid"
       THEN phase' = "failed" /\ UNCHANGED <<logTarget, listVars>>
       ELSE /\ logTarget' = SetDefaultLogTarget
            /\ OpenDirectory(start.opens)
            /\ phase' = "list"
    /\ UNCHANGED <<start, flags, objects, turn, started>>

\* FORCE is that of the line: the file's comes later.
ReadList ==
    /\ phase = "list"
    /\ ListStep("FORCE" \in flags)
    /\ phase' = IF walk' = "crashed" THEN "crashed" ELSE phase
    /\ UNCHANGED <<start, settings, objects, turn, started>>

ListRead ==
    /\ phase = "list" /\ walk \in {"done", "failed"}
    /\ phase' = IF walk = "done" /\ File.parses THEN "settings" ELSE "failed"
    /\ UNCHANGED <<listVars, start, settings, objects, turn, started>>

\* daemonize to sigterm-delay.  mlockall must succeed only if it was asked for,
\* the scheduler unless it was declined.
SettingsTaken ==
    /\ phase = "settings"
    /\ \E locked, scheduled \in BOOLEAN :
         LET refused == \/ File.lockMemory = "true" /\ ~locked
                        \/ File.realtime # "false" /\ ~scheduled
         IN phase' = IF refused THEN "failed" ELSE "arrays"
    /\ flags' = ReadConfigurationFile(flags, File)
                \cup (IF File.realtime = "false" THEN {} ELSE {"REALTIME"})
    /\ cfg' = [cfg EXCEPT !.maxLoadOne = File.maxLoad1 > 0]
    /\ UNCHANGED <<listVars, start, logTarget, objects, turn, started>>

\* The flags that stand for a test, which nothing clears once they are set.
ArrayFlags ==
    {f \in {"ENABLEPIDCHECKER", "ENABLEPING"} :
        IF f = "ENABLEPING" THEN File.hosts = "some" ELSE File.pidFiles = "some"}

\* Slip: the list of interfaces is not initialised.
ArraysWithoutInit ==
    /\ phase = "arrays"
    /\ IF "notArray" \in {File.pidFiles, File.interfaces, File.hosts}
       THEN phase' = "failed" /\ UNCHANGED <<flags, cfg, devices, pingObj>>
       ELSE /\ flags' = flags \cup ArrayFlags
            /\ cfg' = [cfg EXCEPT !.interfaces = File.interfaces # "absent"]
            /\ pingObj' = IF File.hosts = "some" THEN "made" ELSE pingObj
            /\ \/ phase' = "daemon"
               \/ File.hosts = "some" /\ phase' = "aborted"
            /\ UNCHANGED devices
    /\ UNCHANGED <<listVars, start, logTarget, announced, pidFile, executor, turn,
                   started>>

\* pid-files, network-interfaces and ping.  NetMonInit is called for an array
\* with elements; NetMonAdd takes those that are interfaces of the machine.
\* ping_construct may find no memory.
\* (What is set before the setting that is refused does not matter any more.)
Arrays ==
    /\ phase = "arrays"
    /\ IF "notArray" \in {File.pidFiles, File.interfaces, File.hosts}
       THEN phase' = "failed" /\ UNCHANGED <<flags, cfg, devices, pingObj>>
       ELSE /\ flags' = flags \cup ArrayFlags
            /\ cfg' = [cfg EXCEPT !.interfaces = File.interfaces # "absent"]
            /\ IF File.interfaces = "some"
               THEN devices' \in {"empty", "filled"} ELSE UNCHANGED devices
            /\ pingObj' = IF File.hosts = "some" THEN "made" ELSE pingObj
            /\ \/ phase' = "daemon"
               \/ File.hosts = "some" /\ phase' = "aborted"
    /\ UNCHANGED <<listVars, start, logTarget, announced, pidFile, executor, turn,
                   started>>

\* IsDaemon, Daemonize and the pid file, which another process may hold; with
\* IDENTIFY it has no name.
DaemonOrNot ==
    /\ phase = "daemon"
    /\ IF "DAEMONIZE" \in flags
       THEN /\ logTarget' = "syslog" /\ announced' = TRUE
            /\ pidFile' \in BOOLEAN /\ (pidFile' => "IDENTIFY" \notin flags)
       ELSE UNCHANGED <<logTarget, announced, pidFile>>
    /\ phase' = IF "IDENTIFY" \in flags THEN "identified" ELSE "ping"
    /\ UNCHANGED <<listVars, start, flags, cfg, pingObj, devices, executor, turn,
                   started>>

\* A host that does not resolve ends the service, announced as it may be.
PingInit ==
    /\ phase = "ping"
    /\ \/ "ENABLEPING" \notin flags /\ phase' = "executor" /\ UNCHANGED pingObj
       \/ "ENABLEPING" \in flags /\ pingObj' = "filled" /\ phase' = "executor"
       \/ "ENABLEPING" \in flags /\ pingObj' = "destroyed" /\ phase' = "failed"
    /\ UNCHANGED <<listVars, start, settings, announced, pidFile, devices, executor,
                   turn, started>>

\* An empty list needs no executor; a failing fork is fatal.
ExecuteRepairScriptsPreFork ==
    /\ phase = "executor"
    /\ \/ next[0] = 0 /\ phase' = "threads" /\ UNCHANGED executor
       \/ next[0] # 0 /\ executor' = TRUE /\ phase' = "threads"
       \/ next[0] # 0 /\ phase' = "aborted" /\ UNCHANGED executor
    /\ UNCHANGED <<listVars, start, settings, announced, pidFile, pingObj, devices,
                   turn, started>>

\* What StartHelperThreads and the Setup functions ask before a thread is made.
Asks(t) ==
    CASE t = "ServiceManagerKeepAliveNotification" -> start.systemd
      [] t = "TestDirThread"     -> executor
      [] t = "TestBinThread"     -> cfg.testBinary
      [] t = "LoadAvgThread"     -> cfg.maxLoadOne
      [] t = "Sync"              -> "SYNC" \in flags
      [] t = "MinPagesThread"    -> cfg.minFreePages
      [] t = "TestPidfileThread" -> "ENABLEPIDCHECKER" \in flags
      [] t = "Ping"              -> "ENABLEPING" \in flags
      [] t = "CheckNetworkInterfacesThread" -> cfg.interfaces
      [] OTHER                   -> TRUE

\* A thread that cannot be created is fatal, but for the last.
StartHelperThreads ==
    /\ phase = "threads" /\ turn <= Len(Order)
    /\ LET t == Order[turn] IN
       \/ /\ ~Asks(t)
          /\ UNCHANGED <<phase, started>>
       \/ /\ Asks(t)
          /\ started' = started \cup {t}
          /\ UNCHANGED phase
       \/ /\ Asks(t)
          /\ phase' = IF turn = Len(Order) THEN phase ELSE "aborted"
          /\ UNCHANGED started
    /\ turn' = turn + 1
    /\ UNCHANGED <<listVars, start, settings, objects>>

HelperThreadsStarted ==
    /\ phase = "threads" /\ turn > Len(Order)
    /\ phase' = "running"
    /\ UNCHANGED <<listVars, start, settings, objects, turn, started>>

\* An array without elements starts the thread, and nothing has initialised the
\* list it walks: its head is two null pointers.
LinkThreadWalks ==
    /\ phase \in {"threads", "running"}
    /\ "CheckNetworkInterfacesThread" \in started /\ devices = "zero"
    /\ phase' = "crashed"
    /\ UNCHANGED <<listVars, start, settings, objects, turn, started>>

Terminated == phase \in Ends /\ UNCHANGED vars
-----------------------------------------------------------------------------
ServiceMain ==
    \/ CommandLine \/ FileUnreadable \/ FileForIdentify \/ FileFirstHalf
    \/ ReadList \/ ListRead \/ SettingsTaken \/ Arrays \/ DaemonOrNot
    \/ PingInit \/ ExecuteRepairScriptsPreFork
    \/ StartHelperThreads \/ HelperThreadsStarted

Next == ServiceMain \/ LinkThreadWalks \/ Terminated

Spec     == Init /\ [][Next]_vars
FairSpec == Spec /\ WF_vars(ServiceMain)
-----------------------------------------------------------------------------
(* Properties.                                                             *)

\* The letter is on the line, and none of -n, -d and -F comes after it.
Stands(letter) ==
    \E k \in DOMAIN start.line :
        /\ start.line[k] = letter
        /\ \A j \in DOMAIN start.line : j > k => start.line[j] \notin {"n", "d", "F"}

Forced == Stands("f")

\* A script is left out when a configuration names it.
Shadowed(n) ==
    /\ Legacy(n)
    /\ \E m \in DOMAIN dir : Kept(Forced, m) /\ ~Legacy(m) /\ dir[m].path = dir[n].path

Wanted ==
    IF start.opens THEN {n \in DOMAIN dir : Kept(Forced, n) /\ ~Shadowed(n)} ELSE {}

\* m comes after n in a list of S that runs from the last entry of the directory
\* to the first; the head, 0, comes before all and after all.
Follows(m, n, S) ==
    /\ m \in S \cup {0}
    /\ \A k \in S : (n = 0 \/ k < n) <=> (k <= m)

\* The links make a list of exactly S, in this order, and fit both ways.
LinksAre(nx, pv, S) ==
    \A n \in S \cup {0} :
        /\ Follows(nx[n], n, S) /\ pv[nx[n]] = n
        /\ pv[n] \in S \cup {0} /\ nx[pv[n]] = n

\* When CreateLinkedListOfExes returns, however the entries of the directory
\* came in order and whatever was deleted while two loops walked the list: the
\* list holds every script and every configuration that can run, no script
\* beside its configuration, nothing that was freed; and numberOfRepairScripts,
\* from which the pool of threads takes its length, is the length of the list.
ListAsPromised ==
    walk = "done" /\ phase \notin {"line", "file"} =>
        LinksAre(next, prev, Wanted) /\ Wanted \cap freed = {} /\ number = Cardinality(Wanted)

\* What the letters of the line and the settings of the file ask for.  Two cases
\* are not held to be asked for, although "-s Regularly schedule file system
\* synchronization with sync()" makes no exception: -s with -n, -d or -F behind
\* it, and a sync of any kind with use-pid-file = false; the program loses both.
Asked ==
    {t \in {Order[i] : i \in DOMAIN Order} :
        CASE t = "ServiceManagerKeepAliveNotification" -> start.systemd
          [] t = "TestDirThread"     -> Wanted # {}
          [] t = "TestBinThread"     -> File.testBinary = "exe"
          [] t = "LoadAvgThread"     -> File.maxLoad1 = 1
          [] t = "Sync"              -> /\ Stands("s") \/ "SYNC" \in File.on
                                        /\ File.usePidFile # "false"
          [] t = "MinPagesThread"    -> File.minMemory = 1
          [] t = "TestPidfileThread" -> File.pidFiles = "some"
          [] t = "Ping"              -> File.hosts = "some"
          [] t = "CheckNetworkInterfacesThread" -> File.interfaces = "some"
          [] OTHER                   -> TRUE}

\* What a thread works on was made ready in an earlier phase: the executor for
\* the scripts, the hosts of the ping object, the list of the interfaces (but
\* for an array without elements, see LinkThreadWalks).
Ready(t) ==
    CASE t = "TestDirThread" -> executor /\ Wanted # {}
      [] t = "Ping"          -> pingObj = "filled"
      [] t = "CheckNetworkInterfacesThread" ->
             devices # "zero" \/ File.interfaces = "empty"
      [] OTHER               -> TRUE

\* A service that runs has started every test that was asked for (the last may
\* have found no thread, which is not looked at), and no thread was started
\* before what it works on was ready: each is asked for by a letter or a setting,
\* set up by one function and started by another, in the order of ServiceMain,
\* while later options and settings clear what earlier ones have set.
AskedIsReady ==
    /\ \A t \in started : Ready(t)
    /\ phase = "running" =>
           \A t \in Asked : Asks(t) /\ (t \in started \/ t = Order[Len(Order)])

\* Whatever the line, the file and the directory, ServiceMain gets to an end of
\* its startup, unless DeleteDuplicates goes on to the node it has just freed:
\* the script that is next in the list after its configuration.
StartEnds == <>(phase \in Ends \/ Trapped)
-----------------------------------------------------------------------------
(* What makes ListAsPromised inductive.                                    *)

Walks == {"idle", "read", "outer", "inner", "done", "failed", "crashed"}

TypeOK ==
    /\ start \in Starts
    /\ dir \in Seq(EntryType) /\ Len(dir) <= MaxEntries
    /\ at \in 1..(Len(dir) + 1)
    /\ next \in [Pointers -> Pointers] /\ prev \in [Pointers -> Pointers]
    /\ freed \subseteq Nodes
    /\ c \in Pointers /\ cNext \in Pointers /\ b \in Pointers /\ bNext \in Pointers
    /\ walk \in Walks /\ phase \in Phases

\* The nodes made so far, and those that are still there.
Added == {n \in DOMAIN dir : n < at /\ Kept(Forced, n)}
Held  == Added \ freed

\* When the list is made, and with which options.
InStep ==
    /\ phase \in {"line", "file"} => walk = "idle"
    /\ phase \in {"file", "list"} => flags = ParseCommandLine(start.line)
    /\ ~start.opens => walk \in {"idle", "done"}
    /\ walk = "idle" => at = 1
    /\ walk \in {"outer", "inner"} => at = Len(dir) + 1
    /\ walk = "done" => at = IF start.opens THEN Len(dir) + 1 ELSE 1

\* The outer loop stands at a node of the list and knows the next; the inner loop
\* does while the script it compares is there, and has found no match before.
CursorsOK ==
    /\ walk = "outer" /\ c # 0 => c \in Held
    /\ walk = "inner" => c \in Added /\ Legacy(c)
    /\ walk \in {"outer", "inner"} /\ c # 0 => Follows(cNext, c, Held)
    /\ walk = "inner" /\ c \notin freed =>
           /\ b \in Held \cup {0}
           /\ b # 0 => bNext = next[b]
           /\ \A m \in Held : (b = 0 \/ b < m) =>
                               Legacy(m) \/ dir[m].path # dir[c].path

\* What the outer loop has not yet left behind.
Ahead(n) ==
    CASE walk = "outer"           -> c # 0 /\ n <= c
      [] walk = "inner"           -> n <= c
      [] walk = "done"            -> FALSE
      [] OTHER                    -> TRUE

\* What it has counted.
Counted ==
    {n \in Held : CASE walk = "outer" -> c = 0 \/ n > c
                    [] walk = "inner" -> n >= c
                    [] walk = "done"  -> TRUE
                    [] OTHER          -> FALSE}

ListInv ==
    /\ freed \subseteq {n \in Added : Shadowed(n)}
    /\ \A n \in Held : Shadowed(n) => Ahead(n)
    /\ LinksAre(next, prev, Held)
    /\ number = Cardinality(Counted)

IInv == TypeOK /\ InStep /\ (walk # "crashed" => CursorsOK /\ ListInv)
=============================================================================
