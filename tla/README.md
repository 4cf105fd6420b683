# A verification project for watchdogd

watchdogd keeps a hardware watchdog fed while a set of tests says that the
machine is healthy, and takes the machine down in an orderly way when one of
them fails. This directory models the program in TLA+, checks the models with
TLC on small instances, and proves the most important properties with TLAPS for
every value of the constants. The source files are under `src/src/`.

## 1. Inventory

### The processes and threads

```
 shell's child (main, forked)   -- forwards signals; leaves when it is a daemon
   `-- D-Bus process (DbusApiInit)  -- deadlines of clients; asks the service
         `-- supervisor (main)      -- restarts the service on SIGHUP, ends with it
               `-- service (ServiceMain)
                     main thread     event loop: signals, Pinger timer; then the final loop
                     monitors        LoadAvgThread, MinPagesThread, TestMemoryAllocation,
                                     TestPidfileThread, Ping, CheckNetworkInterfacesThread,
                                     Sync, TestFork, TestDirThread, TestBinThread
                     ManagerThread   turns what the monitors report into a call of Shutdown
                     DbusHelper      answers the D-Bus process, may call Shutdown
                     IdentityThread, ServiceManagerKeepAliveNotification
                     script executor (a process of its own, ExecuteRepairScriptsPreFork)
                     external programs (SpawnAttr: intermediate, worker and timer process)
```

They share: signals (shell's child, supervisor, D-Bus process, systemd), one
stream socket (D-Bus process and services), a futex and an answer in shared
memory (TestDirThread and executor), `error`, `stop`, `stopPing`,
`testExeReturnValue`, `managerlock` and `workerupdate` (the service's threads),
the device and the pid file (services one after the other).

| component | state | operations | what makes it correct |
|---|---|---|---|
| startup of the service (`init.cpp`, `configfile.cpp`, `main.cpp`, `threads.cpp`) | options, settings, what each test works on | command line, file, daemon, pid file, the threads in their order | a test that was asked for is started, and not before what it works on is ready |
| list of the scripts (`testdir.cpp`, `list.cpp`, `list.hpp`, `repair.cpp`) | a circular list of pointers, `numberOfRepairScripts` | CreateLinkedListOfExes, DeleteDuplicates, list_add, list_del | it holds each script that can run, once, and the walk over it ends |
| monitors (`threads.cpp`) | `error` flags, `testExeReturnValue`, ping contexts, link retries | one test per round, set or clear a flag | a failure reaches the manager; a flag that is on is current |
| link test (`network_tester.cpp`) | the list of interfaces, each with the count of its last round | NetMonInit, NetMonAdd, NetMonCheckNetworkInterfaces | an interface that falls silent is noticed |
| ManagerThread (`threads.cpp`) | `managerlock`, `workerupdate` | broadcast, eight checks, Shutdown | no monitor starves; it deals with what holds, and stops at `stop` |
| Shutdown, EndDaemon, NativeShutdown | `stop`, `stopPing`, what is freed | repair binary, end of the daemon, signal to PID 1 | repair first; nothing used after it is freed |
| Watchdog (`watchdog.cpp`) | `fd`, `timeout`, the device | Open, Ping, Close, ConfigureWatchdogTimeout | what it knows of the timeout is right; an error never leaves a served device disarmed |
| ServiceMain, Pinger (`main.cpp`) | configured interval and timeout, the timer | startup, event loop, final loop | the device fires only if pings go unanswered or the clock is set back; it is disarmed on every way out where the write of the magic character succeeds |
| options (`init.cpp`, `configfile.cpp`) | `cfgoptions` | command line, then file | the order of the sources loses nothing unexpectedly |
| supervisor (`main.cpp`, `daemon.cpp`) | child pids, pending signals | start, reload, end, ready byte | one service at a time; none forgotten; every signal taken |
| pid file (`pidfile.cpp`) | the file | Open, Write, Delete | it is there while a daemon serves |
| D-Bus process (`dbusapi.cpp`) | table of client deadlines, cached answers | PmonInit, PmonPing, PmonRemove, Timeout; five queries; ReloadConfig | ids are not shared; a silent client is noticed; an answer is that of the service that runs |
| script executor (`testdir.cpp`, `threadpool.cpp`, `futex.cpp`) | shared answer, pool, container, two futexes | one round per request | every script runs once per round, tests before repairs; failures are reported |
| `exe.cpp` | intermediate, worker and timer process of a call | Spawn, SpawnAttr | the result is the program's; nothing is left behind; a limit is kept |

Hard behaviour: threads that share flags with and without the lock, a condition
variable without a predicate, an end of the daemon that frees what others use,
two callers of Shutdown, ioctls that fail half way, a timer on the wall clock,
futexes whose wakeups come late or are lost, children reaped by the wrong
caller, signals that merge, a stream without frames. `PROJECT.json` lists each
hazard at its line, with the properties that would catch it.

## 2. Plan

| order | module | what |
|---|---|---|
| done | `Monitors`, `MonitorsProofs` | monitors, manager, Shutdown, DbusHelper, end of main |
| done | `Escalation` | what the service promises about taking the machine down; `Monitors` implements it |
| done | `Watchdog`, `Service`, `ServiceProofs` | the device and its life in ServiceMain; `Service` extends `Watchdog` and `Options` |
| done | `Options` | command line and file: operators that `Service` takes its settings from |
| done | `Scripts`, `ScriptsProofs` | the executor, its pool and the futexes |
| done | `Spawn`, `SpawnProofs` | the processes of `exe.cpp` |
| done | `Registry`, `Pmon`, `PmonProofs` | what the process monitor promises, and its table, which implements it |
| done | `Supervisor`, `SupervisorProofs` | the processes of `main()`, their signals, the pid file |
| done | `DbusLink`, `DbusLinkProofs` | requests, answers and ready bytes on one socket |
| done | `ScriptList`, `Startup`, `StartupProofs` | ServiceMain up to the last thread; the list of the scripts, which `Startup` extends with `Options` |
| done | the link test in `Monitors` | the list of interfaces behind the verdict of `TestLinks` |
| left | a second daemon | two supervisors that race for one pid file (`pidfile.cpp`) |
| left | the log | `SetLogTarget` and what a monitor's message does while the target changes (`logutils.cpp`) |

Theorems still worth proving: the invariants of `Supervisor` for a second daemon.

## 3. Modules

In every module an operator under a comment that begins with "Slip:" is a
plausible mistake in the operator after it. No specification uses it; it is there
to be put in that operator's place, so as to see which property would notice.

### Monitors

One action is one access to shared state, or one whole test under the mutex: a
monitor that holds `managerlock` is interleaved with the monitors that do not
take it, with DbusHelper and with main, but its own test, which touches nothing
else that is shared, is one step. A success that finds its flag set clears it
in a second step (`Reset`), because `if (error & F) error &= !F` is two accesses
to an atomic word.

| state | code |
|---|---|
| `holder`, `pc` | `managerlock`, the place of each thread; `"wait"` is inside pthread_cond_wait, `"woken"` is back from it but without the mutex |
| `error` | `cfgoptions::error`, the set of flags; `!FLAG` is 0, so a clear empties the word (`Cleared`) |
| `testExe` | `testExeReturnValue` |
| `todo`, `cxt` | the Ping iterator and the retry counter each host's context holds |
| `linkMisses` | `retries` of CheckNetworkInterfacesThread |
| `behind` | the interfaces whose `rx` in the list is not the count the kernel shows |
| `cut`, `passes` | the world: an interface that is silent for good; history: successes of the link test since then |
| `check`, `code` | where the manager is in its round, and the argument of each running Shutdown |
| `stop`, `stopPing`, `released`, `cancelled`, `sent`, `wdt`, `proc` | the end of the daemon |
| `verdict`, `refused` | history: the latest result of each test; whether the repair binary failed |

`Shutdown` is a sub-machine that ManagerThread (holding the mutex) and
DbusHelper (without) run: `CallShutdown`, `RepairReturns`, `ShutdownEnds`,
`SetStopPing`, `SignalInit`. `Escalation` is what comes of it, without threads,
flags and locks: a caller is `doomed` by the repair binary's refusal, or by the test
binary's command; then the daemon ends, the pinging stops, PID 1 is asked; the
device is closed after that, or by a service that had been told to leave before the
daemon ended; with -q nothing of it happens. The mapping (`Asking`, `Doomed`,
`Leaving`) reads it off the places of the two callers and of main. EndDaemon may end
early, where a host cannot be removed (`sub.cpp:153`), and then frees the ping object
alone; DbusHelper ends when its read fails. A use of freed memory (`Uses`) lets the
process go on or die; a crash freezes the model.

`behind`, `cut` and `passes` are the list of interfaces. An interface is *behind*
when the count its node holds is not the one the kernel shows now, so that the
next look finds it alive (a new node holds -1, which no count is). The walk of
NetMonCheckNetworkInterfaces ends at the first interface that is there and has
received nothing, and stores the counts of those before it only: one silent
interface keeps those after it behind, and hides a second one for a round. `cut`
is the world's part, an interface that receives nothing from some moment on.
That it may be the only one, or one of several, is in the choice of the counts
(`now`).

Left out: what the other tests measure (their verdict is a choice), the retry
period of each monitor, IdentityThread and the sd_notify keepalive thread, which write to
nothing others read. The number of misses of the link test saturates one above
its limit. `ping_send` (liboping) may report any hosts as missed; the model does
not use that it returns the number of replies.

### Watchdog, Options, Service

`Watchdog` is the class of the same name on top of a device with the state
`armed`, `period`, `left`. Member functions are actions with their return value
as a parameter; every ioctl may fail, within the rules of the kernel's interface:
a device rounds a timeout to one it supports, up or down, and writes it back
(`Chosen`), and it can be disarmed unless it is `NoWayOut`. The SETTIMEOUT that
Ping sends before it tries KEEPALIVE again (`SetAgain`) does the same. Close may
fail to write the magic character (`watchdog.cpp:46`): the file is closed and the
device goes on counting (history variable `unwritten`). A driver that refuses the
configured timeout leaves Watchdog with a guess (`guessed`).

`Options` has operators only, in the order of the code's statements: the options
a command line leaves on (`ParseCommandLine`; `options &= !DAEMONIZE` is
`options &= 0`, so -n, -d and -F take back what came before), what the file makes
of them (`use-pid-file = false` clears everything but softboot, which is read
later), and the two settings with their range.

`Service` is ServiceMain from the call of `watchdog.Open`, with the Pinger timer
(`due`) and the loop that follows a reboot request. `phase` names the place in
ServiceMain, `setting`, `interval` and `force` are what `Options` computes from
a line and a file, without those that open no device (-q, -i). `SetStop` and
`SetStopPing` stand for EndDaemon and NativeShutdown in another thread. Time
passes only inside the event loop and the final loop, and once the process is
gone; a timer that is due runs before the second is over, so that what is shown
is the program's own arithmetic, not the scheduler's. The timer is for the wall
clock, which somebody may set back by up to `MaxClockStep` seconds between two
pings (`setBack`): the next ping is later by as much.

KEEPALIVE may fail at any ping, the identity's, Pinger's or the final loop's, and
ServiceMain never looks at what Ping returned: `PingFor` takes both results and
arms the next wait. `missed` adds up the waits behind pings in a row that were
not answered; `MaxMissed` bounds it. A service that ends has returned
(`"exited"`) or was cut short by abort or a read through NULL (`"aborted"`), and
`ExitDisarms` is about both.

### ScriptList, Startup

`Startup` is ServiceMain from the command line to the last thread that
StartHelperThreads creates: one process, one thread, an action per part of the
code, in its order. What the machine may refuse (memory that can be locked, a
scheduler, a host that resolves, a pid file that another holds, a fork, a thread)
is chosen where the program asks for it. `Monitors` goes on from there with the
set of threads that `started` holds. The ends also hold a line that getopt or
the search for the device refuses, and a directory that cannot be read (fdopendir).
`Asked`, what the user asks for, is read off the letters of the line (`Stands`) and
the settings of the file, not off `flags`. It makes two exceptions where the program
loses what was given: a -s with -n, -d or -F behind it, and any sync beside
`use-pid-file = false`.

| state | code |
|---|---|
| `start` | the command line, the file and the directory the service is given; constant |
| `phase` | the place in ServiceMain; `"failed"` is a return, `"aborted"` an abort, `"crashed"` a use of memory that is not there |
| `flags`, `cfg`, `logTarget` | `cfgoptions.options`, the settings the threads are started by, the target of the log |
| `announced`, `pidFile` | SIGUSR1 was sent to the shell's child; the pid file is this process's |
| `pingObj`, `devices`, `executor` | what Ping, CheckNetworkInterfacesThread and TestDirThread work on |
| `turn`, `started` | the place in StartHelperThreads, and what it has started |
| `dir`, `at`, `walk` | the directory in the order of readdir, the next entry, the place in CreateLinkedListOfExes |
| `next`, `prev`, `freed` | the links of every node (0 is the head), and the nodes given back to malloc |
| `c`, `cNext`, `b`, `bNext` | the cursors of the two loops of DeleteDuplicates and the successors that list_for_each_entry has saved |
| `number` | `numberOfRepairScripts` |

`ScriptList` keeps the pointers because the question is about them: the macro
saves the successor of the loop's node, so that the body may delete *that* node,
but DeleteDuplicates deletes the outer loop's node from within the inner loop.
An entry of the directory is what the code asks of it (does its name begin with a
dot, what follows the last dot, what fstatat and IsExe say, whose script it is).
Left out: the texts, the limits of a load and their defaults, the signals and the
event loop that are set up in between (`Service` begins there), and a shmget or
shmat that fails (`testdir.cpp:378`), whose result is used unseen.

### Scripts

Two processes and the executor's threads; each access to shared memory is a
step, because every wrong order is between two of them.

| state | code |
|---|---|
| `reader`, `reported` | TestDirThread in ExecuteRepairScripts; SCRIPTFAILED |
| `answer` | `rst->ret`, in shared memory, read without waiting for the round |
| `exec`, `pass`, `at` | the place of `__ExecuteRepairScripts`, which of its two loops, at which script |
| `cmd`, `count`, `sem` | `container.cmd`, `container.workerThreadCount`, the futex `sem` |
| `mode`, `failed` | `mode` and `ret` of each script |
| `worker`, `script` | the place of `__ExecScriptWorkerThread` in each thread of the pool, and the script it has taken |
| `tested` | history: the scripts tested in this round |
| `strayed` | history: the main thread has gone on although the script it gave was not yet taken, or never will be |

`strayed` marks two faults of the code, so that the properties can say what holds
outside of them: the wait at testdir.cpp:329, which a wakeup for an earlier
script may end (the run `two_scripts`), and the search for a free thread that
goes past the end of the table when scripts outnumber threads. Left out: what a
script does and how long it takes, and `ThreadPoolCancel`, which nothing calls.
The list of the scripts is that of `ScriptList`.

### Spawn

`SpawnAttr`, for several callers that are threads of one process. Per caller:
`call`, `status`, `result` (the caller in waitpid), `inter` (the intermediate:
forks the worker, clones the timer, waits for the first, kills and reaps the
second), `worker` and `ended` (the program; `"copy"` is a worker whose execv
failed and which returned into its caller's code), `timer`, `exceeded` (the log
message). Any of at most `MaxFailures` calls of fork and clone fails. A failed
fork leaves -1, so that the caller waits for any child (`ReapAny`,
`NoChildren`) and a kill of worker -1 ends everything (`alive`). Left out: user,
directory and nice level of the worker; the death of the caller.

### Registry, Pmon

`Registry` is what the process monitor of the D-Bus interface promises its
clients: an id nobody else has, a refusal only if all are taken, an alarm
exactly if an id was silent for its period. `Pmon` is the table behind it:
`clients`, `freeIds`, `lastFreedSlot`, `lastAllocatedId`, `openSlots`,
`clientTimeout` under their own names, `enabled` and `left` for the state of
each sd-event timer. The refinement maps `used` to `clients` and `deadline` to
`left` where the timer is enabled. The owner's name is read from a message that
was freed, so the comparison may go either way, and a request that is turned
down changes nothing. PmonInit's read past the end of the table is a choice
(`PmonInitReuse`, `PmonInitOverrun`; after the second the model ends), and so is
the value of errno in Timeout (`"writing"` is the loop that never ends).
Requests for an id that was never given are not modelled.

### Supervisor

| state | code |
|---|---|
| `shell`, `super` | the two loops over a signalfd in `main()`; `"reload"` is the second read after SIGHUP |
| `pending` | signals pending at either: each once, read in the order of their numbers |
| `named`, `service`, `told` | the unit the supervisor stops by name; where each service is; which got SIGTERM |
| `pidfile` | whom the file names: nobody, the supervisor, a dead process, another that lives |
| `dbus`, `ready` | the D-Bus process and the ready bytes in its socket |
| `reloads`, `ends` | how many SIGHUPs, and SIGTERMs or SIGINTs, have come from outside |
| `crossed` | history: a reload took another signal for the SIGCHLD it waits for |

systemd is external: `StopUnit` sends SIGTERM to the unit of that name and does
not wait. A service may fail at any moment, be slow to stop, or find the device
in use by its predecessor. The fork of a service may fail (`StartService` leaves
`service[named]` at `"none"`): main() goes on with pid -1 and waits for signals,
although no SIGCHLD will come. `DeathNoticed` excuses this case by name. Left out:
the making of the scope unit, `-i` and `-q`, a second daemon with the same pid file,
and a failure of the first two forks of main(), which make the shell's child and the
D-Bus process.

### DbusLink

| state | code |
|---|---|
| `dbus` | the D-Bus process: waiting for the first byte, idle in its event loop, in a method, in ReloadService, stuck in Timeout |
| `has`, `buf` | `path`, `identity`, `version`, `timeout`, `buf` of dbusapi.cpp: what counts as known, and the bytes |
| `requests`, `answers` | the two directions of the socket, as streams |
| `helper`, `announced` | DbusHelper of each service; which services have written the ready byte |
| `last`, `down`, `sighup` | the supervisor, as far as the stream sees it (`"childless"`: the fork of the next service has failed, and nobody is at the other end); a SIGHUP that is pending stays so when a later one is lost with the shell's child |
| `surplus` | history: a service was started while nobody waited for its ready byte |

A request is a long, which DbusHelper reads as two ints; ReloadService reads up to
`IntSize` bytes, the size of an int in the scale of the model; Timeout in its endless
loop (`"stuck"`) writes one request where the code writes for ever; an answer is as many
bytes as the service writes, a read takes what is there up to the size of its
buffer, and what it leaves is read by the next method. The bytes carry whom they
are from, which the program does not know. The supervisor here starts one
service after the other; the module `Supervisor` says when it does otherwise.

### The proof modules

`MonitorsProofs`, `ServiceProofs`, `StartupProofs`, `ScriptsProofs`,
`SpawnProofs`, `PmonProofs`, `SupervisorProofs` and `DbusLinkProofs`: section 5.

## 4. Runs

Each run asks one question; the instance has the actors it takes to get the
answer wrong, and no more.

| run | module | asks |
|---|---|---|
| `groups` | `Monitors` | seven configurations, every interleaving: `IInv`, `CurrentReason` (while the manager acts on a flag, the condition has not gone away), `RepairFirst`, `LinkNoticed` (a silent interface passes at most one test more, whatever the others hide), `Escalates` (the refinement) |
| `live` | `Monitors` | under fairness: `KeepsTesting`, `LoadHandled`, `TerminationTaken`, `ManagerLeaves` |
| `lost_failure` | `Monitors` | (violated) `ProblemReachesManager` |
| `service` | `Service` | lines, files, failing ioctls and writes, pings in a row without an answer and a clock that is set back: `Guarded`, `ExitDisarms`, `InTime`, `IInv` |
| `startup` | `Startup` | lines, files and directories in every order, under fairness: `ListAsPromised`, `AskedIsReady`, `StartEnds` |
| `workers` | `Scripts` | two scripts, two workers: `TakenAndExecuted`, `Quiet`, `CountExact`, `NoLostWakeup` |
| `rounds` | `Scripts` | two scripts, one worker, under fairness: `FailureReported`, `FailureForgotten` |
| `two_scripts` | `Scripts` | (violated) `AllExecuted` |
| `calls` | `Spawn` | two callers, one with a limit: `KillsOnlyOwn`, `NothingLeft` (also where another caller has reaped the intermediate), `ResultTrue`, `CallReturns` |
| `table` | `Pmon` | three ids: `IInv`, `Implements` (the refinement), `SilenceNoticed` |
| `signals` | `Supervisor` | two SIGHUPs and a SIGTERM or SIGINT: `NoOrphan`, `DeathNoticed`, `OneAtATime`, `PidfileThere`, `TerminationTaken`, `AllEnd`, `DaemonDetaches` |
| `link` | `DbusLink` | three methods, two services: `StreamOK`, `FreshAnswers`, `MethodReturns`, `ReloadReturns` |

### Bounds

* `groups`: each configuration has the monitors that share a flag, clear that of
  another, have several targets or no lock. Locked monitors differ only in their
  flag, so that two lockers and one without a lock are all that can meet. Two
  hosts with a retry limit of one: one host is within its limit when the other
  passes it. Two interfaces, of which either can be the one that is cut and the
  one before or after it; one miss that is tolerated. Two pid files: the first
  failing one hides the second. Codes 1 and 254 of the test binary: one that is
  repaired and one that is not. TestFork and TestMemoryAllocation, which run in
  every service, are in one configuration each: for safety the others are
  behaviours in which these two do not move.
* `live`: a monitor with a flag and one without; `LoadHandled` is about monitors
  that do not clear each other's flags, because those that do lose failures
  (`lost_failure`).
* `service`: a device with timeouts of 1, 3 and 5 seconds, so that halving
  rounds, and a requested 2 or 4 has to be rounded, up or down; settings
  below, at and above each of them, out of range and absent; -f given, taken back
  by -F, and given after it; `use-pid-file = false`, which clears it. A clock set
  back by up to 2 seconds: less than, as much as and more than the slack between
  interval and timeout, which is what `InTime` is about. Pings in a row without an
  answer for up to 6 seconds (`MaxMissed`), more than the longest timeout, so that the
  device fires behind them.
* `startup`: every order of up to four out of two scripts and three
  configurations, two of them for one script, so that a script may come right
  after its configuration, before it, and between two of them; every order of two
  with the entries nobody wrote a test for (a hidden file, a directory and a
  dangling link without a dot, a text, a configuration without ExecStart). Each
  array absent, not an array, empty or filled, in every combination.
* `workers`, `two_scripts`: the shortest list in which a wakeup can come from the
  wrong worker. `rounds`: the shortest in which a worker is needed twice.
* `calls`: two callers, because a third can only reap as the second does; two
  failing calls, so that a failed fork meets another failure.
* `table`: three ids, so that the order of the stack matters and the table can be
  full, empty or in between with every id given before; periods of one and two
  ticks.
* `signals`: two SIGHUPs make the third service, and a second reload while the
  first is going on; more of them merge in `pending`. One SIGTERM or SIGINT at
  any moment.
* `link`: a string whose new value is shorter than the old, a value as wide as its
  buffer and one half as wide; two services (one reload) and three requests, one
  more than the methods that can have been left without an answer; one client
  whose time is over.

Deadlock is checked in `groups`, `live`, `lost_failure`, `startup` and in the runs
of `Scripts`: a process that has ended stutters there, so a deadlock would be one
of the threads' own. The other models stop where the program does: the service
exits or the machine is reset (`Service`), the supervisor ends everything
(`Supervisor`, `DbusLink`), SIGKILL is sent to every process (`Spawn`), the
process runs past its table or writes for ever (`Pmon`).

### Fairness

* `Monitors`: every thread keeps running (weak fairness of its own steps), and
  taking the mutex is strongly fair, because its owners give it up again and
  again: glibc's mutex is not a queue, but the manager sleeps five seconds between
  rounds and a monitor holds it for one test. The repair binary ends: its timeout
  is not implemented (`exe.cpp:27`), so this is an assumption about the binary, not
  about the program. SIGTERM, D-Bus commands and spurious wakeups need not happen.
* `Startup`: the one thread runs (weak fairness of its next step). Which of the
  refusals happen is not restricted.
* `Scripts`: the threads run, the scripts end, TestDirThread asks every 30
  seconds. Nothing makes a script succeed or fail.
* `Spawn`: caller, intermediate and timer run; the program need not end, and a
  worker that failed to become one serves for ever.
* `Pmon`: time goes on, and sd-event comes to every timer that stays due. Clients
  need not do anything.
* `Supervisor`, `DbusLink`: the processes and threads run. Signals and requests
  need not come, services need not fail. `StopUnit` reaches its unit.

### What the runs found

* `lost_failure`: `error &= !FLAG` clears every flag, not its own
  (`threads.cpp:178`, 229, 306, 330, 402), so that a recovery loses the failure
  that another monitor has just reported.
* `two_scripts`: the wait for a worker's start is ended by a wakeup that was meant
  for the one before (`testdir.cpp:329`), and a script of the round does not run.

The models hold more that the code does and no document denies; the properties
say where they leave it out. A SIGHUP that does not come from ReloadConfig (as
`ExecReload` of contrib/systemd/watchdogd.service.in sends it) puts the D-Bus
socket out of step (`surplus`). A reload that meets another signal makes two
services live at once, of which the second may be refused the device
(`crossed`). A call whose fork failed returns success without having run anything
(`forked` in `Returned`). A client whose timer has fired pings in vain
(`Refresh`).

In the startup and in what it leads to:

* A script that comes right after its configuration in the list, which is the
  reverse of the order of readdir, is freed while the inner loop has it saved as
  its next node. list_del makes it point to itself, and the loop stays there for
  ever (`Trapped`): the service never starts. `list.hpp` says of the macro that it
  "allows for the deletion of a list element while looping through the list",
  which it does for its own loop's node only. `StartEnds` leaves this case out.
* A second configuration of a script compares a path that was freed, and may free
  it again (`DropAgain`).
* A name without a dot, such as that of a subdirectory, ends the service:
  `strrchr` returns NULL (`repair.cpp:131`, `Crashes`).
* `network-interfaces = []` starts the thread that walks a list nobody has
  initialised: `Ready` leaves it out, and the thread ends the process at its first
  test (`LinkThreadWalks`).
* -f, -s and -b before -F, -n or -d are lost (`Clearing`), and so is everything
  that came before `use-pid-file = false`, but for softboot. README:43 says of -s
  "Regularly schedule file system synchronization with sync()" and makes no such
  exception: `Asked` has to.
* conf/watchdogd.conf:5 says of daemonize "default true. command line option
  overrides config file". The default is off, and the file is read after the line.
* The log-target of a daemon is lost: Daemonize sets the system log
  (`DaemonOrNot`).
* A limit for five or fifteen minutes without one for one minute starts no
  thread (`maxLoadOne`), and a CheckNetworkInterfacesThread that cannot be created
  is not missed (`StartHelperThreads`).
* The search for silent interfaces ends at the first (`StoreCounts`): a second one
  is noticed once the first is back, and one test later than it could be.

In the service and the supervisor:

* A service that could not write the magic character exits as if the device were
  disarmed (`main.cpp:330`, `unwritten`), and one that aborts leaves it armed.
* Pinger arms its next timer for a whole interval although Ping has returned -1
  (`main.cpp:124`): with an interval above half the timeout, a single KEEPALIVE that
  fails is enough for a reset.
* Without a configured timeout the interval is compared with nothing
  (`main.cpp:259`), and may be longer than the device's own timeout.
* A fork of the service that fails leaves the supervisor waiting without a child
  (`main.cpp:447`), and a method of the D-Bus process that waits then waits for good.

An interval equal to the timeout is accepted (`main.cpp:260` refuses one that is
longer), so that the ping and the reset are due in the same second: with
`interval = period` the condition of `InTime` holds without any step of the clock
and without a ping that fails.

## 5. Proofs

Every theorem is for all values of the constants that satisfy the named
assumptions of their modules: any number of monitors, hosts, scripts, workers,
callers, ids, signals, services.

`MonitorsProofs`: `TypeCorrect`, `Invariance`, `ReasonIsCurrent`,
`RepairComesFirst`, `LinksNoticed`, `NoEarlyCrash`, `QuietIsHarmless`. The inductive invariant `IInv` adds to the
type invariant: who holds the mutex is where the program says so (`LockInv`), a
flag only one locked monitor writes is that monitor's latest verdict or about to
be cleared (`FlagInv`), nothing is freed before `stop` (`EndInv`), an interface that
was cut and has passed a test since is not behind any more (`LinkInv`), so that
the next test fails.
`CurrentReason` needs `LockInv` and `FlagInv`: while the manager is in Shutdown
it holds the mutex, so the monitor concerned can be neither testing nor clearing.
The steps are grouped by who takes them; the frame lemmas say what each group
leaves alone. `MonitorsImplementEscalation` is the refinement: `OrderInv` says what must have
happened by each place of Shutdown and of the end of main, and each step is then one
of `Escalation`, or leaves alone what it sees (`Still`).
`QuietIsHarmless` (`NoActionHarmless`) has an invariant of its own (`QuietInv`): with -q
Shutdown returns at once, so that no thread is ever inside it.
`MutexComesBack` and `JoinComesBack` are about waiting: the owner of `managerlock`
is always at a label of its critical section with a step of its own, each of which
lowers what is left of it (`MonitorToll`, `ManagerToll`, with the hosts still to
look at counted), the manager that wakes the others is there until `stop`, and
main joins only a thread whose way out (`HelperWay`) no command makes longer.
`FailureOnRecord` is the other side of the run `lost_failure`: a high load, or a lack of
memory, is on record whenever the manager looks, provided that no other monitor that was
started clears the word of flags. Its invariant says that no clearing is on its way while the
latest verdict is a failure (`RecordInv`).

`ServiceProofs`: `DeviceKnown` (the invariant `Sound`), `AlwaysGuarded`,
`ExitsDisarm`, `IntervalAccepted`, `TimeKept` and `NeverLate`, wherever the clock goes. `Slack` is
what makes `InTime` inductive: what is left of the timeout, what the clock was
set back by and what was waited behind unanswered pings cover the time to the next
ping and what the timeout has more than the interval. `IntervalAccepted` needs a
configured timeout, no -f and a driver that has not refused the timeout; the others
need nothing. `PingEffect`, `OpenEffect` and `ConfigureEffect` say
what the member functions of Watchdog guarantee with any failing ioctl,
`SettingsInRange` what `Options` lets through.

`StartupProofs`: `Invariance` and `ListKept` (`ListAsPromised`), for directories of
any length, in any order, with any files. The invariant `IInv` of `Startup` says
that the links are inverse to each other and in the reverse order of the directory
(`LinksAre`), whatever was deleted; that the outer loop has left behind no script
that has a configuration; and that it has counted what it left there. `AddKeepsList`
and `DelKeepsList` are about `list_add` and `list_del` alone. `TestsReady`
(`AskedIsReady`) is proved from what each phase has made ready by its end
(`PhasesInv`, `ReadyInv`) and from the order of the turns of StartHelperThreads:
every turn that is over has started its thread, if the thread was asked for (but
for the last one, which the service does not miss); `Standing` is the step from the
letters of the line to the option that ParseCommandLine leaves on. `StartDescends` and `StartGoesOn`
say why the startup ends: three numbers descend in lexicographic order (`Rank` for
the phases, `Loop` for the loop of a phase over entries, nodes or threads, `Inner` for
the inner loop of DeleteDuplicates), and there is always a next step.
The loops of DeleteDuplicates are measured by the numbers of their nodes: nodes are numbered in the order
of the directory, and `LinksAre` says that the list holds them in the reverse one.
`TrapHolds` says that the case they leave out is a true one: the trap is never left.

`ScriptsProofs`: `TypeCorrect`; `TestsBeforeRepairs`, `RoundsApart` and
`CountTrue`, for any number of scripts and any length of the pool, as long as the
main thread has not gone on too early (`strayed`); and `WakeupKept`, for `NumScripts <= MaxWorkers`:
while the main thread sleeps on `sem`, a worker is still to wake it. A sleeper
has found `sem` at 0 after it gave a task; whoever has that task sets `sem` and
wakes later than that (`WorkersWake`, `ThreadsWake`). The other three share `RoundInv`:
the count is the number of workers with a script, and each script that was given
in this pass is tested, in the hands of one worker, or about to be taken. With more scripts than
workers the task may go to nobody. `OwnInv` adds who has which script: `ScriptsOwned`
(one worker each, in the mode of its loop), `OnlyFailedRepaired` and `NoneAstray`
(no worker finds the container empty) follow from it. `AnswerTrue` says what the
answer is worth between two rounds: a script is failed now, and as a repair; it needs that
no script fails behind the second loop (`RepairsTried`), which is `ScriptsGiven` again.
`RoundsDescend` and
`RoundGoesOn` say why a round ends: the main thread's place in its loops and each
worker's in its task descend, and somebody can always go on. The second needs the
strengthening of `NoLostWakeup` for a table of any length (`WakeupInv`).

`SpawnProofs`: `Invariance`, `TypeCorrect`, `NothingLeftBehind`, `ResultIsTrue`,
`OnlyOwnKilled`.
The invariant says, for each place of the intermediate, what worker, timer and
verdict can be, and that the callers' processes are apart, so that a step of one
call leaves the others as they are (`OthersKeep`). `MissingInv` adds that a worker
is missing after its fork only where a call has failed. `CallsDescend`: the steps
that are left to a call (`Left`, at most eleven) are lowered by its own and raised
by nobody's. `NobodyStranded`: without a failed call the caller waits for its own
intermediate (`ForkInv`), and with a limit that one has a timer to wait for.

`PmonProofs`: `TableSound` (table, stack and counter agree: `StackFree`,
`SlotsCounted`; the counting rests on the library's facts about cardinalities) and
`PmonImplementsRegistry`, the refinement: under the invariant each step of the
table is a step of `Registry` or leaves its variables alone. `ClientsWatched`: a
client is off its timer only when a shutdown has been asked for, and between two
pings what is left to it only falls.

`SupervisorProofs`: `TypeCorrect`, `NothingForgotten` and `DeathOnRecord` (`NoOrphan`
and `DeathNoticed` together are inductive: a service is forgotten only when its death
is, and the other way round; a service that was never forked has no death to notice), `OneService` and `PidfileKept`, both for as long as
no reload took another signal for its SIGCHLD. Their invariants say when the
supervisor has a service to wait for, and that in a reload SIGCHLD is pending only
once the service is dead. Five more have no such condition. `FarewellSaid`, `NewsKept` and
`TerminationKept` say that what a process waits for in the end, an order, news or
a signal, is with somebody who passes it on (`WayInv`); a SIGTERM that a daemon's reload
reads is lost, and the theorem says so. `StartsCounted`
counts a SIGHUP wherever it is, pending, read, or on its way round (`StartsInv`), so that
no merging or sending back makes two starts of one. `ServicesAge` is why `NoOrphan`, which
speaks of numbers, is about processes.

`DbusLinkProofs`: `Invariance`, `InStepKept` (`StreamOK`) and `AnswersAreFresh`
(`FreshAnswers`), for any methods, any answers that fit their buffers, and any
number of services, as long as each was awaited (`surplus`). The invariant says that
nobody but the last service is at the socket (`LifeInv`), that a process that waits
for a ready byte finds that of the last service or none (`ByteInv`), and that the
question of a method is in one place: on the way, with the service, answered, or
lost with a service that was stopped (`MethodInv`). `NobodyWaitsInVain` and `ServicesRest` need
no condition on `surplus`: while a service is up (none is where its fork has failed), a D-Bus process that waits has bytes before
it, or the service is still to write some (`Waited`), there is always a service
left to start (`AbleInv`), and a service has finitely much to do
(`Effort`) while nobody asks anew.

Only model-checked: the two properties that are violated, and the liveness properties as such.
Fairness, ENABLED and induction over a measure are outside the prover's reach, so what
is proved of them is their part without these: that nobody is stuck or waits for
what is lost, and that the steps on the way descend in a measure. TLC's runs show the
conclusion on the small instance.

| liveness property | its proved part |
|---|---|
| `StartEnds` | `StartDescends`, `StartGoesOn`, `TrapHolds` |
| `CallReturns` | `CallsDescend`, `NobodyStranded` |
| `KeepsTesting`, `ManagerLeaves` | `MutexComesBack` |
| `TerminationTaken` of `Monitors` | `JoinComesBack` |
| `SilenceNoticed` | `ClientsWatched` |
| `TerminationTaken` of `Supervisor`, `AllEnd`, `DaemonDetaches` | `TerminationKept`, `FarewellSaid`, `NewsKept` |
| `MethodReturns`, `ReloadReturns` | `NobodyWaitsInVain`, `ServicesRest` |
| `FailureReported`, `FailureForgotten` | `RoundsDescend`, `RoundGoesOn`, `AnswerTrue` |
| `LoadHandled` | `FailureOnRecord`, `MutexComesBack` |

## 6. Not modelled

Boot status, identification (what wd_identify and `FindBestWatchdogDevice` print
and choose), logging and formatting: output, or values nobody else reads. What a
test measures, but for the link test. A getifaddrs that fails (its result is then
read uninitialised), and a byte count that has wrapped round to exactly the value
it had. The parsing of the configuration by libconfig and of the command line by
getopt; the conversion of an old watchdog.conf (`configfile.cpp:223`), which is
text to text. The set-up of the bus and of the scope unit. A pool whose threads
cannot be created (`threadpool.cpp:64` does not look). A second daemon that opens
the same pid file at the same moment (its device is opened for one process only), and
messages that are written while the target of the log changes. The killing that PID 1
does, and `linux.cpp`'s view of the machine beyond NativeShutdown and
PlatformInit. `PROJECT.json` says of each component that is modelled in part what
is missing.
